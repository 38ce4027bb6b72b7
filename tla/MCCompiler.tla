----------------------------- MODULE MCCompiler -----------------------------
(***************************************************************************)
(* Requests for the compiler: every condition of two levels over a small   *)
(* set of predicates, and queries with every kind of relation, projection, *)
(* union, ordering and parameter; with the ones the compiler must refuse.  *)
(***************************************************************************)
EXTENDS Compiler

MCCatalog ==
    [t |-> <<Field("id", Int64, FALSE), Field("a", Int64, TRUE), Field("ok", Boolean, TRUE)>>,
     s |-> <<Field("id", Int64, FALSE), Field("k", Uuid, FALSE)>>,
     mv |-> <<Field("day", Int64, FALSE), Field("total", Float64, FALSE),
              Field("spread", Float64, FALSE), Field("peak", Int64, FALSE)>>]
MCMergeFn == [mv |-> [total |-> "summerge", spread |-> "stddevpopmerge", peak |-> "max"]]

MCDatabase ==
    [t |-> Relation(<<"id", "a", "ok">>,
                    << <<IntV(1), IntV(1), BoolV(TRUE)>>, <<IntV(2), Null, BoolV(FALSE)>>,
                       <<IntV(3), IntV(0), Null>> >>),
     s |-> Relation(<<"id", "k">>, << <<IntV(1), UuidV(7)>>, <<IntV(4), UuidV(8)>> >>),
     mv |-> Relation(<<"day", "total", "spread", "peak">>, <<>>)]

Source(q) ==
    [query |-> q, lines |-> <<>>, trailing |-> <<>>, from_first |-> FALSE, explain |-> FALSE,
     bytes |-> 8]
Large == [d \in Range(Dimensions) |-> 32]
Request(q, supplied, backend) ==
    [source |-> Source(q), overrides |-> <<>>, intended |-> q, supplied |-> supplied,
     backend |-> backend, budget |-> Large]

\* Short forms.
Col(n) == Column(None, n)
Lit(n) == Literal(IntV(n))
P(n) == Parameter(<<0, n>>)
Named(n) == Parameter(<<1, n>>)
Tab(n) == From(Table(n, None), <<>>)
Items(es) == [i \in DOMAIN es |-> Item(es[i], None)]
Star == <<Wildcard(None)>>
Simple(items, from, where) == Query(Select(items, from, where))
Ids(where) == Simple(Items(<<Col("id")>>), <<Tab("t")>>, <<where>>)
As == Simple(Items(<<Col("a")>>), <<Tab("t")>>, <<>>)
CountStar == Function("count", << [kind |-> "Star"] >>)

-----------------------------------------------------------------------------
Predicates ==
    {Col("ok"), IsNull(Col("a")), Binary("Eq", Col("a"), Lit(1)),
     Apply("Between", "", <<Col("a"), Lit(0), Lit(1)>>),
     Apply("InList", "NOT", <<Col("a"), Lit(0), Lit(2)>>),
     Subquery("InSubquery", <<Col("id")>>, As),
     Subquery("Exists", <<>>, As),
     [Subquery("Exists", <<>>, As) EXCEPT !.negated = TRUE]}
Conditions ==
    Predicates \cup {Not(p) : p \in Predicates} \cup {IsNull(Nested(p)) : p \in Predicates}
    \cup {IsNull(Not(p)) : p \in Predicates} \cup {Not(Not(p)) : p \in Predicates}
    \cup {Binary(op, Nested(p), Nested(q)) : op \in {"And", "Eq"}, p, q \in Predicates}
    \cup {Binary("Or", p, Not(p)) : p \in Predicates}

ByCondition == {Request(Ids(c), <<>>, backend) : c \in Conditions, backend \in Both}

\* FROM and the projection.
OnIds == <<Binary("Eq", Column("t", "id"), Column("s", "id"))>>
Joins == {From(Table("t", None), <<Join(kind, Table("s", None), IF kind = "Cross" THEN <<>> ELSE OnIds)>>) :
            kind \in JoinKinds \cup {"Asof"}}
Derivations ==
    {From(Derived(Simple(Star, <<Tab("s")>>, <<>>), "s"), <<>>),
     From(Table("t", None), <<Join("Left", Derived(Simple(Star, <<Tab("s")>>, <<>>), "s"), OnIds)>>),
     From(NestedJoin(CHOOSE j \in Joins : j.joins[1].kind = "Left", "n"), <<>>)}
Projections ==
    {Star, <<Wildcard("s")>>, Items(<<Col("k")>>), Items(<<Col("id")>>),
     Items(<<Col("k"), Column("s", "id")>>), Items(<<CountStar>>),
     Items(<<Function("sum", <<Col("a")>>), Function("count", <<Col("a")>>)>>),
     Items(<<Function("coalesce", <<Col("a"), Lit(5)>>),
             Case(<<>>, <<When(Col("ok"), Lit(1))>>, <<>>)>>)}
ByShape == {Request(Simple(p, <<t>>, <<>>), <<>>, backend) :
                p \in Projections, t \in Joins \cup Derivations \cup {Tab("s"), Tab("x")}, backend \in Both}

\* Grouping, unions, common table expressions, ordering, limits, parameters.
Grouped(having) ==
    Query([Select(Items(<<Col("ok"), CountStar>>), <<Tab("t")>>, <<>>) EXCEPT
                !.group_by = <<Col("ok")>>, !.having = having])
UuidGroups ==
    Query([Select(Items(<<Col("k"), CountStar>>), <<Tab("s")>>, <<>>) EXCEPT !.group_by = <<Col("k")>>])
Bodies == {Ids(Col("ok")).body, As.body, Select(Items(<<Col("a"), Col("id")>>), <<Tab("t")>>, <<>>),
           Select(Items(<<Literal(Null)>>), <<Tab("t")>>, <<>>),
           NestedQuery([As EXCEPT !.limit = <<Lit(1)>>]), UnsupportedSetExpr}
Unions == {Query(UnionAll(l, r)) : l, r \in Bodies}
WithCte(q) == [q EXCEPT !.ctes = <<Cte("c", <<"x">>, As)>>]
Ctes == {WithCte(Simple(Star, <<Tab("c")>>, <<>>)),
         WithCte(Simple(Items(<<Col("x")>>), <<From(Table("c", "d"), <<>>)>>, <<IsNull(Column("d", "x"))>>)),
         [WithCte(As) EXCEPT !.with_recursive = TRUE],
         WithCte(Ids(Subquery("InSubquery", <<Col("a")>>, Simple(Star, <<Tab("c")>>, <<>>)))),
         [As EXCEPT !.ctes = <<Cte("c", <<>>, As), Cte("d", <<>>, Simple(Star, <<Tab("c")>>, <<>>))>>]}
Ordered == [As EXCEPT !.body.distinct = TRUE, !.order_by = <<OrderBy(Col("a"), TRUE)>>,
                      !.limit = <<Lit(2)>>, !.offset = <<Lit(1)>>]
Tails == {Ordered, [As EXCEPT !.limit = <<Lit(2)>>, !.offset = <<Lit(1)>>],
          [As EXCEPT !.clauses = {"fetch"}], [As EXCEPT !.clauses = {"order_by_all"}],
          [As EXCEPT !.backend_clauses = {"settings"}],
          [As EXCEPT !.order_by = <<OrderBy(Function("sqrt", <<Col("a")>>), TRUE)>>],
          [As EXCEPT !.limit = <<Function("toString", <<Lit(1)>>)>>]}
Odd == {Ids(Binary("Eq", Col("id"), Subquery("ScalarSubquery", <<>>,
                    Simple(Items(<<Function("max", <<Col("a")>>)>>), <<Tab("t")>>, <<>>)))),
        Ids(Binary("Eq", Col("id"), Subquery("ScalarSubquery", <<>>, As))),
        Ids(Subquery("Exists", <<>>, Simple(Star, <<Tab("s")>>,
                    <<Binary("Eq", Column("s", "id"), Column("t", "a"))>>))),
        Ids(Subquery("InSubquery", <<Col("id")>>, Simple(Star, <<Tab("s")>>, <<>>))),
        Ids(Function("median", <<Col("a")>>)), Ids([kind |-> "Other"]),
        Ids(Apply("Unary", "Minus", <<Apply("Unary", "Minus", <<Col("a")>>)>>)),
        Simple(Items(<<Function("quantile", <<Col("a")>>)>>), <<Tab("t")>>, <<>>),
        Simple(Items(<<[Function("sum", <<Col("a")>>) EXCEPT !.filter = <<Col("ok")>>]>>), <<Tab("t")>>, <<>>),
        Simple(Items(<<[Function("count", <<Col("ok")>>) EXCEPT !.distinct = TRUE]>>), <<Tab("t")>>, <<>>),
        Simple(Items(<<[Function("count", <<Col("ok")>>) EXCEPT !.clauses = {"within_group"}]>>), <<Tab("t")>>, <<>>),
        Simple(Items(<<[Function("rank", <<>>) EXCEPT
                            !.over = <<Window(<<Col("a")>>, <<OrderBy(Col("id"), TRUE)>>)>>]>>), <<Tab("t")>>, <<>>),
        Simple(Items(<<Col("total")>>), <<Tab("mv")>>, <<>>), Simple(Star, <<Tab("mv")>>, <<>>),
        Simple(Items(<<Binary("Add", Column("mv", "total"), Lit(1))>>), <<Tab("mv")>>,
               <<Binary("Gt", Col("total"), Lit(0))>>),
        Simple(Items(<<Function("sum_merge", <<Col("total")>>)>>), <<Tab("mv")>>, <<>>),
        Simple(Star, <<Tab("t"), Tab("s")>>, OnIds),
        Simple(Star, <<From(UnsupportedRelation, <<>>)>>, <<>>),
        Query([Select(Items(<<Col("ok")>>), <<Tab("t")>>, <<>>) EXCEPT !.distinct = TRUE]),
        Simple(Items(<<Binary("Divide", Col("a"), Lit(2)), Literal(TextV(1)),
                       Apply("Cast", Int64, <<Col("a")>>)>>), <<Tab("t")>>, <<>>)}
\* Sums, means and quotients of whole numbers, in place and from inside a
\* derived table or a common table expression.
Numeric == {<<Item(Function("sum", <<Col("a")>>), "x")>>, <<Item(Function("avg", <<Col("id")>>), "x")>>,
            <<Item(Binary("Divide", Col("id"), Lit(2)), "x")>>,
            <<Item(Binary("Divide", Function("sum", <<Col("id")>>), CountStar), "x")>>,
            <<Item(Binary("Add", Function("max", <<Col("id")>>), Lit(1)), "x")>>}
Sums == LET over(items) == Simple(items, <<Tab("t")>>, <<>>) IN
        {over(items) : items \in Numeric}
        \cup {Simple(Star, <<From(Derived(over(items), "d"), <<>>)>>, <<>>) : items \in Numeric}
        \cup {[Simple(Items(<<Binary("Add", Col("x"), Lit(1))>>), <<Tab("c")>>, <<>>) EXCEPT
                  !.ctes = <<Cte("c", <<>>, over(items))>>] : items \in Numeric}

\* State columns in every place the rewrite looks at, and in a filter and a
\* window.
StateColumns == {Col("total"), Col("spread"), Col("peak")}
StateUses(c) ==
    LET total == Items(<<Binary("Add", c, Lit(1))>>)
        body == Select(total, <<Tab("mv")>>, <<Binary("Gt", Col("day"), Lit(0))>>)
        calls == {"sum_merge", "stddevpop_merge", "max"}
    IN {Query(body), Query(UnionAll(body, body)),
        Query([body EXCEPT !.having = <<Binary("Gt", c, Lit(0))>>]),
        Simple(Items(<<Col("x")>>), <<From(Derived(Simple(<<Item(c, "x")>>, <<Tab("mv")>>, <<>>), "d"), <<>>)>>, <<>>),
        [Simple(Items(<<Col("x")>>), <<Tab("c")>>, <<>>) EXCEPT
            !.ctes = <<Cte("c", <<>>, Simple(<<Item(c, "x")>>, <<Tab("mv")>>, <<>>))>>],
        Ids(Subquery("InSubquery", <<Col("id")>>, Simple(Items(<<c>>), <<From(Table("mv", "v"), <<>>)>>, <<>>))),
        Simple(Items(<<c>>), <<From(Table("t", None),
                 <<Join("Left", NestedJoin(From(Table("mv", None), <<>>), "mv"), <<>>)>>)>>, <<>>)}
       \cup {Simple(Items(<<[Function(f, <<c>>) EXCEPT !.filter = <<Col("day")>>]>>), <<Tab("mv")>>, <<>>) : f \in calls}
       \cup {Simple(Items(<<Function(f, <<c>>)>>), <<Tab("mv")>>, <<>>) : f \in calls}
States == UNION {StateUses(c) : c \in StateColumns}

Others == {Request(q, <<>>, backend) :
             q \in Unions \cup Ctes \cup Tails \cup Odd \cup Sums \cup States \cup
                   {Grouped(<<>>), Grouped(<<Binary("Gt", CountStar, Lit(0))>>), UuidGroups},
             backend \in Both}

\* Parameters: in lists, in limits, out of order, without a type, with values
\* of the wrong type or none.
Values == {IntV(1), Null, BoolV(TRUE), ListV(<<IntV(1), IntV(0)>>)}
Supplies == {<<>>} \cup {(<<0, 1>> :> v) : v \in Values}
            \cup {(<<0, 1>> :> IntV(1)) @@ (<<0, 2>> :> v) @@ (<<1, 1>> :> IntV(0)) : v \in Values}
Parametric ==
    {Ids(Binary("Eq", Col("a"), P(1))), Ids(Apply("InList", "", <<Col("a"), P(1)>>)),
     Ids(Apply("InList", "NOT", <<Col("a"), P(1), P(2)>>)), Ids(IsNull(P(1))), Ids(P(1)),
     Ids(And(Binary("Eq", Col("a"), Named(1)), Binary("Gt", Col("id"), P(2)))),
     Ids(Binary("Eq", Col("a"), Parameter(AnyPosition))),
     Ids(Apply("Between", "", <<Col("a"), P(2), P(1)>>)),
     [Ids(Binary("Eq", Col("a"), P(2))) EXCEPT !.limit = <<P(1)>>]}
\* A condition with a parameter in every place an expression may stand.
Places(c) ==
    {Simple(Items(<<Col("id"), Case(<<>>, <<When(c, Lit(1))>>, <<Lit(0)>>)>>), <<Tab("t")>>, <<>>),
     Simple(Items(<<[CountStar EXCEPT !.filter = <<c>>]>>), <<Tab("t")>>, <<>>),
     Simple(Items(<<[Function("rank", <<>>) EXCEPT !.over = <<Window(<<c>>, <<OrderBy(c, TRUE)>>)>>]>>),
            <<Tab("t")>>, <<>>),
     Query([Select(Items(<<c, CountStar>>), <<Tab("t")>>, <<>>) EXCEPT !.group_by = <<c>>, !.having = <<c>>]),
     Simple(Items(<<Column("t", "id")>>),
            <<From(Table("t", None), <<Join("Left", Table("s", None), <<c>>)>>)>>, <<>>),
     Simple(Items(<<Col("id")>>), <<From(Derived(Ids(c), "d"), <<>>)>>, <<>>),
     [Simple(Items(<<Col("id")>>), <<Tab("c")>>, <<>>) EXCEPT !.ctes = <<Cte("c", <<>>, Ids(c))>>],
     Query(UnionAll(Ids(Col("ok")).body, Ids(c).body)),
     Ids(Subquery("Exists", <<>>, Ids(c))), [Ids(Col("ok")) EXCEPT !.offset = <<P(1)>>],
     [Ids(Col("ok")) EXCEPT !.order_by = <<OrderBy(Binary("Eq", Col("id"), P(2)), TRUE)>>]}
Placed == {Request(q, (<<0, 1>> :> IntV(1)) @@ (<<0, 2>> :> IntV(2)), backend) :
             q \in Places(Binary("Eq", Col("a"), P(2))), backend \in Both}
WithValues == {Request(q, v, backend) : q \in Parametric, v \in Supplies, backend \in Both}

\* Small budgets for a deep condition in every place, and texts of the other
\* dialect.
LeftJoin == CHOOSE j \in Joins : j.joins[1].kind = "Left"
Sized(c) ==
    LET in(from) == Simple(Items(<<Col("id")>>), <<from>>, <<>>)
        joined == Simple(Items(<<Column("t", "id")>>),
                         <<From(Table("t", None), <<Join("Inner", Table("s", None), <<c>>)>>)>>, <<>>)
        named(q) == [in(Tab("c")) EXCEPT !.ctes = <<Cte("c", <<>>, q)>>]
    IN {Ids(c), joined, named(Ids(c)), named(named(joined)), Query(UnionAll(Ids(c).body, joined.body)),
        in(From(Derived(Ids(c), "d"), <<>>)), in(From(Derived(named(joined), "d"), <<>>)),
        in(From(NestedJoin(From(Derived(joined, "d"), <<>>), "n"), <<>>)),
        Ids(Subquery("Exists", <<>>, joined)), Ids(Subquery("InSubquery", <<Col("id")>>, Ids(c))),
        Simple(Items(<<[CountStar EXCEPT !.filter = <<c>>]>>), <<Tab("t")>>, <<>>),
        Simple(Items(<<[Function("rank", <<>>) EXCEPT !.over = <<Window(<<c>>, <<OrderBy(c, TRUE)>>)>>]>>),
               <<Tab("t")>>, <<>>)}
Budgets == {[Large EXCEPT ![d] = n] : d \in Range(Dimensions), n \in 0..7}
Budgeted == {[Request(q, <<0, 1>> :> IntV(1), "postgres") EXCEPT !.budget = b] : b \in Budgets,
               q \in {Ids(Binary("Eq", Col("a"), P(1))), WithCte(Simple(Star, <<LeftJoin>>, <<>>))}
                     \cup Sized(Not(And(Col("ok"), Not(Col("ok")))))}
Syql == {[Request(As, <<>>, "postgres") EXCEPT
            !.source.from_first = first, !.source.lines = lines, !.source.trailing = trailing] :
            first \in BOOLEAN, lines \in {<<>>, << <<"scope", "global">> >>},
            trailing \in {<<>>, << <<"scope", "node">>, <<"download", "csv">>, <<"scope", "local">> >>}}

\* Conditions that a host puts in place of others: in the query itself, in
\* both sides of a union, in a derived table, in a common table expression
\* and in a subquery of the projection; and conjunctions taken apart and
\* rebuilt.
Ided(id, where) == [Select(Items(<<Col("id")>>), <<Tab("t")>>, where) EXCEPT !.id = id]
Shaped(w1, w2) ==
    <<Query(Ided("s1", w1)),
      Query(UnionAll(Ided("s1", w1), Ided("s2", w2))),
      Simple(Star, <<From(Derived(Query(Ided("s2", w2)), "d"), <<>>)>>, <<>>),
      [Query([Ided("s1", w1) EXCEPT !.from = <<Tab("c")>>]) EXCEPT
         !.ctes = <<Cte("c", <<>>, [Query([Ided("s2", w2) EXCEPT !.projection = Star])
                                         EXCEPT !.limit = <<Lit(2)>>])>>],
      Query([Ided("s1", w1) EXCEPT !.projection =
         Items(<<Col("id"), Subquery("InSubquery", <<Col("id")>>, Query(Ided("s2", w2)))>>)])>>
Replacements == {<<>>, <<IsNull(Col("a"))>>, <<Not(Col("ok"))>>}
Replaced ==
    {[Request(Shaped(<<Col("ok")>>, <<>>)[i], <<>>, "postgres") EXCEPT
        !.overrides = ("s1" :> w1) @@ ("s2" :> w2), !.intended = Shaped(w1, w2)[i]] :
        i \in 1..5, w1, w2 \in Replacements}
Parts == {Col("ok"), Not(Col("ok")), IsNull(Col("a")), Nested(Binary("Or", Col("ok"), Not(Col("ok"))))}
Conjunctions == {And(And(p, q), Nested(And(Not(p), r))) : p, q, r \in Parts}
                \cup {And(p, Nested(And(q, r))) : p, q, r \in Parts}
Rebuilt ==
    {[Request(Query(Ided("s1", <<c>>)), <<>>, "postgres") EXCEPT
        !.overrides = "s1" :> RebuildBooleanAnd(FlattenBooleanAnd(LowerExpr(c)))] : c \in Conjunctions}

MCRequests == ByCondition \cup ByShape \cup Others \cup WithValues \cup Placed \cup Budgeted \cup Syql
              \cup Replaced \cup Rebuilt
MCOrdered == {Request(Ordered, <<>>, backend) : backend \in Both}
=============================================================================
