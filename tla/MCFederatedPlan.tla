--------------------------- MODULE MCFederatedPlan ---------------------------
(***************************************************************************)
(* Queries over a relation of three rows that lie on two nodes in every    *)
(* way, both backends: each aggregate with and without keys, all of them   *)
(* together, plain queries with conditions, DISTINCT and limits, and what  *)
(* the planner refuses.                                                    *)
(***************************************************************************)
EXTENDS FederatedPlan

MCNodes == {"n1", "n2"}
MCCatalog ==
    [t |-> <<Field("g", Boolean, FALSE), Field("a", Int64, TRUE), Field("k", Uuid, FALSE)>>,
     order |-> <<Field("g", Boolean, FALSE)>>]
MCMergeFn == [x \in {} |-> x]
MCQuoted == {"order"}
Rows3 == << <<BoolV(TRUE), IntV(1), UuidV(7)>>, <<BoolV(TRUE), IntV(2), UuidV(8)>>,
            <<BoolV(FALSE), Null, UuidV(7)>> >>
MCPlacements ==
    {[n \in MCNodes |->
        [t |-> Relation(<<"g", "a", "k">>,
                        FlattenSeq([i \in 1..3 |-> IF at[i] = n THEN <<Rows3[i]>> ELSE <<>>])),
         order |-> Relation(<<"g">>, <<>>)]] : at \in [1..3 -> MCNodes]}

Col(n) == Column(None, n)
Lit(n) == Literal(IntV(n))
Tab(n) == <<From(Table(n, None), <<>>)>>
Plain(es) == [i \in DOMAIN es |-> Item(es[i], None)]
Q(items, where, keys) ==
    Query([Select(items, Tab("t"), where) EXCEPT !.group_by = keys])
Agg(f) == Function(f, <<Col("a")>>)
CountStar == Function("count", << [kind |-> "Star"] >>)

Calls == {Agg(f) : f \in Aggregates} \cup {CountStar}
Wheres == {<<>>, <<Binary("Gt", Col("a"), Lit(1))>>, <<IsNull(Col("a"))>>}
Grouped ==
    {Q(<<Item(c, "x")>>, w, <<>>) : c \in Calls, w \in Wheres}
    \cup {Q(<<Item(Col("g"), None), Item(c, None)>>, w, <<Col("g")>>) : c \in Calls, w \in Wheres}
    \cup {Q(<<Item(c, "x"), Item(Col("k"), "id"), Item(Agg("avg"), None)>>, <<>>, <<Col("k")>>) : c \in Calls}
    \cup {Q(<<Item(IsNull(Col("a")), "unknown"), Item(CountStar, None)>>, <<>>, <<IsNull(Col("a"))>>),
          [Q(<<Item(Col("g"), None), Item(CountStar, None)>>, <<>>, <<Col("g")>>) EXCEPT !.limit = <<Lit(1)>>],
          Q(<<Item(Lit(1), None), Item(CountStar, None)>>, <<>>, <<>>),
          Q(<<Item(Col("g"), None), Item(Col("g"), None), Item(CountStar, None)>>, <<>>, <<Col("g")>>),
          Q(<<Item(Agg("sum"), "x")>>, <<>>, <<Col("g")>>)}
Passed ==
    {Q(<<Wildcard(None)>>, w, <<>>) : w \in Wheres}
    \cup {Q(Plain(<<Col("a"), Col("k")>>), w, <<>>) : w \in Wheres}
    \cup {[Q(Plain(<<Col("g")>>), <<>>, <<>>) EXCEPT !.body.distinct = TRUE],
          Q(Plain(<<Col("g")>>), <<>>, <<Col("g")>>),
          [Q(Plain(<<Col("g")>>), <<>>, <<>>) EXCEPT !.limit = <<Lit(2)>>, !.offset = <<Lit(1)>>],
          [Q(Plain(<<Col("a")>>), <<Binary("Gt", Col("a"), Parameter(<<0, 1>>))>>, <<>>)
              EXCEPT !.limit = <<Lit(1)>>],
          [Q(Plain(<<Col("a")>>), <<>>, <<>>) EXCEPT !.order_by = <<OrderBy(Col("a"), TRUE)>>],
          [Q(<<Wildcard(None)>>, <<>>, <<>>) EXCEPT !.body.from = <<From(Table("t", "u"), <<>>)>>],
          Q(<<Item(Binary("Add", Col("a"), Lit(1)), "a")>>, <<>>, <<>>),
          Q(Plain(<<Col("g")>>), <<Binary("Gt", Col("a"), Lit(1))>>, <<>>)}
Refusals ==
    {[Q(<<Item(Agg("sum"), "x")>>, <<>>, <<>>) EXCEPT !.body.distinct = TRUE],
     [Q(<<Item(Agg("sum"), "x")>>, <<>>, <<>>) EXCEPT !.offset = <<Lit(1)>>],
     [Q(<<Item(Agg("sum"), "x")>>, <<>>, <<Col("g")>>) EXCEPT !.body.having = <<Col("g")>>],
     Q(<<Item(Binary("Add", Agg("sum"), Lit(1)), "x")>>, <<>>, <<>>),
     Q(<<Item(Function("quantile", <<Col("a")>>), "x")>>, <<>>, <<>>),
     Q(<<Item([Agg("count") EXCEPT !.distinct = TRUE], "x")>>, <<>>, <<>>),
     Q(<<Item(Function("coalesce", <<Col("a"), Lit(0)>>), "c"), Item(CountStar, "x")>>, <<>>, <<Col("a")>>),
     Q(<<Wildcard(None)>>, <<Subquery("Exists", <<>>, Q(<<Wildcard(None)>>, <<>>, <<>>))>>, <<>>),
     Query(UnionAll(Q(<<Wildcard(None)>>, <<>>, <<>>).body, Q(<<Wildcard(None)>>, <<>>, <<>>).body)),
     [Q(<<Wildcard(None)>>, <<>>, <<>>) EXCEPT
        !.body.from = <<From(Table("t", None), <<Join("Cross", Table("order", None), <<>>)>>)>>],
     [Q(<<Wildcard(None)>>, <<>>, <<>>) EXCEPT !.body.from = Tab("t") \o Tab("order")],
     [Q(<<Wildcard(None)>>, <<>>, <<>>) EXCEPT !.body.from = Tab("order")],
     [Q(<<Item(CountStar, "x")>>, <<>>, <<>>) EXCEPT !.body.from = <<From(Table("t", "order"), <<>>)>>]}

Asked(q, backend) == [query |-> q, supplied |-> <<0, 1>> :> IntV(1), backend |-> backend]
MCRequests == {Asked(q, backend) : q \in Grouped \cup Passed \cup Refusals, backend \in Both}
=============================================================================
