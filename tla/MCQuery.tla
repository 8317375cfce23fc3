------------------------------ MODULE MCQuery ------------------------------
(* Small instances of Query: the records, formulas and requests.           *)
EXTENDS Query, Formulas

\* The slot of amount is the one of a write, unless it is given.
Row(amount, slot, other, at, status) ==
    [cells |-> [k \in Plain |-> CASE k = "amount" -> amount [] k = "other" -> other [] OTHER -> Null],
     slots |-> [k \in Indexed |-> slot],
     at |-> at, status |-> status, deleted |-> FALSE, store |-> NoStore]

\* A row with a moment, one without an amount, one of a time before amount was
\* indexed, one with a number of more than two decimals, and new ones.
SomeRows ==
    {[Row(2 * One, 2 * One, 3 * One, 1, "ACTIVE")
         EXCEPT !.store = "elsewhere", !.cells["due"] = One + One \div 2],
     [Row(Null, Null, One, 2, "ACTIVE") EXCEPT !.cells["note"] = "w"],
     [Row(-One, Null, Null, 1, "REVERSED") EXCEPT !.cells["note"] = "w"],
     Row(One + 4 * (Cent \div 10), One, 0, 1, "ACTIVE")}

SomeNewRows ==
    {Row(Null, Null, One, 2, "ACTIVE"), Row(2 * One, 2 * One, 0, 2, "ACTIVE")}

SomeOptions == "note" :> {"w", "z"}

\* Formulas with blanks, of formulas, with divisions by what may be zero and
\* that do not end, a condition, a difference of days.
a == Column("amount")
b == Column("other")
SomeFormulas ==
    "top" :> Node("max", <<a, b>>)
        @@ "share" :> Node("mul", <<Column("top"), Const(3)>>)
        @@ "margin" :> Node("if", <<Node("and", <<Node("gte", <<a, Const(0)>>),
                                                  Node("not", <<Node("eq", <<b, Const(1)>>)>>)>>),
                                    Node("safe_div", <<a, b>>), Node("sub", <<b, Const(1)>>)>>)
        @@ "late" :> Node("sum", <<Column("margin"),
                        Node("days_between", <<Column("due"), Node("today", <<>>)>>)>>)
        @@ "net" :> Node("div", <<a, b>>)
        @@ "tax" :> Node("coalesce", <<Node("round", <<Column("net"), Const(2)>>),
                                       Node("neg", <<a>>), Const(1)>>)

SomePlans == {Prepare(SomeFormulas)}

ASSUME FormulasAreValid == ValidFormulas(SomeFormulas, Plain)

\* m1 is the manager of no store, x1 an owner of another company.
NoStores == [u \in Managers \union Strangers |-> {}]
SomeGrantLists ==
    {{}, {[user |-> "m1", view |-> TRUE]}, {[user |-> "m1", view |-> FALSE]}}

Ask(reader, sort, filters, search, limit) ==
    [reader |-> reader, sort |-> sort, filters |-> filters, search |-> search, limit |-> limit]
By(k, d) == [column |-> k, direction |-> d]
Where(k, op, v) == [column |-> k, op |-> op, value |-> v]

SomeRequests ==
    {Ask("m1", <<>>, <<Where("status", "eq", "ACTIVE")>>, Null, 2),
     Ask("o1", <<By("net", "desc")>>, <<>>, Null, 1),
     Ask("o1", <<By("share", "asc"), By("other", "asc")>>, <<Where("other", "neq", 0)>>, Null, 2),
     Ask("o1", <<By("amount", "asc")>>, <<Where("net", "is_null", Null)>>, "w", 1),
     Ask("o1", <<By("due", "desc"), By("amount", "asc")>>, <<Where("top", "between", <<0, 3 * One>>)>>, Null, 2),
     Ask("x1", <<>>, <<>>, Null, 1)}

SomeFilters == {<<>>, <<Where("top", "gte", One), Where("other", "in", <<0, One>>)>>}

SomePeriods == {<<Null, Null>>, <<2, Null>>}

\* The search for cycles and the order it yields, over every graph of three
\* formulas (services/formula_service.py, check_for_cycles,
\* topological_order).
ASSUME SearchesAreCorrect == \A g \in [1 .. 3 -> SUBSET (1 .. 3)] : SearchIsCorrect(g)

\* What a formula shows is what the database computes of the same cells, over
\* every small expression: to the last digit without a division, and in cents
\* with one on top, whichever cells are blank; safe_div where none is
\* (core/expressions/evaluator.py and sql_compiler.py,
\* tests/test_formula_backend_parity.py).
Leaves == {a, b, Const(3)}
Operands ==
    Leaves \union {Node(op, <<x, y>>) : op \in {"sub", "max", "coalesce"}, x, y \in Leaves}
           \union {Node(op, <<x>>) : op \in {"neg", "abs"}, x \in Leaves}
OnOperands(ops) == {Node(op, <<x, y>>) : op \in ops, x, y \in Operands}
Conditionals == {Node("if", <<Node("gt", <<x, Const(1)>>), y, a>>) : x, y \in Operands}
SomeCells == [{"amount", "other"} -> {Null, 0, -One, 2 * One}]
ASSUME BackendsAgree ==
    \A c \in SomeCells :
        /\ \A e \in OnOperands({"add", "mul", "min", "sum", "coalesce"}) \union Conditionals : Agree(e, c, 1)
        /\ \A e \in OnOperands({"div"}) : Agree(e, c, Cent)
        /\ Null \notin {c["amount"], c["other"]} =>
              \A e \in OnOperands({"safe_div"}) : Agree(e, c, Cent)

=============================================================================
