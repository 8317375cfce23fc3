------------------------------ MODULE Formulas ------------------------------
(***************************************************************************)
(* The formulas of a page (core/expressions/, services/formula_service.py) *)
(* and their two backends.  A formula is never stored: the Python          *)
(* evaluator computes it for a row that is shown, and the SQL compiler     *)
(* turns the same tree into a column expression for filters, sorts and     *)
(* totals.                                                                 *)
(*                                                                         *)
(* A parsed expression is a record: its op and, under args, its operands   *)
(* in the order of the source.  Numbers have as many digits as are kept:   *)
(* the product of two is rounded to a unit.  A quotient is rounded by each *)
(* backend to its own last digit, Python's Decimal to 28 of them and       *)
(* NUMERIC to about 16, so that the two are not equal.  Chains of more     *)
(* than one comparison are left out.                                       *)
(***************************************************************************)
EXTENDS Values, Sequences, FiniteSetsExt, SequencesExt, Relation

CONSTANTS
    Error,    \* FormulaEvaluationError
    SqlDigit, \* units in the last digit of a quotient of PostgreSQL
    Today,    \* the day it is in the time zone of the company
    MaxDepth  \* the nesting from which an expression is refused

Const(n) == [op |-> "const", value |-> n * One]
Column(k) == [op |-> "column", key |-> k]
Node(op, args) == [op |-> op, args |-> args]

-----------------------------------------------------------------------------
(* The parser: the operators of the grammar and the arity of its functions. *)
Arithmetic == {"add", "sub", "mul", "div"}
Comparisons == {"eq", "neq", "lt", "lte", "gt", "gte"}
Connectives == {"and", "or"}
Variadic == {"sum", "min", "max", "coalesce"}

FunctionArity(op, n) ==
    CASE op \in Variadic -> n >= 1
      [] op = "abs" -> n = 1
      [] op = "round" -> n \in 1 .. 2
      [] op = "safe_div" -> n \in 2 .. 3
      [] op = "days_between" -> n = 2
      [] op = "today" -> n = 0

Arity(op, n) ==
    CASE op \in Arithmetic \union Comparisons -> n = 2
      [] op \in Connectives -> n >= 2
      [] op \in {"neg", "not"} -> n = 1
      [] op = "if" -> n = 3
      [] OTHER -> FunctionArity(op, n)

Leaf(e) == e.op \in {"const", "column"}

RECURSIVE Depth(_)
Depth(e) ==
    IF Leaf(e) THEN 0
    ELSE 1 + Max({Depth(e.args[i]) : i \in DOMAIN e.args} \union {0})

RECURSIVE Dependencies(_)
Dependencies(e) ==
    CASE e.op = "const" -> {}
      [] e.op = "column" -> {e.key}
      [] OTHER -> UNION {Dependencies(e.args[i]) : i \in DOMAIN e.args}

RECURSIVE WellFormed(_)
WellFormed(e) ==
    Leaf(e) \/ ( /\ Arity(e.op, Len(e.args))
                 /\ \A i \in DOMAIN e.args : WellFormed(e.args[i]) )

\* available: every other key of the page, formulas included.
Parses(e, available) ==
    /\ Depth(e) <= MaxDepth
    /\ WellFormed(e)
    /\ Dependencies(e) \subseteq available

-----------------------------------------------------------------------------
(* Formulas of formulas.  formulas: the key of each FORMULA column -> its   *)
(* expression.  The graph has the formulas as nodes; other columns are     *)
(* leaves of no interest.                                                  *)
DependencyGraph(formulas) ==
    [k \in DOMAIN formulas |-> Dependencies(formulas[k]) \intersect DOMAIN formulas]

RECURSIVE Visit(_, _, _)
Visit(graph, node, found) ==
    LET Neighbour(n, f) ==
            IF f.cycle \/ f.colour[n] = "black" THEN f
            ELSE IF f.colour[n] = "grey" THEN [f EXCEPT !.cycle = TRUE]
            ELSE Visit(graph, n, f)
        after == FoldSet(Neighbour, [found EXCEPT !.colour[node] = "grey"], graph[node])
    IN  [after EXCEPT !.colour[node] = "black", !.order = Append(@, node)]

Searched(graph) ==
    LET Start(n, f) == IF f.cycle \/ f.colour[n] # "white" THEN f ELSE Visit(graph, n, f)
    IN  FoldSet(Start, [colour |-> [n \in DOMAIN graph |-> "white"],
                        cycle |-> FALSE, order |-> <<>>], DOMAIN graph)

CheckForCycles(graph) == ~Searched(graph).cycle
TopologicalOrder(graph) == Searched(graph).order

\* What a save of FORMULA columns accepts.
ValidFormulas(formulas, plain) ==
    /\ \A k \in DOMAIN formulas :
           Parses(formulas[k], (plain \union DOMAIN formulas) \ {k})
    /\ CheckForCycles(DependencyGraph(formulas))

\* What the search stands for: no formula depends on itself, and the order
\* has every formula once, after those it reads.
SearchIsCorrect(graph) ==
    LET reads == TransitiveClosure([x, y \in DOMAIN graph |-> y \in graph[x]], DOMAIN graph)
        order == TopologicalOrder(graph)
    IN  /\ CheckForCycles(graph) <=> \A n \in DOMAIN graph : ~reads[n, n]
        /\ CheckForCycles(graph) =>
             /\ ToSet(order) = DOMAIN graph /\ IsInjective(order)
             /\ \A i, j \in DOMAIN order : order[j] \in graph[order[i]] => j < i

-----------------------------------------------------------------------------
(* What both backends compute of operands that have values.                *)
Calculate(op, x, y) ==
    CASE op = "add" -> x + y
      [] op = "sub" -> x - y
      [] op = "mul" -> Nearest(x * y, One)

Negate(op, x) == IF op = "neg" THEN -x ELSE ~x

\* x / y, of which the last digit that is kept stands for so many units.
Quotient(digit, x, y) ==
    digit * (IF y < 0 THEN Nearest(-x * One, -y * digit) ELSE Nearest(x * One, y * digit))

Total(args) == FoldLeft(LAMBDA x, y : x + y, 0, args)
FirstValue(args) ==
    LET known == SelectSeq(args, LAMBDA x : x # Null)
    IN  IF known = <<>> THEN Null ELSE Head(known)
DaysBetween(start, end) == DayOf(end) - DayOf(start)
\* Digits is a literal of the formula.
Rounded(args) == RoundTo(One \div 10 ^ (IF Len(args) = 1 THEN 0 ELSE args[2] \div One), args[1])

Function(op, args) ==
    CASE op = "sum" -> Total(args)
      [] op = "min" -> Min(ToSet(args))
      [] op = "max" -> Max(ToSet(args))
      [] op = "abs" -> IF args[1] < 0 THEN -args[1] ELSE args[1]
      [] op = "round" -> Rounded(args)
      [] op = "days_between" -> DaysBetween(args[1], args[2])
      [] op = "today" -> Today

-----------------------------------------------------------------------------
(* The evaluator.  It evaluates every operand before it applies the op,    *)
(* save the two branches of if, and a missing operand makes the result     *)
(* missing, save for coalesce, if, and, or.  Its last digit is the unit.   *)
Truthy(x) == x # Null /\ x

Connect(op, args) ==
    IF op = "and" THEN FoldLeft(LAMBDA x, y : IF Truthy(x) THEN y ELSE x, TRUE, args)
                  ELSE FoldLeft(LAMBDA x, y : IF Truthy(x) THEN x ELSE y, FALSE, args)

EvalBinop(op, x, y) ==
    CASE Null \in {x, y} -> Null
      [] op = "div" -> IF y = 0 THEN Error ELSE Quotient(1, x, y)
      [] OTHER -> Calculate(op, x, y)

EvalUnary(op, x) == IF x = Null THEN Null ELSE Negate(op, x)

EvalCompare(op, x, y) == IF Null \in {x, y} THEN Null ELSE Compare(op, x, y)

SafeDiv(args) ==
    IF args[2] # 0 THEN Quotient(1, args[1], args[2])
    ELSE IF Len(args) = 3 THEN args[3] ELSE 0

EvalCall(op, args) ==
    CASE op = "coalesce" -> FirstValue(args)
      [] Contains(args, Null) -> Null
      [] op = "safe_div" -> SafeDiv(args)
      [] OTHER -> Function(op, args)

Apply(op, args) ==
    CASE Contains(args, Error) -> Error
      [] op \in Connectives -> Connect(op, args)
      [] op \in Arithmetic -> EvalBinop(op, args[1], args[2])
      [] op \in {"neg", "not"} -> EvalUnary(op, args[1])
      [] op \in Comparisons -> EvalCompare(op, args[1], args[2])
      [] OTHER -> EvalCall(op, args)

RECURSIVE Evaluate(_, _)
Evaluate(e, operands) ==
    CASE e.op = "const" -> e.value
      [] e.op = "column" -> IF e.key \in DOMAIN operands THEN operands[e.key] ELSE Error
      [] e.op = "if" ->
             LET test == Evaluate(e.args[1], operands)
             IN  IF test = Error THEN Error
                 ELSE Evaluate(e.args[IF Truthy(test) THEN 2 ELSE 3], operands)
      [] OTHER -> Apply(e.op, [i \in DOMAIN e.args |-> Evaluate(e.args[i], operands)])

\* Built once for a page: its formulas in an order in which each follows
\* those it reads.
Prepare(formulas) ==
    [by_key |-> formulas, order |-> TopologicalOrder(DependencyGraph(formulas))]

\* The cells of a row that is shown: a formula that fails is blank, and the
\* formulas that read it see a blank.
ApplyPrepared(plan, cells) ==
    LET Compute(operands, k) ==
            LET v == Evaluate(plan.by_key[k], operands)
            IN  (k :> IF v = Error THEN Null ELSE v) @@ operands
    IN  FoldLeft(Compute, cells, plan.order)

-----------------------------------------------------------------------------
(* The compiler: what PostgreSQL computes of the compiled expression.  NULL *)
(* is absorbing, except that a false AND and a true OR are decided, CASE   *)
(* takes a condition that is not true for false, and COALESCE skips NULLs. *)
CompiledConnective(op, args) ==
    LET decides == (op = "or")
        known == SelectSeq(args, LAMBDA x : x # Null)
    IN  CASE Contains(known, decides) -> decides
          [] known # args -> Null
          [] OTHER -> ~decides

CompiledBinop(op, x, y) ==
    CASE Null \in {x, y} \/ (op = "div" /\ y = 0) -> Null
      [] op = "div" -> Quotient(SqlDigit, x, y)
      [] OTHER -> Calculate(op, x, y)

CompiledCompare(op, x, y) == IF Null \in {x, y} THEN Null ELSE Compare(op, x, y)

CompiledSafeDiv(args) ==
    CASE args[2] # Null /\ args[2] = 0 -> IF Len(args) = 3 THEN args[3] ELSE 0
      [] Null \in {args[1], args[2]} -> Null
      [] OTHER -> Quotient(SqlDigit, args[1], args[2])

\* LEAST and GREATEST skip NULLs, and are guarded.
CompiledExtreme(op, args) ==
    IF Contains(args, Null) THEN Null ELSE Function(op, args)

CompiledCall(op, args) ==
    CASE op = "coalesce" -> FirstValue(args)
      [] op = "safe_div" -> CompiledSafeDiv(args)
      [] op \in {"min", "max"} -> CompiledExtreme(op, args)
      [] Contains(args, Null) -> Null
      [] OTHER -> Function(op, args)

Compiled(op, args) ==
    CASE op \in Connectives -> CompiledConnective(op, args)
      [] op = "if" -> IF args[1] # Null /\ args[1] THEN args[2] ELSE args[3]
      [] op \in Arithmetic -> CompiledBinop(op, args[1], args[2])
      [] op \in {"neg", "not"} -> EvalUnary(op, args[1])
      [] op \in Comparisons -> CompiledCompare(op, args[1], args[2])
      [] OTHER -> CompiledCall(op, args)

\* resolve_column inlines a formula into the formulas that read it.
RECURSIVE Compile(_, _, _)
Compile(e, formulas, cells) ==
    CASE e.op = "const" -> e.value
      [] e.op = "column" -> IF e.key \in DOMAIN formulas
                            THEN Compile(formulas[e.key], formulas, cells)
                            ELSE cells[e.key]
      [] OTHER -> Compiled(e.op,
                    [i \in DOMAIN e.args |-> Compile(e.args[i], formulas, cells)])

\* The FORMULA column k of a row.
CompiledFormula(plan, k, cells) == Compile(plan.by_key[k], plan.by_key, cells)

\* What is shown and what the database computes of an expression over the same
\* cells are the same, in steps of this size; a formula that fails is blank.
Agree(e, cells, step) ==
    LET Step(v) == IF v \in {Error, Null} THEN Null ELSE RoundTo(step, v)
    IN  Step(Evaluate(e, cells)) = Step(Compile(e, <<>>, cells))

=============================================================================
