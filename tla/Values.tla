------------------------------- MODULE Values -------------------------------
(***************************************************************************)
(* The values of cells, their comparison and their precision, as formulas, *)
(* filters, sorts and slots use them (core/expressions/evaluator.py,       *)
(* services/query_service.py, models/record.py).                           *)
(*                                                                         *)
(* A number is a whole number of units, One of which make 1.  A moment is  *)
(* counted in the same units, of a day.                                    *)
(***************************************************************************)
EXTENDS Integers

CONSTANTS
    Null,  \* None, NULL: no value
    One,   \* units in 1, or in a day
    Cent   \* units in the last digit of NUMERIC(14, 2)

Compare(op, x, y) ==
    CASE op = "eq" -> x = y
      [] op = "neq" -> x # y
      [] op = "lt" -> x < y
      [] op = "lte" -> x <= y
      [] op = "gt" -> x > y
      [] op = "gte" -> x >= y

\* n / d to the nearest whole number, a half away from zero: ROUND_HALF_UP,
\* and round() of PostgreSQL.  d > 0.
Nearest(n, d) ==
    LET magnitude == IF n < 0 THEN -n ELSE n
        whole == magnitude \div d + IF 2 * (magnitude % d) >= d THEN 1 ELSE 0
    IN  IF n < 0 THEN -whole ELSE whole

RoundTo(step, x) == step * Nearest(x, step)

\* The day of a moment.
DayOf(x) == One * (x \div One)

=============================================================================
