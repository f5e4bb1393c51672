-------------------------------- MODULE Money --------------------------------
(***************************************************************************)
(* The numbers of the request schemas (backend/app/schemas.py,              *)
(* finite_decimal) and of the import (_decimal): Decimal(str(value)),       *)
(* rounded to the column's scale by Decimal.quantize, half to even.         *)
(* An amount that was sent is a number of thousandths.                      *)
(***************************************************************************)
EXTENDS Integers

\* Wrong on purpose: half up.
RoundedHalfUp(n, unit) == (2 * n + unit) \div (2 * unit)

\* n thousandths in units of so many thousandths: the nearest multiple, a tie to the even one.
Rounded(n, unit) ==
    LET down == n \div unit
        rest == 2 * (n % unit)
    IN  IF rest > unit \/ (rest = unit /\ down % 2 = 1) THEN down + 1 ELSE down

\* What rounding has to be: no other multiple is nearer, and of two the even one is taken.
Distance(a, b) == IF a > b THEN a - b ELSE b - a
IsRounded(m, n, unit) ==
    /\ 2 * Distance(m * unit, n) <= unit
    /\ 2 * Distance(m * unit, n) = unit => m % 2 = 0

Cents(n) == Rounded(n, 10)

\* validate_rating: bounds are looked at after the first rounding, to hundredths; the second
\* rounds to tenths.
RatingAllowed(n) == Cents(n) \in 0 .. 500
Tenths(n) == Rounded(Cents(n), 10)
=============================================================================
