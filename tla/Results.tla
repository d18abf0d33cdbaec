------------------------------- MODULE Results -------------------------------
(***************************************************************************)
(* The shape of a Rust Result in this project's operators, early returns in *)
(* their order, and exact fractions for the code's finite f64 arithmetic.   *)
(***************************************************************************)
EXTENDS Integers, Sequences, SequencesExt

Done(value) == [ok |-> TRUE, value |-> value]
Fail(error) == [ok |-> FALSE, error |-> error]

\* The ? operator: continue with the value, or return the error.
Then(result, F(_)) == IF result.ok THEN F(result.value) ELSE result

\* The first error whose condition holds: the early returns of a validator in order.
FirstError(checks) ==
  LET failing == SelectSeq(checks, LAMBDA c : c[1])
  IN IF failing = <<>> THEN "Ok" ELSE failing[1][2]

\* A check that has the error of another validator, if that has one.
Failing(error) == <<error # "Ok", error>>

\* The value, unless one of the checks fails.
Checked(checks, value) ==
  IF FirstError(checks) = "Ok" THEN Done(value) ELSE Fail(FirstError(checks))

HasDuplicates(s) == \E i, j \in DOMAIN s : i < j /\ s[i] = s[j]

-----------------------------------------------------------------------------
(* Fractions <<n, d>> in lowest terms with d > 0, so that = is equality.       *)

gcd[a \in Nat, b \in Nat] == IF b = 0 THEN a ELSE gcd[b, a % b]

Abs(n) == IF n < 0 THEN -n ELSE n

Frac(n, d) ==
  LET g == gcd[Abs(n), Abs(d)]
  IN IF d < 0 THEN <<(-n) \div g, (-d) \div g>> ELSE <<n \div g, d \div g>>

Whole(n) == <<n, 1>>
\* Cross factors are cancelled before multiplying, which keeps intermediate products small.
FAdd(x, y) == LET g == gcd[x[2], y[2]]
              IN Frac(x[1] * (y[2] \div g) + y[1] * (x[2] \div g), x[2] * (y[2] \div g))
FSub(x, y) == FAdd(x, <<-y[1], y[2]>>)
FMul(x, y) == LET a == Frac(x[1], y[2])  b == Frac(y[1], x[2])
              IN <<a[1] * b[1], a[2] * b[2]>>
FDiv(x, y) == FMul(x, Frac(y[2], y[1]))
FLess(x, y) == FSub(x, y)[1] < 0
FMax(x, y) == IF FLess(x, y) THEN y ELSE x
FSum(s) == FoldLeft(FAdd, Whole(0), s)
FSquare(x) == FMul(x, x)
FPositive(x) == x[1] > 0

Mean(s) == FDiv(FSum(s), Whole(Len(s)))

\* Sum over the indices of s of F of the centred element.
Centred(s) == [i \in DOMAIN s |-> FSub(s[i], Mean(s))]
Dot(s, t) == FSum([i \in DOMAIN s |-> FMul(s[i], t[i])])
=============================================================================
