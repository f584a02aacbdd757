------------------------------ MODULE Numeric -------------------------------
(***************************************************************************)
(* Number schemas and the regular expressions of their texts               *)
(* (parser/src/json/numeric.rs, and the number part of json/compiler.rs).  *)
(* A regular expression stands for the set of its texts of at most MaxText *)
(* symbols.  The code writes numbers in base 10; here the base is a        *)
(* parameter, so that ranges with digits to carry stay short.  A number is *)
(* an integer count of units of Base^-Frac.  Where the code computes with  *)
(* f64 values, not only compares or prints them, every result is rounded.  *)
(***************************************************************************)
EXTENDS Params, Integers, Sequences, SequencesExt

CONSTANTS
  Base,     \* 10 in the code: its digits "0".."9" are 0 .. Base - 1
  Frac,     \* bound: digits after the point of a bound given in a schema
  MaxText,  \* bound: symbols of a text
  MaxInt,   \* i64::MAX
  Mantissa, \* 53: the binary digits of an f64
  Word      \* 2^32: Decimal holds u32 values

ASSUME NumericAssumption ==
  Base \in Nat \ {0, 1} /\ Frac \in Nat /\ MaxText \in Nat /\ {MaxInt, Mantissa, Word} \subseteq Nat

Unit == Base ^ Frac
Digit == 0 .. Base - 1
Minus == -1
Point == -2
Exp == -3  \* "e" or "E"
Plus == -4

(* Texts and languages.  Failed is the error a range function returns.      *)
Failed == {<<-5>>}
Concatenated(U, V) ==
  IF Failed \in {U, V} THEN Failed
  ELSE UNION {{u \o v : v \in {w \in V : Len(u) + Len(w) <= MaxText}} : u \in U}
mk_or(parts) == IF Failed \in parts THEN Failed ELSE UNION parts
Class(lo, hi) == {<<d>> : d \in lo .. hi}
Then(d, L) == Concatenated({<<d>>}, L)
Optional(L) == mk_or({{<<>>}, L})
Digits == UNION {[1 .. n -> Digit] : n \in 0 .. MaxText}  \* [0-9]*
Some == Digits \ {<<>>}                                   \* [0-9]+
Negative(L) == Then(Minus, L)
Whole == Optional({<<Minus>>})
NoLeadingZero == {<<0>>} \cup Concatenated(Class(1, Base - 1), Digits)

(* An f64 is num / den, den a power of two.  The result of an operation is  *)
(* the value nearest to n / d with Mantissa binary digits, the even one of  *)
(* two.  (No value of the model is too small, or large, to have so many.)   *)
f64(n) == [num |-> n, den |-> 1]
Rounded(n, d) ==
  LET digits == {0} \cup {k \in 0 .. 2 * Mantissa :
                   (IF n < 0 THEN -n ELSE n) <= (d * 2 ^ Mantissa - 1) \div 2 ^ k}
      den == 2 ^ (CHOOSE k \in digits : \A j \in digits : j <= k)
      below == (n * den) \div d
      rest == (n * den) % d
      up == 2 * rest > d \/ (2 * rest = d /\ below % 2 = 1)
  IN  IF n = 0 THEN f64(0) ELSE [num |-> IF up THEN below + 1 ELSE below, den |-> den]
MultipliedBy(x, y) == Rounded(x.num * y.num, x.den * y.den)
DividedBy(x, y) == Rounded(x.num * y.den, x.den * y.num)  \* y > 0
PlusTimes(x, y, k) ==
  LET den == IF x.den >= y.den THEN x.den ELSE y.den
  IN  Rounded(x.num * (den \div x.den) + k * y.num * (den \div y.den), den)
floor(x) == f64(x.num \div x.den)
ceil(x) == f64(-((-x.num) \div x.den))
LessThan(x, y) == x.num * y.den < y.num * x.den
EqualTo(x, y) == x.num * y.den = y.num * x.den

(* Decimals of multipleOf: coef * Base^-exp in lowest form, in 32 bits.     *)
RECURSIVE Decimal(_, _), WithoutPoint(_, _), gcd(_, _), DigitsOf(_), trim_end(_)
Decimal(coef, exp) ==
  IF coef = 0 THEN [coef |-> 0, exp |-> 0]
  ELSE IF exp > 0 /\ coef % Base = 0 THEN Decimal(coef \div Base, exp - 1)
  ELSE [coef |-> coef, exp |-> exp]
(* A value is multiplied by the base until nothing is after its point,      *)
(* which rounding may put off until it has too many digits: None.           *)
WithoutPoint(x, exp) ==
  IF x.num % x.den = 0 THEN [coef |-> x.num \div x.den, exp |-> exp]
  ELSE WithoutPoint(MultipliedBy(x, f64(Base)), exp + 1)
try_from(x) ==
  LET d == WithoutPoint(Rounded(x, Unit), 0)
  IN  IF d.coef < Word THEN Decimal(d.coef, d.exp) ELSE None
gcd(a, b) == IF b = 0 THEN a ELSE gcd(b, a % b)
Larger(a, b) == IF a >= b THEN a ELSE b
lcm(d1, d2) ==
  IF 0 \in {d1.coef, d2.coef} THEN Decimal(0, 0)
  ELSE LET a == (d1.coef * Base ^ (Larger(d1.exp, d2.exp) - d1.exp)) % Word
           b == (d2.coef * Base ^ (Larger(d1.exp, d2.exp) - d2.exp)) % Word
       IN  Decimal(((a * b) % Word) \div gcd(a, b), Larger(d1.exp, d2.exp))
Units(d) == d.coef * Base ^ (Frac - d.exp)

DigitsOf(n) == IF n < Base THEN <<n>> ELSE Append(DigitsOf(n \div Base), n % Base)
num_digits(n) == Len(DigitsOf(IF n < 0 THEN -n ELSE n))
trim_end(ds) == IF ds # <<>> /\ Last(ds) = 0 THEN trim_end(Front(ds)) ELSE ds

-----------------------------------------------------------------------------
(* Integer ranges.                                                          *)
RECURSIVE rx_int_range(_, _)
AtLeast(left) ==
  IF left < 0 THEN mk_or({rx_int_range(left, -1), rx_int_range(0, None)})
  ELSE LET n == num_digits(left)
           max_value == Base ^ n - 1
       IN  IF max_value > MaxInt THEN Failed
           ELSE mk_or({rx_int_range(left, max_value),
                       Concatenated(Class(1, Base - 1), {ds \in Digits : Len(ds) >= n})})
AtMost(right) ==
  IF right >= 0 THEN mk_or({rx_int_range(0, right), rx_int_range(None, -1)})
  ELSE Negative(rx_int_range(-right, None))
(* Both ends have the same number of digits: the last digit is free between *)
(* the prefixes, and bounded at them.                                       *)
SameLength(left, right) ==
  LET lx == left % Base
      rx == right % Base
      lpref == left \div Base
      rpref == right \div Base
      prefix(n) == IF num_digits(left) = 1 THEN {<<>>} ELSE {DigitsOf(n)}
      left_rec == IF lx # 0 THEN lpref + 1 ELSE lpref
      right_rec == IF rx # Base - 1 THEN rpref - 1 ELSE rpref
  IN  IF left = right THEN {DigitsOf(left)}
      ELSE IF lpref = rpref THEN Concatenated(prefix(lpref), Class(lx, rx))
      ELSE mk_or((IF lx # 0 THEN {Concatenated(prefix(lpref), Class(lx, Base - 1))} ELSE {})
            \cup (IF rx # Base - 1 THEN {Concatenated(prefix(rpref), Class(0, rx))} ELSE {})
            \cup (IF left_rec <= right_rec
                  THEN {Concatenated(rx_int_range(left_rec, right_rec), Class(0, Base - 1))}
                  ELSE {}))
Between(left, right) ==
  IF left > right THEN Failed
  ELSE IF right < 0 THEN Negative(rx_int_range(-right, -left))
  ELSE IF left < 0 THEN mk_or({Negative(rx_int_range(0, -left)), rx_int_range(0, right)})
  ELSE IF num_digits(left) = num_digits(right) THEN SameLength(left, right)
  ELSE LET break_point == Base ^ num_digits(left)
       IN  IF break_point > MaxInt THEN Failed
           ELSE mk_or({rx_int_range(left, break_point - 1), rx_int_range(break_point, right)})
rx_int_range(left, right) ==
  IF left = None
  THEN IF right = None THEN Concatenated(Whole, NoLeadingZero) ELSE AtMost(right)
  ELSE IF right = None THEN AtLeast(left) ELSE Between(left, right)

-----------------------------------------------------------------------------
(* Digits after the point, compared as the texts they are.                  *)
RECURSIVE lexi_x_to_9(_, _), lexi_0_to_x(_, _), lexi_range(_, _, _, _)
lexi_x_to_9(x, incl) ==
  IF x = <<>> THEN IF incl THEN Digits ELSE Concatenated(Digits, Class(1, Base - 1))
  ELSE mk_or({Then(x[1], lexi_x_to_9(Tail(x), incl)),
              Concatenated(Class(x[1] + 1, Base - 1), Digits)})
lexi_0_to_x(x, incl) ==
  IF x = <<>> THEN IF incl THEN {<<>>} ELSE Failed
  ELSE IF ~incl /\ Len(x) = 1
       THEN IF x[1] = 0 THEN Failed ELSE Concatenated(Class(0, x[1] - 1), Digits)
  ELSE mk_or({Then(x[1], lexi_0_to_x(Tail(x), incl)),
              Concatenated(Class(0, x[1] - 1), Digits)})
lexi_range(ld, rd, ld_incl, rd_incl) ==
  IF ld = rd THEN IF ld_incl /\ rd_incl THEN {ld} ELSE Failed
  ELSE IF ld[1] = rd[1] THEN Then(ld[1], lexi_range(Tail(ld), Tail(rd), ld_incl, rd_incl))
  ELSE IF ld[1] > rd[1] THEN Failed
  ELSE LET rd_rest == trim_end(Tail(rd))
       IN  mk_or({Then(ld[1], lexi_x_to_9(trim_end(Tail(ld)), ld_incl)),
                  Concatenated(Class(ld[1] + 1, rd[1] - 1), Digits)}
                 \cup IF rd_rest # <<>> \/ rd_incl
                      THEN {Then(rd[1], lexi_0_to_x(rd_rest, rd_incl))} ELSE {})

(* Decimal ranges.  The texts of a bound: digits before and after its point.*)
IntPart(x) == x \div Unit
FracPart(x) ==
  LET ds == DigitsOf(x % Unit)
  IN  trim_end([i \in 1 .. Frac - Len(ds) |-> 0] \o ds)
Padded(ds, n) == ds \o [i \in 1 .. n - Len(ds) |-> 0]
float_to_str(x) ==
  DigitsOf(IntPart(x)) \o (IF FracPart(x) = <<>> THEN <<>> ELSE <<Point>> \o FracPart(x))
SameIntPart(left, right, left_incl, right_incl) ==
  LET n == Larger(Len(FracPart(left)), Len(FracPart(right)))
      suff == Then(Point, lexi_range(Padded(FracPart(left), n), Padded(FracPart(right), n),
                                     left_incl, right_incl))
  IN  Concatenated({DigitsOf(IntPart(left))},
                   IF FracPart(left) = <<>> THEN Optional(suff) ELSE suff)
OtherIntPart(left, right, left_incl, right_incl) ==
  LET ld == FracPart(left)
      rd == FracPart(right)
      split == ld # <<>> \/ ~left_incl
      left_rec == IF split THEN IntPart(left) + 1 ELSE IntPart(left)
      right_rec == IntPart(right)
  IN  mk_or((IF split
             THEN {Concatenated({DigitsOf(IntPart(left))}, Then(Point, lexi_x_to_9(ld, left_incl)))}
             ELSE {})
       \cup (IF right_rec > left_rec
             THEN {Concatenated(rx_int_range(left_rec, right_rec - 1), Optional(Then(Point, Some)))}
             ELSE {})
       \cup (IF rd # <<>>
             THEN {Concatenated({DigitsOf(right_rec)},
                                Optional(Then(Point, lexi_0_to_x(rd, right_incl))))}
             ELSE IF right_incl
             THEN {Concatenated({DigitsOf(right_rec)},
                                Optional(Then(Point, {ds \in Some : \A i \in DOMAIN ds : ds[i] = 0})))}
             ELSE {}))
RECURSIVE rx_float_range(_, _, _, _)
FloatAtLeast(left, left_incl) ==
  IF left < 0
  THEN mk_or({rx_float_range(left, 0, left_incl, FALSE), rx_float_range(0, None, TRUE, FALSE)})
  ELSE LET n == num_digits(IntPart(left))
       IN  mk_or({rx_float_range(left, Base ^ n * Unit, left_incl, FALSE),
                  Concatenated(Concatenated(Class(1, Base - 1), {ds \in Digits : Len(ds) >= n}),
                               Optional(Then(Point, Some)))})
FloatAtMost(right, right_incl) ==
  IF right < 0 THEN Negative(rx_float_range(-right, None, right_incl, FALSE))
  ELSE mk_or({Negative(rx_float_range(0, None, FALSE, FALSE)),
              IF right > 0 THEN rx_float_range(0, right, TRUE, right_incl)
              ELSE IF right_incl THEN {<<0>>} ELSE {}})
FloatBetween(left, right, left_incl, right_incl) ==
  IF left > right THEN Failed
  ELSE IF left = right
       THEN IF left_incl /\ right_incl
            THEN {(IF left < 0 THEN <<Minus>> ELSE <<>>)
                  \o float_to_str(IF left < 0 THEN -left ELSE left)}
            ELSE Failed
  ELSE IF right < 0 THEN Negative(rx_float_range(-right, -left, right_incl, left_incl))
  ELSE IF left < 0
       THEN mk_or({Negative(rx_float_range(0, -left, FALSE, left_incl)),
                   IF right > 0 \/ right_incl
                   THEN rx_float_range(0, right, TRUE, right_incl) ELSE {}})
  ELSE IF IntPart(right) > MaxInt THEN Failed
  ELSE IF IntPart(left) = IntPart(right) THEN SameIntPart(left, right, left_incl, right_incl)
  ELSE OtherIntPart(left, right, left_incl, right_incl)
AnyNumber ==
  Concatenated(Concatenated(Concatenated(Whole, NoLeadingZero), Optional(Then(Point, Some))),
               Optional(Then(Exp, Concatenated(Optional({<<Plus>>, <<Minus>>}), Some))))
rx_float_range(left, right, left_incl, right_incl) ==
  IF left = None
  THEN IF right = None THEN AnyNumber ELSE FloatAtMost(right, right_incl)
  ELSE IF right = None THEN FloatAtLeast(left, left_incl)
  ELSE FloatBetween(left, right, left_incl, right_incl)

-----------------------------------------------------------------------------
(* Number schemas: minimum, maximum, their exclusive forms, integer,        *)
(* multipleOf.                                                              *)
get_minimum(num) ==
  IF num.xmin # None /\ (num.min = None \/ num.xmin >= num.min)
  THEN [at |-> num.xmin, exclusive |-> TRUE] ELSE [at |-> num.min, exclusive |-> FALSE]
get_maximum(num) ==
  IF num.xmax # None /\ (num.max = None \/ num.xmax <= num.max)
  THEN [at |-> num.xmax, exclusive |-> TRUE] ELSE [at |-> num.max, exclusive |-> FALSE]

Floor(x) == x \div Unit
Ceil(x) == -((-x) \div Unit)
(* As it would be if an exclusive bound were only rounded.                  *)
normalize_minimum_rounded(num) ==
  LET m == get_minimum(num)
  IN  IF m.at = None THEN None ELSE Ceil(m.at)
normalize_minimum(num) ==
  LET m == get_minimum(num)
  IN  IF m.at = None THEN None
      ELSE IF m.exclusive /\ m.at % Unit = 0 THEN Floor(m.at) + 1 ELSE Ceil(m.at)
normalize_maximum(num) ==
  LET m == get_maximum(num)
  IN  IF m.at = None THEN None
      ELSE IF m.exclusive /\ m.at % Unit = 0 THEN Floor(m.at) - 1 ELSE Floor(m.at)

NoInteger(num) ==
  /\ num.integer
  /\ normalize_minimum(num) > normalize_maximum(num)
(* No multiple of step between the bounds, each moved to the next multiple  *)
(* (and, for an integer, to the next integer), in f64 arithmetic.           *)
NoMultiple(num, lo, hi, step) ==
  LET first(x) == MultipliedBy(ceil(DividedBy(x, step)), step)
      last(x) == MultipliedBy(floor(DividedBy(x, step)), step)
      min(x) == IF lo.exclusive /\ EqualTo(first(x), x)
                THEN PlusTimes(first(x), step, 1) ELSE first(x)
      max(x) == IF hi.exclusive /\ EqualTo(last(x), x)
                THEN PlusTimes(last(x), step, -1) ELSE last(x)
      from == min(Rounded(lo.at, Unit))
      to == max(Rounded(hi.at, Unit))
  IN  IF num.integer THEN LessThan(floor(to), ceil(from)) ELSE LessThan(to, from)
check_number_bounds(num) ==
  LET lo == get_minimum(num)
      hi == get_maximum(num)
      both == lo.at # None /\ hi.at # None
  IN  /\ both => /\ lo.at <= hi.at
                 /\ lo.at = hi.at => ~lo.exclusive /\ ~hi.exclusive
                 /\ ~NoInteger(num)
      /\ num.mult # None =>
           IF num.mult.coef = 0
           THEN /\ lo.at # None => lo.at < 0 \/ (lo.at = 0 /\ ~lo.exclusive)
                /\ hi.at # None => hi.at > 0 \/ (hi.at = 0 /\ ~hi.exclusive)
           ELSE both => ~NoMultiple(num, lo, hi, Rounded(num.mult.coef, Base ^ num.mult.exp))

(* The value of a text, in units of Base^-MaxText (texts with an exponent   *)
(* are only made where every number is allowed, and have no value here).    *)
IsDecimal(t) == \A i \in DOMAIN t : t[i] \notin {Exp, Plus}
ValueOf(t) ==
  LET point == IF \E i \in DOMAIN t : t[i] = Point
               THEN CHOOSE i \in DOMAIN t : t[i] = Point ELSE Len(t) + 1
      ds == SelectSeq(t, LAMBDA c : c >= 0)
      n == FoldLeft(LAMBDA a, d : a * Base + d, 0, ds)
      after == IF point > Len(t) THEN 0 ELSE Len(t) - point
  IN  (IF t # <<>> /\ t[1] = Minus THEN -1 ELSE 1) * n * Base ^ (MaxText - after)
PerUnit == Base ^ (MaxText - Frac)

(* What the expression for multiples matches: a sign, digits, and a point   *)
(* only where the divisor is no integer.                                    *)
signed_multiple_of_ast(t, d) ==
  /\ IsDecimal(t)
  /\ d.exp = 0 => \A i \in DOMAIN t : t[i] # Point
  /\ IF d.coef = 0 THEN ValueOf(t) = 0 ELSE ValueOf(t) % (Units(d) * PerUnit) = 0
WithMultiple(num, rx) ==
  IF rx = Failed THEN [kind |-> "error"]
  ELSE [kind |-> "ok",
        texts |-> IF num.mult = None THEN rx
                  ELSE {t \in rx : signed_multiple_of_ast(t, num.mult)}]
json_int(num) ==
  IF ~check_number_bounds(num) THEN [kind |-> "unsat"]
  ELSE WithMultiple(num, rx_int_range(normalize_minimum(num), normalize_maximum(num)))
json_number(num) ==
  LET lo == get_minimum(num)
      hi == get_maximum(num)
  IN  IF ~check_number_bounds(num) THEN [kind |-> "unsat"]
      ELSE WithMultiple(num, rx_float_range(lo.at, hi.at, ~lo.exclusive, ~hi.exclusive))
NumberLexeme(num) == IF num.integer THEN json_int(num) ELSE json_number(num)
=============================================================================
