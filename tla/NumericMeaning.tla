--------------------------- MODULE NumericMeaning ---------------------------
(***************************************************************************)
(* What a number schema says of a number, and which texts a number has:    *)
(* the reference against which numeric.rs is checked.                      *)
(***************************************************************************)
EXTENDS Numeric

(* Does the number v, in units of Base^-MaxText, satisfy the schema?        *)
Satisfies(v, num) ==
  /\ num.min # None => v >= num.min * PerUnit
  /\ num.xmin # None => v > num.xmin * PerUnit
  /\ num.max # None => v <= num.max * PerUnit
  /\ num.xmax # None => v < num.xmax * PerUnit
  /\ num.integer => v % (Unit * PerUnit) = 0
  /\ num.mult # None =>
       IF num.mult.coef = 0 THEN v = 0 ELSE v % (Units(num.mult) * PerUnit) = 0

(* The text a number is usually written as: no sign of zero, no zero at the *)
(* end of a fraction.                                                       *)
HasPoint(t) == \E i \in DOMAIN t : t[i] = Point
Canonical(t) ==
  /\ t[1] = Minus => ValueOf(t) # 0
  /\ HasPoint(t) => Last(t) > 0
CanonicalTexts ==
  {t \in Concatenated(Concatenated(Whole, NoLeadingZero), Optional(Then(Point, Some))) : Canonical(t)}

(* The multiples of a fraction next to the bounds are computed in f64.      *)
RoundedBounds(num) ==
  /\ num.mult # None /\ num.mult.exp > 0
  /\ get_minimum(num).at # None /\ get_maximum(num).at # None

(* An excluded bound without a fraction is matched all the same when the    *)
(* other bound has the same whole part.                                     *)
Leaked(num, t) ==
  LET lo == get_minimum(num)
      hi == get_maximum(num)
      Leaks(x, y) ==
        /\ None \notin {x.at, y.at} /\ x.exclusive /\ x.at % Unit = 0 /\ x.at # y.at
        /\ ValueOf(t) = x.at * PerUnit
        /\ \/ x.at >= 0 /\ y.at >= x.at /\ IntPart(y.at) = IntPart(x.at)
           \/ x.at <= 0 /\ y.at <= x.at /\ IntPart(-y.at) = IntPart(-x.at)
  IN  ~num.integer /\ (Leaks(lo, hi) \/ Leaks(hi, lo))
(* A fraction that is a beginning of the fraction of the bound farther from *)
(* zero is not matched.                                                     *)
After(t) == SubSeq(t, SelectInSeq(t, LAMBDA c : c = Point) + 1, Len(t))
Magnitude(n) == IF n < 0 THEN -n ELSE n
Lost(num, t) ==
  LET bound == (IF t[1] = Minus THEN get_minimum(num) ELSE get_maximum(num)).at
  IN  /\ ~num.integer /\ HasPoint(t) /\ bound # None
      /\ Magnitude(ValueOf(t)) \div (PerUnit * Unit) = IntPart(Magnitude(bound))
      /\ IsStrictPrefix(After(t), FracPart(Magnitude(bound)))
=============================================================================
