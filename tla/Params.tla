------------------------------- MODULE Params -------------------------------
(***************************************************************************)
(* The parameter of a parametric rule, the expressions that pass it on and *)
(* the conditions on it (parser/src/earley/grammar.rs).  A parameter has   *)
(* NumBits bits; [start |-> x, end |-> y] refers to those from x up to but *)
(* not including y.  None stands where the code has an Option.             *)
(***************************************************************************)
EXTENDS Integers, Sequences, FiniteSets
LOCAL INSTANCE Bitwise

CONSTANTS
  NumBits,  \* 64 in the code
  None

FullRef == [start |-> 0, end |-> NumBits]
SingleBit(k) == [start |-> k, end |-> k + 1]
Width(r) == r.end - r.start
mask(r) == (2^Width(r) - 1) * 2^r.start
RefValue(r, m) == (m & mask(r)) \div 2^r.start

(* Expressions.  NoParam stands where no parameter is passed.               *)
NoParam == [e |-> "null"]
SelfRef == [e |-> "self"]
needs_param(e) == e.e \notin {"null", "const"}
EvalExpr(e, m) ==
  CASE e.e = "null" -> 0
    [] e.e = "const" -> e.v
    [] e.e = "self" -> m
    [] e.e = "incr" -> IF (m & mask(e.r)) = mask(e.r) THEN m ELSE m + 2^e.r.start
    [] e.e = "decr" -> IF (m & mask(e.r)) = 0 THEN m ELSE m - 2^e.r.start
    [] e.e = "bit_or" -> m | e.v
    [] e.e = "bit_and" -> m & e.v

(* Conditions: a comparison of the bits referred to, or of how many of them *)
(* are set, with a value; and the connectives.                              *)
Always == [c |-> "true"]
Compare(op, x, y) ==
  CASE op = "ne" -> x # y [] op = "eq" -> x = y
    [] op = "lt" -> x < y [] op = "le" -> x <= y
    [] op = "gt" -> x > y [] op = "ge" -> x >= y
count_ones(x) == Cardinality({k \in 0 .. NumBits - 1 : (x \div 2^k) % 2 = 1})
RECURSIVE EvalCond(_, _)
EvalCond(c, m) ==
  CASE c.c = "true" -> TRUE
    [] c.c = "value" -> Compare(c.op, RefValue(c.r, m), c.v)
    [] c.c = "count" -> Compare(c.op, count_ones(RefValue(c.r, m)), c.v)
    [] c.c = "and" -> EvalCond(c.a, m) /\ EvalCond(c.b, m)
    [] c.c = "or" -> EvalCond(c.a, m) \/ EvalCond(c.b, m)
    [] c.c = "not" -> ~EvalCond(c.a, m)

(* Disjunctive normal form: a set of clauses, each a set of comparisons or  *)
(* negated comparisons.  A negated "true" is true, as in the code.          *)
Negated(c) == [c |-> "not", a |-> c]
dnf_and(x, y) == {a \cup b : a \in x, b \in y}
dnf_or(x, y) == x \cup y
RECURSIVE dnf(_, _)
dnf(c, neg) ==
  CASE c.c = "true" -> {{}}
    [] c.c \in {"value", "count"} -> {{IF neg THEN Negated(c) ELSE c}}
    [] c.c \in {"and", "or"} ->
         IF neg # (c.c = "and") THEN dnf_and(dnf(c.a, neg), dnf(c.b, neg))
         ELSE dnf_or(dnf(c.a, neg), dnf(c.b, neg))
    [] c.c = "not" -> dnf(c.a, ~neg)
Holds(dnf_c, m) == \E clause \in dnf_c : \A atom \in clause : EvalCond(atom, m)
=============================================================================
