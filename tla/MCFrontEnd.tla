----------------------------- MODULE MCFrontEnd -----------------------------
(* What the front ends are given to compile.                                *)
EXTENDS FrontEnd

InLark == INSTANCE MCLark
LarkChars == {"a", "A", "b", " ", "."}
LarkCharCode == (" " :> 1) @@ ("." :> 2) @@ ("A" :> 3) @@ ("a" :> 5) @@ ("b" :> 6)
LarkFold == [ch \in LarkChars |-> IF ch = "A" THEN "a" ELSE ch]
LarkRegexOf ==
  [ab |-> {<<"a">>, <<"b">>, <<"a", "b">>}, as |-> {<<"a">>, <<"a", "a">>, <<"a", "a", "a">>},
   any |-> UNION {[1 .. k -> {"a", "b"}] : k \in 0 .. MaxChars}, blank |-> {<<" ">>}] @@ ("" :> {<<>>})
LarkCommonRegex == (<<"common", "AB">> :> "ab") @@ (<<"common", "AS">> :> "as")
LarkTokenText == <<"t0", "t1", "t2", "t3">>
LarkSpecialTokens == [eos |-> 3]
MCStr == {"a", "b", "ab", "cc"}
MCStrLen == [s \in MCStr |-> IF s \in {"a", "b"} THEN 1 ELSE 2]
MCPattern == [A |-> {"a", "ab"}, B |-> {"b", "ab"}, C |-> {"cc"}]
MCFormat == [two |-> {"ab", "cc"}]

True == [k |-> "bool", b |-> TRUE]
False == [k |-> "bool", b |-> FALSE]
Kw(k, v) == [k |-> k, v |-> v]
M(kws) == [k |-> "map", kws |-> kws]
Type(t) == M(<<Kw("type", <<t>>)>>)
L(list) == [k |-> "list", list |-> list]
N(n) == F(n * Unit)
Atoms == {Nil, B(TRUE), N(0), N(1), S("a"), S("ab")}
Few == {N(1), S("ab")}
MCUniverse ==
  LET arrays(xs) == {A(<<>>)} \cup {A(<<x>>) : x \in xs} \cup {A(<<x, y>>) : x \in xs, y \in Few}
      objects(xs) == {O(<<>>)} \cup {O(<<<<key, x>>>>) : key \in MCStr, x \in xs}
        \cup {O(<<<<"a", x>>, <<key, y>>>>) : key \in {"b", "ab"}, x \in xs, y \in Few}
        \cup {O(<<<<"b", x>>, <<"cc", y>>>>) : x \in Few, y \in Few}
      flat == Atoms \cup {B(FALSE), F(1), F(4), N(-1), N(2), N(3), S("b"), S("cc")}
  IN  flat \cup arrays(Atoms) \cup objects(Atoms)
      \cup arrays(arrays(Few)) \cup objects({O(<<>>), O(<<<<"a", N(1)>>>>), O(<<<<"a", O(<<>>)>>>>), A(<<N(1)>>)})
      \cup {A(<<x, y, z>>) : x \in Few, y \in Few, z \in Few}
      \cup {A(s) : s \in UNION {[1 .. n -> {Nil, B(TRUE)}] : n \in 0 .. 4}}
      \cup {O(<<<<k1, Nil>>, <<k2, B(FALSE)>>>> \o s) : k1 \in {"a", "b"}, k2 \in MCStr \ {"a", "b"},
               s \in {<<>>} \cup {<<<<k, B(b)>>>> : k \in {"a", "b"}, b \in BOOLEAN}}
Root(raw) == ("#" :> raw)
Fields == Kw("properties", <<<<"a", Type("boolean")>>, <<"b", Type("null")>>>>)
Docs == [
  true |-> Root(True), false |-> Root(False),
  meta |-> Root(M(<<Kw("title", "x"), Kw("x-foo", 1)>>)),
  unsupported |-> Root(M(<<Kw("not", False), Kw("type", <<"null">>)>>)),
  types |-> Root(M(<<Kw("type", <<"integer", "string">>), Kw("minimum", 1), Kw("minLength", 2)>>)),
  bounds |-> Root(M(<<Kw("exclusiveMinimum", [t |-> "num", n |-> 0]), Kw("maximum", 2 * Unit), Kw("type", <<"number">>)>>)),
  draft4 |-> Root(M(<<Kw("exclusiveMinimum", B(TRUE)), Kw("minimum", 0), Kw("exclusiveMaximum", B(FALSE)), Kw("maximum", Unit)>>)),
  multiples |-> Root(M(<<Kw("allOf", <<M(<<Kw("multipleOf", 1)>>), M(<<Kw("multipleOf", -4)>>), M(<<Kw("maximum", 2 * Unit)>>)>>)>>)),
  narrow |-> Root(M(<<Kw("multipleOf", 2), Kw("minimum", 9), Kw("exclusiveMaximum", [t |-> "num", n |-> 11])>>)),
  digits |-> Root(M(<<Kw("multipleOf", 25), Kw("type", <<"number">>)>>)),
  zero |-> Root(M(<<Kw("multipleOf", 0), Kw("type", <<"number", "null">>)>>)),
  const |-> Root(M(<<Kw("const", O(<<<<"a", A(<<N(1), Nil>>)>>>>))>>)),
  enum |-> Root(M(<<Kw("enum", <<N(1), S("a"), B(TRUE), Nil, A(<<S("ab")>>), O(<<<<"b", N(1)>>>>)>>), Kw("type", <<"string", "array", "object">>)>>)),
  strings |-> Root(M(<<Kw("pattern", "A"), Kw("maxLength", 1), Kw("allOf", <<M(<<Kw("format", "two")>>)>>)>>)),
  format |-> Root(M(<<Kw("type", <<"string">>), Kw("format", "nope")>>)),
  both |-> Root(M(<<Kw("pattern", "A"), Kw("format", "two"), Kw("minLength", 1)>>)),
  negative |-> Root(M(<<Kw("minLength", -1)>>)),
  anyOf |-> Root(M(<<Kw("type", <<"string", "integer">>), Kw("anyOf", <<M(<<Kw("minimum", Unit)>>), M(<<Kw("pattern", "B")>>), False>>), Kw("maxLength", 1)>>)),
  oneOf |-> Root(M(<<Kw("oneOf", <<Type("string"), Type("integer"), M(<<Kw("const", S("a"))>>), False>>)>>)),
  tagged |-> Root(M(<<Kw("oneOf", <<
      M(<<Kw("type", <<"object">>), Kw("required", <<"a">>), Kw("properties", <<<<"a", M(<<Kw("const", S("a"))>>)>>>>)>>),
      M(<<Kw("type", <<"object">>), Kw("required", <<"a">>), Kw("properties", <<<<"a", M(<<Kw("const", S("ab"))>>)>>>>)>>),
      Type("null")>>)>>)),
  nested |-> Root(M(<<Kw("oneOf", <<M(<<Kw("oneOf", <<Type("null"), Type("array")>>)>>), Type("boolean")>>)>>)),
  tuple |-> Root(M(<<Kw("prefixItems", <<Type("integer"), Type("string")>>), Kw("items", False), Kw("minItems", 1)>>)),
  itemsFirst |-> Root(M(<<Kw("items", Type("string")), Kw("anyOf", <<True>>), Kw("prefixItems", <<Type("integer")>>), Kw("type", <<"array">>)>>)),
  oldTuple |-> Root(M(<<Kw("items", L(<<Type("integer"), True>>)), Kw("additionalItems", Type("string")), Kw("maxItems", 3)>>)),
  oldSplit |-> Root(M(<<Kw("additionalItems", Type("string")), Kw("anyOf", <<True>>), Kw("items", L(<<Type("integer")>>))>>)),
  arrays |-> Root(M(<<Kw("allOf", <<M(<<Kw("prefixItems", <<Type("integer")>>)>>), M(<<Kw("items", M(<<Kw("enum", <<N(1), S("ab")>>)>>)), Kw("maxItems", 2)>>)>>)>>)),
  object |-> Root(M(<<Kw("properties", <<<<"a", Type("integer")>>, <<"b", Type("string")>>>>),
      Kw("required", <<"b">>), Kw("additionalProperties", Type("integer"))>>)),
  addlFirst |-> Root(M(<<Kw("additionalProperties", False), Kw("anyOf", <<True>>), Kw("properties", <<<<"a", Type("integer")>>>>), Kw("type", <<"object">>)>>)),
  addlLast |-> Root(M(<<Kw("properties", <<<<"a", Type("integer")>>>>), Kw("allOf", <<M(<<Kw("properties", <<<<"b", Type("integer")>>>>)>>)>>), Kw("additionalProperties", False)>>)),
  patterns |-> Root(M(<<Kw("properties", <<<<"a", M(<<Kw("minimum", Unit)>>)>>>>), Kw("patternProperties", <<<<"A", Type("integer")>>, <<"C", Type("string")>>>>), Kw("additionalProperties", False), Kw("type", <<"object">>)>>)),
  overlap |-> Root(M(<<Kw("patternProperties", <<<<"A", True>>, <<"B", True>>>>)>>)),
  patternBoth |-> Root(M(<<Kw("allOf", <<
      M(<<Kw("patternProperties", <<<<"A", Type("integer")>>>>), Kw("additionalProperties", Type("string"))>>),
      M(<<Kw("patternProperties", <<<<"C", M(<<Kw("enum", <<S("ab"), N(1)>>)>>)>>>>), Kw("properties", <<<<"a", M(<<Kw("minimum", Unit)>>)>>>>)>>)>>)>>)),
  patternSplit |-> Root(M(<<Kw("additionalProperties", False), Kw("anyOf", <<True>>), Kw("patternProperties", <<<<"A", Type("integer")>>>>), Kw("type", <<"object">>)>>)),
  patternSame |-> Root(M(<<Kw("patternProperties", <<<<"A", Type("integer")>>>>), Kw("allOf", <<M(<<Kw("patternProperties", <<<<"A", M(<<Kw("minimum", Unit)>>)>>>>)>>)>>), Kw("additionalProperties", True)>>)),
  counts |-> Root(M(<<Kw("minProperties", 1), Kw("allOf", <<M(<<Kw("maxProperties", 1)>>)>>), Kw("type", <<"object">>)>>)),
  tooMany |-> Root(M(<<Kw("maxProperties", 1), Kw("allOf", <<M(<<Kw("required", <<"a", "b">>)>>)>>), Kw("type", <<"object", "null">>)>>)),
  minMax |-> Root(M(<<Kw("maxProperties", 1), Kw("minProperties", 2)>>)),
  ref |-> ("#" :> M(<<Kw("properties", <<<<"a", M(<<Kw("$ref", "#tree")>>)>>>>), Kw("required", <<"a">>), Kw("type", <<"object">>)>>))
       @@ ("#tree" :> M(<<Kw("anyOf", <<Type("integer"), M(<<Kw("type", <<"object">>), Kw("properties", <<<<"a", M(<<Kw("$ref", "#tree")>>)>>>>)>>)>>)>>)),
  refSibling |-> ("#" :> M(<<Kw("$ref", "#n"), Kw("minimum", Unit), Kw("type", <<"number">>)>>)) @@ ("#n" :> Type("integer")),
  refTwice |-> ("#" :> M(<<Kw("$ref", "#n"), Kw("allOf", <<M(<<Kw("$ref", "#m")>>)>>)>>)) @@ ("#n" :> M(<<Kw("minimum", 0)>>)) @@ ("#m" :> Type("number")),
  refMissing |-> Root(M(<<Kw("$ref", "#none")>>)),
  refLoop |-> ("#" :> M(<<Kw("$ref", "#x")>>)) @@ ("#x" :> M(<<Kw("type", <<"array">>), Kw("items", M(<<Kw("$ref", "#x"), Kw("maxItems", 1)>>))>>)),
  trees |-> ("#" :> M(<<Kw("allOf", <<M(<<Kw("$ref", "#t1")>>), M(<<Kw("$ref", "#t2")>>)>>)>>))
       @@ ("#t1" :> M(<<Kw("type", <<"object">>), Kw("properties", <<<<"a", M(<<Kw("$ref", "#t1")>>)>>>>)>>))
       @@ ("#t2" :> M(<<Kw("type", <<"object">>), Kw("properties", <<<<"a", M(<<Kw("$ref", "#t2")>>)>>>>)>>))
  ,
  some |-> Root(M(<<Kw("type", <<"object">>), Fields, Kw("additionalProperties", False), Kw("minProperties", 1)>>)),
  atMostOne |-> Root(M(<<Kw("type", <<"object">>), Fields, Kw("required", <<"b">>), Kw("additionalProperties", False), Kw("maxProperties", 2)>>)),
  one |-> Root(M(<<Kw("type", <<"object">>), Fields, Kw("additionalProperties", False), Kw("minProperties", 1), Kw("maxProperties", 1)>>)),
  between |-> Root(M(<<Kw("type", <<"object">>), Kw("additionalProperties", Type("boolean")), Kw("minProperties", 1), Kw("maxProperties", 2)>>)),
  needed |-> Root(M(<<Kw("type", <<"object">>), Fields, Kw("required", <<"cc", "b">>), Kw("additionalProperties", Type("boolean"))>>)),
  counted |-> Root(M(<<Kw("type", <<"object">>), Kw("properties", <<<<"a", Type("null")>>>>), Kw("required", <<"a">>), Kw("patternProperties", <<<<"B", Type("boolean")>>>>), Kw("additionalProperties", False), Kw("minProperties", 2), Kw("maxProperties", 3)>>)),
  others |-> Root(M(<<Kw("type", <<"object">>), Kw("properties", <<<<"a", Type("null")>>>>), Kw("additionalProperties", Type("boolean"))>>)),
  list |-> Root(M(<<Kw("type", <<"array">>), Kw("items", Type("boolean")), Kw("minItems", 2), Kw("maxItems", 3)>>)),
  prefix |-> Root(M(<<Kw("type", <<"array">>), Kw("prefixItems", <<Type("null"), Type("boolean"), Type("null")>>), Kw("items", Type("boolean")), Kw("minItems", 1), Kw("maxItems", 4)>>)),
  cut |-> Root(M(<<Kw("type", <<"array">>), Kw("prefixItems", <<Type("null"), False, Type("null")>>)>>)),
  cutShort |-> Root(M(<<Kw("type", <<"array">>), Kw("prefixItems", <<Type("null"), False>>), Kw("minItems", 2)>>)),
  chain |-> ("#" :> M(<<Kw("type", <<"object", "boolean">>), Kw("properties", <<<<"a", M(<<Kw("$ref", "#"), Kw("type", <<"object">>)>>)>>, <<"b", M(<<Kw("$ref", "#")>>)>>>>), Kw("additionalProperties", False)>>)),
  long |-> Root(M(<<Kw("type", <<"array">>), Kw("items", Type("null")), Kw("minItems", 1)>>))
  ]

(* Documents whose texts are looked at further than the first five tokens.  *)
Deep == {"some", "atMostOne", "one", "between", "needed", "counted", "others", "list",
         "prefix", "long", "chain", "const"}
Options(general, u, coerce, lenient) ==
  [general |-> general, u |-> u, coerce |-> coerce, lenient |-> lenient]
Default == Options(FALSE, FALSE, FALSE, FALSE)
Lenient == Options(FALSE, FALSE, FALSE, TRUE)
Json(name, old, options) ==
  [kind |-> "json", doc |-> Docs[name], old |-> old, options |-> options,
   tokens |-> IF name \in Deep THEN 9 ELSE 5]
JsonJobs ==
  {Json(name, FALSE, o) : name \in DOMAIN Docs, o \in {Default, Lenient}}
  \cup {Json("oldTuple", TRUE, Default), Json("oneOf", FALSE, Options(FALSE, FALSE, TRUE, FALSE))}
  \cup {Json(name, FALSE, Options(g, TRUE, FALSE, FALSE)) : name \in {"strings", "others"}, g \in BOOLEAN}

(* Bounds: at, near and across whole numbers, zero and each other.          *)
Lower == {<<None, None>>, <<0, -1>>, <<-9, 0>>, <<1, 1>>}
  \cup UNION {{<<p, None>>, <<None, p>>} : p \in {-31, -9, -1, 0, 1, 9, 14}}
Upper == {<<None, None>>, <<9, 10>>, <<5, 5>>}
  \cup UNION {{<<p, None>>, <<None, p>>} : p \in {-9, -5, 0, 1, 5, 9, 27}}
Num(lower, upper, integer, mult) ==
  [kind |-> "number",
   num |-> [min |-> lower[1], xmin |-> lower[2], max |-> upper[1], xmax |-> upper[2],
            integer |-> integer, mult |-> mult]]
NumberJobs ==
  {Num(l, u, i, None) : l \in Lower, u \in Upper, i \in BOOLEAN}
  \cup {Num(<<l, None>>, <<None, u>>, i, Decimal(m[1], m[2])) :
           l \in {None, 1, -9}, u \in {None, 9, 13}, i \in BOOLEAN,
           m \in {<<0, 0>>, <<2, 0>>, <<4, 2>>, <<6, 1>>}}
  \cup {Num(l, u, FALSE, Decimal(m[1], m[2])) :    \* rounding matters in some
           l \in {<<5, None>>, <<None, 9>>, <<None, -18>>}, m \in {<<1, 2>>, <<2, 2>>, <<1, 1>>},
           u \in {<<5, None>>, <<10, None>>, <<None, 9>>, <<None, 18>>, <<-14, None>>}}

RepeatJobs ==
  {[kind |-> "repeat", min |-> min, max |-> max, unbounded |-> FALSE, tokens |-> 27] :
     min \in {0, 1, 5, 9, 13}, max \in {n \in 0 .. 26 : n % 5 < 3}}
RangeJobs ==
  LET one == {r \in (0 .. 4) \X (0 .. 5) : r[1] <= r[2] + 1}
  IN  {[kind |-> "ranges", vocab |-> 5, ranges |-> rs] : rs \in UNION {[1 .. n -> one] : n \in 0 .. 2}}
MCJobs ==
  JsonJobs \cup NumberJobs \cup RangeJobs \cup InLark!LarkJobs
  \cup {j \in RepeatJobs : j.min <= j.max}
  \cup {[kind |-> "repeat", min |-> min, max |-> 0, unbounded |-> TRUE, tokens |-> 12] : min \in 0 .. 10}
ConformanceJobs == {Json("others", FALSE, Options(FALSE, TRUE, FALSE, FALSE))}
ParametricJobs == InLark!ParametricJobs
MCNumbers == {-Unit, 0, 1, Unit, 2 * Unit}
=============================================================================
