---------------------------- MODULE JsonMeaning -----------------------------
(***************************************************************************)
(* What a JSON schema document says of a value, keyword by keyword as the  *)
(* JSON Schema standard has it, what a built schema says of it, and what   *)
(* value a text stands for: the references against which schema.rs and     *)
(* compiler.rs are checked.                                                *)
(***************************************************************************)
EXTENDS JsonCompile

TypeOf(v) ==
  CASE v.t = "null" -> {"null"}
    [] v.t = "bool" -> {"boolean"}
    [] v.t = "num" -> {"number"} \cup (IF v.n % Unit = 0 THEN {"integer"} ELSE {})
    [] v.t = "str" -> {"string"}
    [] v.t = "arr" -> {"array"}
    [] v.t = "obj" -> {"object"}

(* Objects are the same whatever the order of their properties.             *)
RECURSIVE SameValue(_, _)
SameValue(v, w) ==
  IF v.t # w.t THEN FALSE
  ELSE IF v.t = "arr"
  THEN Len(v.items) = Len(w.items) /\ \A i \in DOMAIN v.items : SameValue(v.items[i], w.items[i])
  ELSE IF v.t = "obj"
  THEN /\ Keys(v.kv) = Keys(w.kv)
       /\ \A key \in Keys(v.kv) : SameValue(Lookup(v.kv, key), Lookup(w.kv, key))
  ELSE v = w

RECURSIVE Valid(_, _, _)
(* Is v valid against the document raw, whose references doc resolves?      *)
Valid(raw, v, doc) ==
  LET names == {raw.kws[i].k : i \in DOMAIN raw.kws}
      kw(k) == raw.kws[CHOOSE i \in DOMAIN raw.kws : raw.kws[i].k = k].v
      Opt(k, default) == IF k \in names THEN kw(k) ELSE default
      Says(k, Claim) == k \in names => Claim
      prefix == IF "items" \in names /\ kw("items").k = "list" THEN kw("items").list
                ELSE Opt("prefixItems", <<>>)
      rest == IF "items" \in names /\ kw("items").k = "list"
              THEN Opt("additionalItems", AnyValue) ELSE Opt("items", AnyValue)
      patterns(key) ==
        {i \in DOMAIN Opt("patternProperties", <<>>) :
           key \in PatternOf[kw("patternProperties")[i][1]]}
      Bound(k, draft4, Is(_)) ==
        Says(k, IF kw(k).t = "bool" THEN kw(k).b => draft4 ELSE Is(kw(k).n))
      NumberOk ==
        /\ Says("minimum", v.n >= kw("minimum"))
        /\ Says("maximum", v.n <= kw("maximum"))
        /\ Bound("exclusiveMinimum", v.n # Opt("minimum", None), LAMBDA n : v.n > n)
        /\ Bound("exclusiveMaximum", v.n # Opt("maximum", None), LAMBDA n : v.n < n)
        /\ Says("multipleOf", IF kw("multipleOf") = 0 THEN v.n = 0 ELSE
             v.n % (IF kw("multipleOf") < 0 THEN -kw("multipleOf") ELSE kw("multipleOf")) = 0)
      StringOk ==
        /\ Says("minLength", StrLen[v.s] >= kw("minLength"))
        /\ Says("maxLength", StrLen[v.s] <= kw("maxLength"))
        /\ Says("pattern", v.s \in PatternOf[kw("pattern")])
        /\ Says("format", kw("format") \in DOMAIN FormatOf => v.s \in FormatOf[kw("format")])
      ArrayOk ==
        /\ Says("minItems", Len(v.items) >= kw("minItems"))
        /\ Says("maxItems", Len(v.items) <= kw("maxItems"))
        /\ \A i \in DOMAIN v.items :
             IF i <= Len(prefix) THEN Valid(prefix[i], v.items[i], doc)
             ELSE rest = AnyValue \/ Valid(rest, v.items[i], doc)
      ObjectOk ==
        /\ Says("minProperties", Len(v.kv) >= kw("minProperties"))
        /\ Says("maxProperties", Len(v.kv) <= kw("maxProperties"))
        /\ Says("required", Range(kw("required")) \subseteq Keys(v.kv))
        /\ \A key \in Keys(v.kv) :
             LET named == key \in Keys(Opt("properties", <<>>))
             IN  /\ named => Valid(Lookup(kw("properties"), key), Lookup(v.kv, key), doc)
                 /\ \A i \in patterns(key) :
                      Valid(kw("patternProperties")[i][2], Lookup(v.kv, key), doc)
                 /\ (~named /\ patterns(key) = {}) =>
                      Says("additionalProperties",
                           Valid(kw("additionalProperties"), Lookup(v.kv, key), doc))
  IN  IF raw.k = "bool" THEN raw.b
      ELSE /\ Says("type", Range(kw("type")) \cap TypeOf(v) # {})
           /\ Says("const", SameValue(kw("const"), v))
           /\ Says("enum", \E i \in DOMAIN kw("enum") : SameValue(kw("enum")[i], v))
           /\ Says("allOf", \A i \in DOMAIN kw("allOf") : Valid(kw("allOf")[i], v, doc))
           /\ Says("anyOf", \E i \in DOMAIN kw("anyOf") : Valid(kw("anyOf")[i], v, doc))
           /\ Says("oneOf", Cardinality({i \in DOMAIN kw("oneOf") : Valid(kw("oneOf")[i], v, doc)}) = 1)
           /\ Says("$ref", Valid(doc[kw("$ref")], v, doc))
           /\ v.t = "num" => NumberOk
           /\ v.t = "str" => StringOk
           /\ v.t = "arr" => ArrayOk
           /\ v.t = "obj" => ObjectOk

RECURSIVE Denotes(_, _, _)
(* Is v an instance of the built schema s, whose references defs resolves?  *)
Denotes(s, v, defs) ==
  LET NumberOk ==
        /\ s.num.min # None => v.n >= s.num.min
        /\ s.num.max # None => v.n <= s.num.max
        /\ s.num.xmin # None => v.n > s.num.xmin
        /\ s.num.xmax # None => v.n < s.num.xmax
        /\ s.num.integer => v.n % Unit = 0
        /\ s.num.mult # None =>
             IF s.num.mult.coef = 0 THEN v.n = 0 ELSE v.n % Units(s.num.mult) = 0
      ItemOk(i) ==
        IF i <= Len(s.prefix) THEN Denotes(s.prefix[i], v.items[i], defs)
        ELSE s.items # None => Denotes(s.items, v.items[i], defs)
      InSize(n) == n >= s.lo /\ (s.hi # None => n <= s.hi)
  IN  CASE s.k = "any" -> TRUE
        [] s.k = "unsat" -> FALSE
        [] s.k = "ref" -> Denotes(defs[s.uri], v, defs)
        [] s.k = "anyOf" -> \E i \in DOMAIN s.opts : Denotes(s.opts[i], v, defs)
        [] s.k = "oneOf" -> Cardinality({i \in DOMAIN s.opts : Denotes(s.opts[i], v, defs)}) = 1
        [] s.k = "null" -> v.t = "null"
        [] s.k = "boolean" -> v.t = "bool" /\ (s.b = None \/ s.b = v.b)
        [] s.k = "number" -> v.t = "num" /\ NumberOk
        [] s.k = "string" ->
             v.t = "str" /\ InSize(StrLen[v.s]) /\ (s.rx # None => v.s \in s.rx.texts)
        [] s.k = "array" -> v.t = "arr" /\ InSize(Len(v.items)) /\ \A i \in DOMAIN v.items : ItemOk(i)
        [] s.k = "object" ->
             /\ v.t = "obj" /\ InSize(Len(v.kv)) /\ Range(s.req) \subseteq Keys(v.kv)
             /\ \A key \in Keys(v.kv) : Denotes(property_schema(s, key), Lookup(v.kv, key), defs)

(* An in-place applicator between two keywords of which one needs to know   *)
(* the other: they are compiled apart.                                      *)
Apart(raw) ==
  LET at(ks) == {i \in DOMAIN raw.kws : raw.kws[i].k \in ks}
      split(k1, k2) ==
        \E i \in at({k1}), j \in at({k2}), a \in at(Applicators) : (i < a /\ a < j) \/ (j < a /\ a < i)
  IN  /\ raw.k = "map"
      /\ \/ split("additionalProperties", "patternProperties")
         \/ split("additionalItems", "items")
         \/ split("exclusiveMinimum", "minimum")
         \/ split("exclusiveMaximum", "maximum")

-----------------------------------------------------------------------------
B(b) == [t |-> "bool", b |-> b]
F(n) == [t |-> "num", n |-> n]
S(s) == [t |-> "str", s |-> s]
A(items) == [t |-> "arr", items |-> items]
O(kv) == [t |-> "obj", kv |-> kv]
Nil == [t |-> "null"]

(* Reading a text: the value its first tokens stand for, and the tokens     *)
(* that are left.                                                           *)
Unreadable == [ok |-> FALSE]
Got(v, rest) == [ok |-> TRUE, v |-> v, rest |-> rest]
StartsWith(ts, c) == ts # <<>> /\ ts[1] = P(c)
RECURSIVE ValueAt(_), PartsAt(_, _, _)
FieldFrom(name, r) == IF r.ok THEN Got(<<name.s, r.v>>, r.rest) ELSE r
PartAt(ts, close) ==
  IF close = "]" THEN ValueAt(ts)
  ELSE IF Len(ts) < 3 \/ ts[1].t # "str" \/ ~StartsWith(Tail(ts), ":") THEN Unreadable
  ELSE FieldFrom(ts[1], ValueAt(SubSeq(ts, 3, Len(ts))))
Continued(r, acc, close) ==
  IF ~r.ok THEN r
  ELSE IF StartsWith(r.rest, close) THEN Got(Append(acc, r.v), Tail(r.rest))
  ELSE IF StartsWith(r.rest, ",") THEN PartsAt(Tail(r.rest), Append(acc, r.v), close)
  ELSE Unreadable
PartsAt(ts, acc, close) == Continued(PartAt(ts, close), acc, close)
Bracketed(ts, close) ==
  IF StartsWith(ts, close) THEN Got(<<>>, Tail(ts)) ELSE PartsAt(ts, <<>>, close)
Mapped(r, Value(_)) == IF r.ok THEN Got(Value(r.v), r.rest) ELSE r
ValueAt(ts) ==
  LET first == ts[1]
      rest == Tail(ts)
  IN  IF ts = <<>> THEN Unreadable
      ELSE CASE first.t = "null" -> Got(Nil, rest)
             [] first.t = "bool" -> Got(B(first.b), rest)
             [] first.t = "num" -> Got(F(first.n), rest)
             [] first.t = "str" -> Got(S(first.s), rest)
             [] first = P("[") -> Mapped(Bracketed(rest, "]"), A)
             [] first = P("{") -> Mapped(Bracketed(rest, "}"), O)
             [] OTHER -> Unreadable

(* The texts of a value, its properties in any order.                       *)
RECURSIVE Written(_)
WrittenParts(parts) ==
  FoldLeft(LAMBDA texts, i :
             {t \o (IF i = 1 THEN <<>> ELSE <<P(",")>>) \o u : t \in texts, u \in parts[i]},
           {<<>>}, [i \in DOMAIN parts |-> i])
WrittenField(field) ==
  {<<StringToken(field[1], FALSE), P(":")>> \o t : t \in Written(field[2])}
Written(v) ==
  CASE v.t = "null" -> {<<NullToken>>}
    [] v.t = "bool" -> {<<BoolToken(v.b)>>}
    [] v.t = "num" -> {<<NumberToken(v.n)>>}
    [] v.t = "str" -> {<<StringToken(v.s, FALSE)>>}
    [] v.t = "arr" ->
         {<<P("[")>> \o t \o <<P("]")>> :
            t \in WrittenParts([i \in DOMAIN v.items |-> Written(v.items[i])])}
    [] v.t = "obj" ->
         UNION {{<<P("{")>> \o t \o <<P("}")>> :
                   t \in WrittenParts([i \in DOMAIN kv |-> WrittenField(kv[i])])} :
                kv \in {[i \in DOMAIN v.kv |-> v.kv[p[i]]] : p \in Permutations(DOMAIN v.kv)}}

(* A property named twice: the standard gives such an object no meaning.    *)
RECURSIVE NamedTwice(_)
NamedTwice(v) ==
  CASE v.t = "arr" -> \E i \in DOMAIN v.items : NamedTwice(v.items[i])
    [] v.t = "obj" -> \/ Cardinality(Keys(v.kv)) # Len(v.kv)
                      \/ \E i \in DOMAIN v.kv : NamedTwice(v.kv[i][2])
    [] OTHER -> FALSE
=============================================================================
