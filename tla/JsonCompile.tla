---------------------------- MODULE JsonCompile -----------------------------
(***************************************************************************)
(* From a built schema to grammar nodes (parser/src/json/compiler.rs).     *)
(* The tokens of a text are its punctuation, its literals, its strings     *)
(* (with the way they are spelled: with an escape where none is needed or  *)
(* not) and its numbers.  A node under construction comes with the         *)
(* definitions it refers to; options are a record of the fields general    *)
(* (json_allow_general_unicode_escapes), u ("u" is an allowed escape),     *)
(* coerce (coerce_one_of) and lenient.                                     *)
(***************************************************************************)
EXTENDS JsonSchema, GrammarBuilder

CONSTANT Numbers  \* bound: the numbers texts are made of, in units

P(c) == [t |-> "punctuation", c |-> c]
StringToken(s, escaped) == [t |-> "str", s |-> s, escaped |-> escaped]
NumberToken(n) == [t |-> "num", n |-> n]
NullToken == [t |-> "null"]
BoolToken(b) == [t |-> "bool", b |-> b]

(* The outcome of compiling a schema.                                       *)
Node(n, refs) == [kind |-> "ok", node |-> n, refs |-> refs]
Unsat(refs) == [kind |-> "unsat", refs |-> refs]
Error == [kind |-> "error", refs |-> <<>>]
RefsOf(rs) == FlattenSeq([i \in DOMAIN rs |-> rs[i].refs])

json_quote(texts) == {StringToken(s, FALSE) : s \in texts}
json_general_unicode_string(lo, hi, o) ==
  {StringToken(s, e) : s \in {s \in Str : StrLen[s] >= lo /\ (hi = None \/ StrLen[s] <= hi)},
                       e \in IF o.u THEN BOOLEAN ELSE {FALSE}}
json_simple_string(o) ==
  IF o.general THEN json_general_unicode_string(0, None, o) ELSE json_quote(Str)
comma == string(P(","))
colon == string(P(":"))

(* Lexemes: schemas that are one token.                                     *)
gen_json_string(s, o) ==
  LET InSize(x) == StrLen[x] >= s.lo /\ (s.hi = None \/ StrLen[x] <= s.hi)
      texts == IF s.rx = None THEN Str ELSE s.rx.texts
      sized == {x \in texts : InSize(x)}
  IN  IF s.hi # None /\ s.lo > s.hi THEN Unsat(<<>>)
      ELSE IF s.rx = None
      THEN Node(lexeme(IF o.general THEN json_general_unicode_string(s.lo, s.hi, o)
                       ELSE json_quote(sized)), <<>>)
      ELSE IF sized = {} THEN Unsat(<<>>) ELSE Node(lexeme(json_quote(sized)), <<>>)
(* The text the number n has in a document: digits, a point and the digits  *)
(* after it if there are any.                                               *)
TextOf(n) ==
  (IF n < 0 THEN <<Minus>> ELSE <<>>) \o float_to_str(IF n < 0 THEN -n ELSE n)
LexemeOfNumber(r) ==
  IF r.kind # "ok" THEN [kind |-> r.kind, refs |-> <<>>]
  ELSE Node(lexeme({NumberToken(n) : n \in {n \in Numbers : TextOf(n) \in r.texts}}), <<>>)
IsLexeme(s) == s.k \in {"null", "boolean", "number", "string"}
regex_compile(s, o) ==
  CASE s.k = "null" -> Node(lexeme({NullToken}), <<>>)
    [] s.k = "boolean" ->
         Node(lexeme({BoolToken(b) : b \in IF s.b = None THEN BOOLEAN ELSE {s.b}}), <<>>)
    [] s.k = "number" -> LexemeOfNumber(NumberLexeme(s.num))
    [] s.k = "string" -> gen_json_string(s, o)

(* Sequences between brackets.  In a list of items <<node, required>> an    *)
(* optional one may be left out, with the comma that would go before it.    *)
sequence(item) == join(<<zero_or_more(join(<<item, comma>>)), item>>)
(* As it would be if the last item were not counted.                        *)
bounded_sequence_uncounted(item, min, max) ==
  join(<<repeat(join(<<item, comma>>), min, IF max = None THEN 0 ELSE max, max = None), item>>)
bounded_sequence(item, min, max) ==
  LET Less(n) == IF n > 0 THEN n - 1 ELSE 0
  IN  join(<<repeat(join(<<item, comma>>), Less(min), IF max = None THEN 0 ELSE Less(max), max = None),
             item>>)
RECURSIVE ordered_sequence(_, _)
ordered_sequence(items, prefixed) ==
  LET item == items[1][1]
      rest(p) == ordered_sequence(Tail(items), p)
  IN  IF items = <<>> THEN empty
      ELSE IF prefixed
      THEN IF items[1][2] THEN join(<<comma, item, rest(TRUE)>>)
           ELSE join(<<optional(join(<<comma, item>>)), rest(TRUE)>>)
      ELSE IF items[1][2] THEN join(<<item, rest(TRUE)>>)
      ELSE select(<<join(<<item, rest(TRUE)>>), rest(FALSE)>>)
object_fields(items) == join(<<string(P("{")), ordered_sequence(items, FALSE), string(P("}"))>>)

-----------------------------------------------------------------------------
RECURSIVE gen_json(_, _)
Each(ss, o) == FoldLeft(LAMBDA rs, s : Append(rs, gen_json(s, o)), <<>>, ss)
Kinds(rs) == {rs[i].kind : i \in DOMAIN rs}

(* The alternatives that are one token become one lexeme, those that cannot *)
(* be satisfied are left out.                                               *)
AnyOfNode(options, rs) ==
  LET at(is) == SelectSeq([i \in DOMAIN options |-> i],
                          LAMBDA i : rs[i].kind = "ok" /\ IsLexeme(options[i]) = is)
      nodes == [i \in DOMAIN at(FALSE) |-> rs[at(FALSE)[i]].node]
      texts == UNION {rs[i].node.texts : i \in Range(at(TRUE))}
      all == IF at(TRUE) = <<>> THEN nodes ELSE Append(nodes, lexeme(texts))
  IN  IF "error" \in Kinds(rs) THEN Error
      ELSE IF all = <<>> THEN Unsat(RefsOf(rs)) ELSE Node(select(all), RefsOf(rs))
process_any_of(options, o) == AnyOfNode(options, Each(options, o))
process_one_of(options, o) ==
  IF o.coerce \/ o.lenient THEN process_any_of(options, o) ELSE Error

(* Arrays: the prefix up to the first item nothing satisfies, and then as   *)
(* many further items as the bounds leave room for.                         *)
ArrayNode(arr, tail, rs) ==
  LET count == IF arr.hi = None THEN Len(rs) ELSE Min({arr.hi, Len(rs)})
      failed == {i \in 1 .. count : rs[i].kind # "ok"}
      n == IF failed = {} THEN count ELSE Min(failed) - 1
      max == IF failed = {} THEN arr.hi ELSE n
      nodes == [i \in 1 .. n |-> rs[i].node]
      left == IF arr.lo > n THEN arr.lo - n ELSE 0
      room == IF max = None THEN None ELSE IF max > n THEN max - n ELSE 0
      rest == IF tail.kind # "ok" \/ room = 0 THEN <<>>
              ELSE IF left = 0 /\ room = None THEN <<sequence(tail.node)>>
              ELSE <<bounded_sequence(tail.node, Max({left, 1}), room)>>
      required == SubSeq(nodes, 1, Min({n, arr.lo})) \o (IF left > 0 THEN rest ELSE <<>>)
      more == SubSeq(nodes, Len(required) + 1, n) \o (IF left > 0 THEN <<>> ELSE rest)
      optionals == FoldRight(LAMBDA item, acc : optional(join(<<comma, item, acc>>)),
                             Tail(more), empty)
      end == join(<<more[1], optionals>>)
      inner == IF more = <<>> THEN empty
               ELSE IF required = <<>> THEN optional(end) ELSE optional(join(<<comma, end>>))
      refs == tail.refs \o RefsOf(SubSeq(rs, 1, Min({n + 1, count})))
  IN  IF arr.hi # None /\ arr.lo > arr.hi THEN Unsat(<<>>)
      ELSE IF tail.kind = "error" \/ (failed # {} /\ rs[n + 1].kind = "error") THEN Error
      ELSE IF tail.kind = "unsat" /\ Len(arr.prefix) < arr.lo THEN Unsat(tail.refs)
      ELSE IF failed # {} /\ n < arr.lo THEN Unsat(refs)
      ELSE Node(join(<<string(P("["))>>
                     \o FlattenSeq([i \in DOMAIN required |->
                          IF i = 1 THEN <<required[i]>> ELSE <<comma, required[i]>>])
                     \o <<inner, string(P("]"))>>), refs)
gen_json_array(arr, o) == ArrayNode(arr, gen_json(OrAny(arr.items), o), Each(arr.prefix, o))

(* Objects: the named properties in the order of the schema, those required *)
(* but not described after them; then properties with names the patterns    *)
(* match, or no pattern and no name.                                        *)
NamesOf(obj) ==
  [i \in DOMAIN obj.props |-> obj.props[i][1]]
  \o SelectSeq(obj.req, LAMBDA name : name \notin Keys(obj.props))
NamedItems(obj, names, rs) ==
  LET made == SelectSeq([i \in DOMAIN names |-> i], LAMBDA i : rs[i].kind = "ok")
  IN  [j \in DOMAIN made |->
         <<join(<<string(StringToken(names[made[j]], FALSE)), colon, rs[made[j]].node>>),
           names[made[j]] \in Range(obj.req)>>]
Optionals(items) == {i \in DOMAIN items : ~items[i][2]}
Minus0(a, b) == IF a > b THEN a - b ELSE 0  \* saturating_sub

(* At most one, exactly one, or at least one of the optional properties.    *)
OneProperty(items, min, max) ==
  LET optionals == SetToSortSeq(Optionals(items), <)
      only(i) == [j \in DOMAIN items |-> <<items[j][1], items[j][2] \/ j = i>>]
      Required(list) == SelectSeq(list, LAMBDA item : item[2])
  IN  IF max = None THEN [n \in DOMAIN optionals |-> only(optionals[n])]
      ELSE [n \in DOMAIN optionals |-> Required(only(optionals[n]))]
           \o (IF min = 1 THEN <<>> ELSE <<Required(items)>>)
SelectProperty(options) == select([i \in DOMAIN options |-> object_fields(options[i])])

(* Names a pattern, or the additional properties, may take.                 *)
PatternNames(obj, names, pattern) ==
  json_quote(PatternOf[pattern] \ Range(names))
AdditionalNames(obj, names, o) ==
  LET taken == json_quote(Range(names) \cup UNION {PatternOf[p] : p \in Keys(obj.pats)})
  IN  IF names = <<>> /\ obj.pats = <<>> THEN json_simple_string(o)
      ELSE json_general_unicode_string(0, None, o) \ taken
OtherItems(obj, names, ps, addl, o) ==
  FlattenSeq([i \in DOMAIN ps |->
     IF ps[i].kind # "ok" THEN <<>>
     ELSE <<join(<<lexeme(PatternNames(obj, names, obj.pats[i][1])), colon, ps[i].node>>)>>])
  \o (IF addl.kind # "ok" THEN <<>>
      ELSE <<join(<<lexeme(AdditionalNames(obj, names, o)), colon, addl.node>>)>>)
WithOthers(items, others, min, max, refs) ==
  IF others # <<>> /\ max # 0
  THEN Node(object_fields(Append(items, <<bounded_sequence(select(others), min, max), min > 0>>)), refs)
  ELSE IF min > 0 THEN Unsat(refs)
  ELSE Node(object_fields(items), refs)
ObjectNode(obj, names, rs, ps, addl, o) ==
  LET items == NamedItems(obj, names, rs)
      bad == {i \in DOMAIN names : rs[i].kind = "error"
                                   \/ (rs[i].kind = "unsat" /\ names[i] \in Range(obj.req))}
      num_required == Len(items) - Cardinality(Optionals(items))
      min == Minus0(obj.lo, num_required)
      max == IF obj.hi = None THEN None ELSE Minus0(obj.hi, num_required)
      bounded == Optionals(items) # {} /\ (min > 0 \/ max # None)
      closed == IF obj.addl = None THEN FALSE ELSE obj.addl.k = "unsat"
      refs == RefsOf(rs) \o RefsOf(ps) \o addl.refs
  IN  IF bad # {} THEN [kind |-> rs[Min(bad)].kind, refs |-> RefsOf(SubSeq(rs, 1, Min(bad)))]
      ELSE IF bounded /\ min <= 1 /\ max \in {None, 1} /\ obj.pats = <<>> /\ closed
      THEN Node(SelectProperty(OneProperty(items, min, max)), RefsOf(rs))
      ELSE IF (bounded /\ ~o.lenient) \/ "error" \in Kinds(Append(ps, addl)) THEN Error
      ELSE WithOthers(items, OtherItems(obj, names, ps, addl, o), min, max, refs)
gen_json_object(obj, o) ==
  ObjectNode(obj, NamesOf(obj),
             Each([i \in DOMAIN NamesOf(obj) |-> property_schema(obj, NamesOf(obj)[i])], o),
             Each([i \in DOMAIN obj.pats |-> obj.pats[i][2]], o), gen_json(OrAny(obj.addl), o), o)

(* Any value, defined once as a node that refers to itself.                 *)
AnyNumberSchema ==
  [min |-> None, max |-> None, xmin |-> None, xmax |-> None, integer |-> FALSE, mult |-> None]
gen_json_any == Node(new_node("json_any"), <<"json_any">>)
AnyDefinition(o) ==
  LET value == new_node("json_any")
      name == lexeme(json_simple_string(o))
  IN  select(<<lexeme({NullToken}), lexeme({BoolToken(b) : b \in BOOLEAN}),
               LexemeOfNumber(json_number(AnyNumberSchema)).node, name,
               ArrayNode([lo |-> 0, hi |-> None, prefix |-> <<>>], Node(value, <<>>), <<>>).node,
               WithOthers(<<>>, <<join(<<name, colon, value>>)>>, 0, None, <<>>).node>>)

get_definition(uri) == Node(new_node(uri), <<uri>>)
gen_json(s, o) ==
  CASE IsLexeme(s) -> regex_compile(s, o)
    [] s.k = "any" -> gen_json_any
    [] s.k = "unsat" -> Unsat(<<>>)
    [] s.k = "array" -> gen_json_array(s, o)
    [] s.k = "object" -> gen_json_object(s, o)
    [] s.k = "anyOf" -> process_any_of(s.opts, o)
    [] s.k = "oneOf" -> process_one_of(s.opts, o)
    [] s.k = "ref" -> get_definition(s.uri)
=============================================================================
