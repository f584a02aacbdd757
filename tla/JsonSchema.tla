----------------------------- MODULE JsonSchema -----------------------------
(***************************************************************************)
(* From a JSON schema document to the schema the compiler works on         *)
(* (parser/src/json/schema.rs, shared_context.rs): keywords are read in    *)
(* the order of the document, gathered up to the next in-place applicator, *)
(* and intersected.  Property names and string values are members of Str;  *)
(* a pattern or a format is the set of the members it matches.  A document *)
(* is a boolean or an ordered list of keywords; a schema that could not be *)
(* built is told by the flag "ok" of the context.                          *)
(***************************************************************************)
EXTENDS Numeric, FiniteSets, TLC

CONSTANTS
  Str,        \* strings: property names and values
  StrLen,     \* their lengths
  PatternOf,  \* the strings in which each pattern is found
  FormatOf,   \* the strings each known format allows
  MaxSize,    \* SchemaBuilderOptions::max_size
  MaxStack    \* SchemaBuilderOptions::max_stack_level

Applicators == {"const", "enum", "allOf", "anyOf", "oneOf", "$ref"}
IMPLEMENTED == Applicators \cup
  {"type", "items", "additionalItems", "prefixItems", "minItems", "maxItems",
   "properties", "additionalProperties", "patternProperties", "required",
   "minProperties", "maxProperties", "minLength", "maxLength", "pattern", "format",
   "minimum", "maximum", "exclusiveMinimum", "exclusiveMaximum", "multipleOf"}
META_AND_ANNOTATIONS == {"$defs", "title", "description"}
Unsupported == {"not", "if", "contains"}  \* known to a draft, not implemented here
is_known_keyword(k) == k \in IMPLEMENTED \cup META_AND_ANNOTATIONS \cup Unsupported
is_valid_keyword(k) == k \notin Unsupported
TYPES == <<"null", "boolean", "number", "string", "array", "object">>

(* Schemas.                                                                 *)
AnyValue == [k |-> "any"]
Unsatisfiable == [k |-> "unsat"]
Null == [k |-> "null"]
Boolean(b) == [k |-> "boolean", b |-> b]
Number(num) == [k |-> "number", num |-> num]
AnyOf(opts) == [k |-> "anyOf", opts |-> opts]
Ref(uri) == [k |-> "ref", uri |-> uri]
Literal(s) == [literal |-> TRUE, texts |-> {s}]  \* RegexAst::Literal
Regex(texts) == [literal |-> FALSE, texts |-> texts]
OrAny(s) == IF s = None THEN AnyValue ELSE s

(* The context the compilation shares: references met and defined, schemas  *)
(* counted.                                                                 *)
NewContext(doc, lenient, old) ==
  [doc |-> doc, lenient |-> lenient, old |-> old, seen |-> {}, defs |-> <<>>,
   n |-> 0, warnings |-> 0, ok |-> TRUE]
Bail(c) == [c EXCEPT !.ok = FALSE]
BailUnless(cond, c) == [c EXCEPT !.ok = @ /\ cond]
increment(c) == [c EXCEPT !.n = @ + 1, !.ok = @ /\ c.n < MaxSize]
Built(s, c) == [s |-> s, c |-> c]
Added(acc, r) == [ss |-> Append(acc.ss, r.s), c |-> r.c]
Keys(pairs) == {pairs[i][1] : i \in DOMAIN pairs}
Lookup(pairs, key) == pairs[CHOOSE i \in DOMAIN pairs : pairs[i][1] = key][2]

check_disjoint(patterns) ==
  \A p, q \in patterns : p # q => PatternOf[p] \cap PatternOf[q] = {}
property_schema(o, key) ==
  LET at == {i \in DOMAIN o.pats : key \in PatternOf[o.pats[i][1]]}
  IN  IF key \in Keys(o.props) THEN Lookup(o.props, key)
      ELSE IF at # {} THEN o.pats[Min(at)][2]
      ELSE OrAny(o.addl)

RECURSIVE is_verifiably_disjoint_from(_, _)
is_verifiably_disjoint_from(s1, s2) ==
  LET kinds == {s1.k, s2.k}
  IN  IF "unsat" \in kinds THEN TRUE
      ELSE IF kinds \cap {"any", "ref"} # {} THEN FALSE
      ELSE CASE s1.k = "boolean" /\ s2.k = "boolean" -> None \notin {s1.b, s2.b} /\ s1.b # s2.b
           [] s1.k \in {"anyOf", "oneOf"} ->
                \A i \in DOMAIN s1.opts : is_verifiably_disjoint_from(s1.opts[i], s2)
           [] s1.k \notin {"anyOf", "oneOf"} /\ s2.k \in {"anyOf", "oneOf"} ->
                \A i \in DOMAIN s2.opts : is_verifiably_disjoint_from(s1, s2.opts[i])
           [] s1.k = "string" /\ s2.k = "string" ->
                IF None \in {s1.rx, s2.rx} THEN FALSE
                ELSE s1.rx.literal /\ s2.rx.literal /\ s1.rx # s2.rx
           [] s1.k = "object" /\ s2.k = "object" ->
                \E key \in Range(s1.req) \cup Range(s2.req) :
                  is_verifiably_disjoint_from(property_schema(s1, key), property_schema(s2, key))
           [] OTHER -> s1.k # s2.k

normalize(s) ==
  IF s.k \notin {"anyOf", "oneOf"} THEN s
  ELSE LET valid == FlattenSeq([i \in DOMAIN s.opts |->
                      IF s.opts[i].k = "unsat" THEN <<>>
                      ELSE IF s.opts[i].k = s.k THEN s.opts[i].opts ELSE <<s.opts[i]>>])
       IN  IF s.k = "anyOf" /\ \E i \in DOMAIN s.opts : s.opts[i].k = "any" THEN AnyValue
           ELSE IF valid = <<>> THEN Unsatisfiable
           ELSE IF Len(valid) = 1 THEN valid[1]
           ELSE IF \A i, j \in DOMAIN valid : i < j => is_verifiably_disjoint_from(valid[i], valid[j])
                THEN AnyOf(valid)
           ELSE [s EXCEPT !.opts = valid]

-----------------------------------------------------------------------------
(* Intersection.                                                            *)
opt_max(a, b) == IF a = None THEN b ELSE IF b = None THEN a ELSE Larger(a, b)
opt_min(a, b) == IF a = None THEN b ELSE IF b = None \/ a <= b THEN a ELSE b
IntersectNumbers(n1, n2) ==
  [min |-> opt_max(n1.min, n2.min), max |-> opt_min(n1.max, n2.max),
   xmin |-> opt_max(n1.xmin, n2.xmin), xmax |-> opt_min(n1.xmax, n2.xmax),
   integer |-> n1.integer \/ n2.integer,
   mult |-> IF n1.mult = None THEN n2.mult
            ELSE IF n2.mult = None THEN n1.mult ELSE lcm(n1.mult, n2.mult)]
IntersectStrings(s1, s2) ==
  [k |-> "string", lo |-> Larger(s1.lo, s2.lo), hi |-> opt_min(s1.hi, s2.hi),
   rx |-> IF s1.rx = None THEN s2.rx
          ELSE IF s2.rx = None THEN s1.rx ELSE Regex(s1.rx.texts \cap s2.rx.texts)]
mk_object_schema(o) ==
  IF o.hi # None /\ (o.lo > o.hi \/ Cardinality(Range(o.req)) > o.hi)
  THEN Unsatisfiable ELSE o

RECURSIVE intersect(_, _, _, _), define_ref(_, _), compile_contents(_, _)
(* Both lists, one by one, the context passed along; None adds nothing.     *)
IntersectEach(ss1, ss2, c, level) ==
  FoldLeft(LAMBDA acc, i :
             Added(acc, IF ss2[i] = None THEN Built(ss1[i], acc.c)
                        ELSE intersect(ss1[i], ss2[i], acc.c, level + 1)),
           [ss |-> <<>>, c |-> c], [i \in DOMAIN ss1 |-> i])
Same(s, opts) == [i \in DOMAIN opts |-> s]
IntersectDefined(d, uri, s, ref_first, level) ==
  IF ~d.ok \/ uri \notin DOMAIN d.defs THEN Built(Unsatisfiable, Bail(d))
  ELSE intersect(IF ref_first THEN d.defs[uri] ELSE s, IF ref_first THEN s ELSE d.defs[uri],
                 d, level + 1)
intersect_ref(c, uri, s, ref_first, level) ==
  IntersectDefined(define_ref(c, uri), uri, s, ref_first, level)

(* What has no schema of its own on one side (items, additionalProperties)  *)
(* takes the other's, and none if neither has one.                          *)
Own(s1, s2) == IF s1 = None THEN s2 ELSE s1
Others(s1, s2) == IF s1 = None THEN None ELSE s2
ArrayOf(a1, a2, each) ==
  Built([k |-> "array", lo |-> Larger(a1.lo, a2.lo), hi |-> opt_min(a1.hi, a2.hi),
         prefix |-> Front(each.ss), items |-> Last(each.ss)], each.c)
IntersectArrays(a1, a2, c, level) ==
  LET n == Larger(Len(a1.prefix), Len(a2.prefix))
      padded(a) == [i \in 1 .. n |-> IF i <= Len(a.prefix) THEN a.prefix[i] ELSE OrAny(a.items)]
  IN  ArrayOf(a1, a2, IntersectEach(Append(padded(a1), Own(a1.items, a2.items)),
                                    Append(padded(a2), Others(a1.items, a2.items)), c, level))

(* Names of either side: first those of the first.                          *)
BothKeys(pairs1, pairs2) ==
  LET all == pairs1 \o SelectSeq(pairs2, LAMBDA p : p[1] \notin Keys(pairs1))
  IN  [i \in DOMAIN all |-> all[i][1]]
(* A pattern of one side only meets the additional properties of the other. *)
intersect_pattern_properties(o1, o2, key) ==
  IF key \notin Keys(o1.pats) THEN <<Lookup(o2.pats, key), o1.addl>>
  ELSE <<Lookup(o1.pats, key), IF key \in Keys(o2.pats) THEN Lookup(o2.pats, key) ELSE o2.addl>>
ObjectOf(o1, o2, names, keys, each) ==
  Built(mk_object_schema(
          [k |-> "object", props |-> [i \in DOMAIN names |-> <<names[i], each.ss[i]>>],
           pats |-> [i \in DOMAIN keys |-> <<keys[i], each.ss[Len(names) + i]>>],
           addl |-> Last(each.ss),
           req |-> o1.req \o SelectSeq(o2.req, LAMBDA r : r \notin Range(o1.req)),
           lo |-> Larger(o1.lo, o2.lo), hi |-> opt_min(o1.hi, o2.hi)]),
        BailUnless(check_disjoint(Range(keys)), each.c))
IntersectObjects(o1, o2, c, level) ==
  LET names == BothKeys(o1.props, o2.props)
      keys == BothKeys(o1.pats, o2.pats)
      pairs == [i \in DOMAIN names |-> <<property_schema(o1, names[i]), property_schema(o2, names[i])>>]
               \o [i \in DOMAIN keys |-> intersect_pattern_properties(o1, o2, keys[i])]
               \o <<<<Own(o1.addl, o2.addl), Others(o1.addl, o2.addl)>>>>
      side(n) == [i \in DOMAIN pairs |-> pairs[i][n]]
  IN  ObjectOf(o1, o2, names, keys, IntersectEach(side(1), side(2), c, level))
OptionsOf(kind, each) == Built([k |-> kind, opts |-> each.ss], each.c)
Distributed(s1, s2, kind, c, level) ==
  LET opts == IF s1.k = kind THEN s1.opts ELSE s2.opts
  IN  OptionsOf(kind, IntersectEach(IF s1.k = kind THEN opts ELSE Same(s1, opts),
                                    IF s1.k = kind THEN Same(s2, opts) ELSE opts, c, level))
Merged(s1, s2, c, level) ==
  LET kinds == {s1.k, s2.k}
      both == IF s1.k = s2.k THEN s1.k ELSE "none"
  IN  IF s1.k = "any" THEN Built(s2, c)
      ELSE IF s2.k = "any" THEN Built(s1, c)
      ELSE IF "unsat" \in kinds THEN Built(Unsatisfiable, c)
      ELSE IF "ref" \in kinds
      THEN intersect_ref(c, IF s1.k = "ref" THEN s1.uri ELSE s2.uri,
                         IF s1.k = "ref" THEN s2 ELSE s1, s1.k = "ref", level + 1)
      ELSE IF kinds \cap {"oneOf", "anyOf"} # {}
      THEN Distributed(s1, s2, IF "oneOf" \in kinds THEN "oneOf" ELSE "anyOf", c, level)
      ELSE CASE both = "null" -> Built(Null, c)
           [] both = "boolean" ->
                Built(IF s1.b = s2.b \/ s2.b = None THEN s1
                      ELSE IF s1.b = None THEN s2 ELSE Unsatisfiable, c)
           [] both = "number" -> Built(Number(IntersectNumbers(s1.num, s2.num)), c)
           [] both = "string" -> Built(IntersectStrings(s1, s2), c)
           [] both = "array" -> IntersectArrays(s1, s2, c, level)
           [] both = "object" -> IntersectObjects(s1, s2, c, level)
           [] OTHER -> Built(Unsatisfiable, c)
Normalized(r) == Built(normalize(r.s), r.c)
intersect(s1, s2, c0, level) ==
  LET c == increment(c0)
  IN  IF ~c.ok \/ level > MaxStack THEN Built(Unsatisfiable, Bail(c))
      ELSE Normalized(Merged(s1, s2, c, level))

-----------------------------------------------------------------------------
(* Keywords to schemas.  A value of an instance (const, enum) is a record   *)
(* whose field t tells its type; the properties of an object are a list.    *)
RECURSIVE compile_const(_)
compile_const(v) ==
  LET Each(vs) == [i \in DOMAIN vs |-> compile_const(vs[i])]
  IN  CASE v.t = "null" -> Null
        [] v.t = "bool" -> Boolean(v.b)
        [] v.t = "num" ->
             Number([min |-> v.n, max |-> v.n, xmin |-> None, xmax |-> None,
                     integer |-> v.n % Unit = 0, mult |-> None])
        [] v.t = "str" -> [k |-> "string", lo |-> 0, hi |-> None, rx |-> Literal(v.s)]
        [] v.t = "arr" ->
             [k |-> "array", lo |-> Len(v.items), hi |-> Len(v.items),
              prefix |-> Each(v.items), items |-> Unsatisfiable]
        [] v.t = "obj" ->
             [k |-> "object",
              props |-> [i \in DOMAIN v.kv |-> <<v.kv[i][1], compile_const(v.kv[i][2])>>],
              pats |-> <<>>, addl |-> Unsatisfiable,
              req |-> [i \in DOMAIN v.kv |-> v.kv[i][1]], lo |-> 0, hi |-> None]

(* Keywords gathered so far: a function from the keywords met to values.    *)
Get(kws, k) == IF k \in DOMAIN kws THEN kws[k] ELSE None
compile_numeric(kws, integer, c) ==
  LET min == Get(kws, "minimum")
      max == Get(kws, "maximum")
      exclusive(k, bound) ==
        IF k \notin DOMAIN kws THEN None
        ELSE IF kws[k].t = "bool" THEN IF kws[k].b THEN bound ELSE None  \* Draft 4
        ELSE kws[k].n
      of == Get(kws, "multipleOf")
      mult == IF of = None THEN None ELSE try_from(IF of < 0 THEN -of ELSE of)
  IN  Built(Number([min |-> min, max |-> max,
                    xmin |-> exclusive("exclusiveMinimum", min),
                    xmax |-> exclusive("exclusiveMaximum", max), integer |-> integer, mult |-> mult]),
            BailUnless(of # None => mult # None, c))
(* Counts must be naturals.                                                 *)
get_usize(kws, k, default) == IF k \in DOMAIN kws THEN kws[k] ELSE default
Natural(kws, ks, c) == BailUnless(\A k \in ks \cap DOMAIN kws : kws[k] \in Nat, c)
compile_string(kws, c0) ==
  LET pattern == Get(kws, "pattern")
      unknown == "format" \in DOMAIN kws /\ kws["format"] \notin DOMAIN FormatOf
      format == IF unknown THEN None ELSE Get(kws, "format")
      warned == IF ~unknown THEN c0
                ELSE IF c0.lenient THEN [c0 EXCEPT !.warnings = @ + 1] ELSE Bail(c0)
  IN  Built([k |-> "string", lo |-> get_usize(kws, "minLength", 0),
             hi |-> get_usize(kws, "maxLength", None),
             rx |-> IF pattern = None /\ format = None THEN None
                    ELSE IF pattern = None THEN Regex(FormatOf[format])
                    ELSE IF format = None THEN Regex(PatternOf[pattern])
                    ELSE Regex(PatternOf[pattern] \cap FormatOf[format])],
            Natural(kws, {"minLength", "maxLength"}, warned))

CompileEach(raws, c) ==
  FoldLeft(LAMBDA acc, raw : Added(acc, IF raw = None THEN Built(None, acc.c)
                                        ELSE compile_contents(raw, acc.c)),
           [ss |-> <<>>, c |-> c], raws)
(* items and prefixItems, and their names in drafts before 2020-12, which   *)
(* are also recognized by a list of items or by additionalItems.            *)
ArrayFrom(kws, each) ==
  Built([k |-> "array", lo |-> get_usize(kws, "minItems", 0),
         hi |-> get_usize(kws, "maxItems", None),
         prefix |-> Front(each.ss), items |-> Last(each.ss)], each.c)
compile_array(kws, c) ==
  LET listed == "items" \in DOMAIN kws /\ kws["items"].k = "list"
      old == c.old \/ listed \/ "additionalItems" \in DOMAIN kws
      prefix == IF listed THEN kws["items"].list
                ELSE IF old \/ "prefixItems" \notin DOMAIN kws THEN <<>> ELSE kws["prefixItems"]
      items == Get(kws, IF listed THEN "additionalItems" ELSE "items")
  IN  ArrayFrom(kws, CompileEach(Append(prefix, items), Natural(kws, {"minItems", "maxItems"}, c)))

(* A named property also satisfies the pattern its name matches.            *)
NamesMeetPatterns(names, pats, each) ==
  LET n == Len(names)
      matching(name) == {i \in DOMAIN pats : name \in PatternOf[pats[i]]}
  IN  [pats |-> SubSeq(each.ss, n + 1, Len(each.ss)),
       named |-> IntersectEach(SubSeq(each.ss, 1, n),
         [i \in 1 .. n |-> IF matching(names[i]) = {} THEN None ELSE each.ss[n + Min(matching(names[i]))]],
         BailUnless(check_disjoint(Range(pats)), each.c), -1)]
ObjectFrom(kws, names, pats, parts, addl) ==
  Built(mk_object_schema(
          [k |-> "object",
           props |-> [i \in DOMAIN names |-> <<names[i], parts.named.ss[i]>>],
           pats |-> [i \in DOMAIN pats |-> <<pats[i], parts.pats[i]>>], addl |-> addl.ss[1],
           req |-> get_usize(kws, "required", <<>>), lo |-> get_usize(kws, "minProperties", 0),
           hi |-> get_usize(kws, "maxProperties", None)]), addl.c)
WithAdditional(kws, names, pats, parts) ==
  ObjectFrom(kws, names, pats, parts,
             CompileEach(<<Get(kws, "additionalProperties")>>, parts.named.c))
compile_prop_map(kws, k) == get_usize(kws, k, <<>>)
compile_object(kws, c) ==
  LET props == compile_prop_map(kws, "properties")
      patterns == compile_prop_map(kws, "patternProperties")
      names == [i \in DOMAIN props |-> props[i][1]]
      pats == [i \in DOMAIN patterns |-> patterns[i][1]]
      raws == [i \in DOMAIN (props \o patterns) |-> (props \o patterns)[i][2]]
  IN  WithAdditional(kws, names, pats,
        NamesMeetPatterns(names, pats,
          CompileEach(raws, Natural(kws, {"minProperties", "maxProperties"}, c))))
compile_type(tp, kws, c0) ==
  LET c == increment(c0)
  IN  CASE tp = "null" -> Built(Null, c)
        [] tp = "boolean" -> Built(Boolean(None), c)
        [] tp \in {"number", "integer"} -> compile_numeric(kws, tp = "integer", c)
        [] tp = "string" -> compile_string(kws, c)
        [] tp = "array" -> compile_array(kws, c)
        [] tp = "object" -> compile_object(kws, c)
        [] OTHER -> Built(Unsatisfiable, Bail(c))
OneOrAny(each) == Built(IF Len(each.ss) = 1 THEN each.ss[1] ELSE AnyOf(each.ss), each.c)
compile_types(types, kws, c) ==
  OneOrAny(FoldLeft(LAMBDA acc, tp : Added(acc, compile_type(tp, kws, acc.c)),
                    [ss |-> <<>>, c |-> c], types))
compile_contents_simple(kws, c) ==
  compile_types(IF "type" \in DOMAIN kws THEN kws["type"] ELSE TYPES, kws, c)

Defined(uri, r) == [r.c EXCEPT !.defs = (uri :> r.s) @@ @]
define_ref(c, uri) ==
  IF uri \in c.seen THEN c
  ELSE IF uri \notin DOMAIN c.doc THEN Bail(c)
  ELSE Defined(uri, compile_contents(c.doc[uri], [c EXCEPT !.seen = @ \cup {uri}]))
IntersectWith(s, r) == intersect(s, r.s, r.c, 0)
apply(s, kw, c) ==
  CASE kw.k = "$ref" -> IF s.k = "any" THEN Built(Ref(kw.v), define_ref(c, kw.v))
                        ELSE intersect_ref(c, kw.v, s, FALSE, 0)
    [] kw.k = "allOf" ->
         FoldLeft(LAMBDA acc, raw : IntersectWith(acc.s, compile_contents(raw, acc.c)),
                  Built(s, c), kw.v)
    [] OTHER ->
         IntersectWith(s,
           IF kw.k = "const" THEN Built(compile_const(kw.v), c)
           ELSE IF kw.k = "enum"
           THEN Built(AnyOf([i \in DOMAIN kw.v |-> compile_const(kw.v[i])]), c)
           ELSE OptionsOf(kw.k, CompileEach(kw.v, c)))

(* The keywords gathered are compiled, always with the type, and            *)
(* intersected.                                                             *)
Emptied(r) == [s |-> r.s, c |-> r.c, kws |-> <<>>]
Flush(acc, all) ==
  IF DOMAIN acc.kws = {} THEN acc
  ELSE Emptied(IntersectWith(acc.s, compile_contents_simple(
         IF "type" \in DOMAIN all THEN ("type" :> all["type"]) @@ acc.kws ELSE acc.kws, acc.c)))
(* As it would be if nothing stood for the keywords left out.              *)
GatherAlone(kws, kw, all) == (kw.k :> kw.v) @@ kws
(* additionalProperties and items need to know the names or the number of   *)
(* the properties or items they leave out: a list that allows anything      *)
(* stands for them until, or unless, they are gathered too.                 *)
Gather(kws, kw, all) ==
  LET with == (kw.k :> kw.v) @@ kws
      True == [k |-> "bool", b |-> TRUE]
  IN  IF kw.k = "additionalProperties" /\ "properties" \in DOMAIN all \ DOMAIN kws
      THEN ("properties" :> [i \in DOMAIN all["properties"] |-> <<all["properties"][i][1], True>>]) @@ with
      ELSE IF kw.k = "items" /\ "prefixItems" \in DOMAIN all \ DOMAIN kws
      THEN ("prefixItems" :> Same(True, all["prefixItems"])) @@ with
      ELSE with
Applied(acc, kw) == Emptied(apply(acc.s, kw, acc.c))
Keyword(acc, kw, all) ==
  IF ~acc.c.ok \/ kw.k \in META_AND_ANNOTATIONS THEN acc
  ELSE IF kw.k \in Applicators THEN Applied(Flush(acc, all), kw)
  ELSE [acc EXCEPT !.kws = Gather(@, kw, all)]
compile_contents_map(keywords, c0) ==
  LET c == increment(c0)
      names == {keywords[i].k : i \in DOMAIN keywords}
      all == [k \in names |-> keywords[CHOOSE i \in DOMAIN keywords : keywords[i].k = k].v]
      checked == IF \A k \in names : is_valid_keyword(k) THEN c
                 ELSE IF c.lenient THEN [c EXCEPT !.warnings = @ + 1] ELSE Bail(c)
  IN  IF \A k \in names : k \in META_AND_ANNOTATIONS \/ ~is_known_keyword(k)
      THEN Built(AnyValue, c)
      ELSE Flush(FoldLeft(LAMBDA acc, kw : Keyword(acc, kw, all),
                          [s |-> AnyValue, c |-> checked, kws |-> <<>>], keywords), all)
compile_contents(raw, c) ==
  IF ~c.ok THEN Built(Unsatisfiable, c)
  ELSE IF raw.k = "bool" THEN Built(IF raw.b THEN AnyValue ELSE Unsatisfiable, c)
  ELSE Normalized(compile_contents_map(raw.kws, c))
build_schema(doc, lenient, old) == compile_contents(doc["#"], NewContext(doc, lenient, old))
=============================================================================
