------------------------------ MODULE FrontEnd ------------------------------
(***************************************************************************)
(* The front ends at work, one job at a time: a JSON schema document is    *)
(* built into a schema, the schema into nodes, and then each definition it *)
(* refers to; a number schema into the texts of its numbers; a repetition  *)
(* into nodes; ranges of tokens into those they leave out; and Lark        *)
(* grammars into the symbols of one grammar.                               *)
(***************************************************************************)
EXTENDS JsonMeaning, NumericMeaning, LarkFrontEnd

CONSTANTS
  Jobs,     \* bound: what is compiled
  Universe  \* bound: the values looked for among the texts of a grammar

(* Of other jobs than Lark grammars: job's field kind is "json", "number",  *)
(* "repeat" or "ranges"; stage goes from "new" to "built" and "defining",   *)
(* then to "done", or "unsat" or "error" if it failed; built is BuiltSchema.*)
vars == <<job, stage, built, made>>

Init == job \in Jobs /\ stage = "new" /\ built = None /\ made = None

(* Compiler::execute.  The schema is built first, then its root, then,      *)
(* latest first, the definitions met on the way.                            *)
BuildSchema ==
  /\ job.kind = "json" /\ stage = "new"
  /\ built' = build_schema(job.doc, job.options.lenient, job.old)
  /\ stage' = IF built'.c.ok THEN "built" ELSE "error"
  /\ UNCHANGED <<job, made>>
Due(pending, defined, uris) ==
  FoldLeft(LAMBDA acc, uri : IF uri \in Range(acc) \cup defined THEN acc ELSE Append(acc, uri),
           pending, uris)
Compiled(r) == stage' = IF r.kind = "ok" THEN "defining" ELSE r.kind
GenRoot ==
  /\ job.kind = "json" /\ stage = "built"
  /\ \E r \in {gen_json(built.s, job.options)} :
       /\ Compiled(r)
       /\ made' = IF r.kind # "ok" THEN None
                  ELSE [root |-> r.node, defs |-> <<>>, pending |-> Due(<<>>, {}, r.refs)]
  /\ UNCHANGED <<job, built>>
Definition(uri) ==
  IF uri = "json_any" THEN Node(AnyDefinition(job.options), <<>>)
  ELSE gen_json(built.c.defs[uri], job.options)
Define ==
  /\ job.kind = "json" /\ stage = "defining" /\ made.pending # <<>>
  /\ LET uri == Last(made.pending)
     IN  \E r \in {Definition(uri)} :
           /\ Compiled(r)
           /\ made' = IF r.kind # "ok" THEN made
                      ELSE [made EXCEPT !.defs = (uri :> r.node) @@ @,
                              !.pending = Due(Front(@), DOMAIN made.defs \cup {uri}, r.refs)]
  /\ UNCHANGED <<job, built>>
Finalize ==
  /\ job.kind = "json" /\ stage = "defining" /\ made.pending = <<>>
  /\ stage' = "done"
  /\ UNCHANGED <<job, built, made>>

CompileNumber ==
  /\ job.kind = "number" /\ stage = "new"
  /\ made' = NumberLexeme(job.num)
  /\ stage' = "done"
  /\ UNCHANGED <<job, built>>

Repeat ==
  /\ job.kind = "repeat" /\ stage = "new"
  /\ made' = repeat(string("x"), job.min, job.max, job.unbounded)
  /\ stage' = "done"
  /\ UNCHANGED <<job, built>>

NegateRanges ==
  /\ job.kind = "ranges" /\ stage = "new"
  /\ IF job.ranges # <<>> /\ ValidRanges(job.ranges, job.vocab)
     THEN stage' = "done" /\ made' = negated_token_ranges(job.ranges, job.vocab)
     ELSE stage' = "error" /\ UNCHANGED made
  /\ UNCHANGED <<job, built>>

Next ==
  \/ BuildSchema \/ GenRoot \/ Define \/ Finalize
  \/ CompileNumber \/ Repeat \/ NegateRanges
  \/ Read \/ CompileGrammar \/ CompileNested \/ Resolve \/ Optimize
Spec == Init /\ [][Next]_vars

-----------------------------------------------------------------------------
Done(kind) == job.kind = kind /\ stage = "done"

(* The expression of a number schema matches the texts of the numbers that  *)
(* satisfy it and no other, but for an excluded whole bound next to the     *)
(* other bound and for fractions that begin a bound's; and a schema is only *)
(* called unsatisfiable if no number satisfies it, or, where rounding moves *)
(* the bounds because multipleOf is a fraction, at most two (numeric.rs).   *)
NumberTextsExact ==
  Done("number") =>
    IF made.kind # "ok"
    THEN LET missed == {t \in CanonicalTexts : Satisfies(ValueOf(t), job.num)}
         IN  /\ made.kind = "unsat"
             /\ missed # {} => RoundedBounds(job.num) /\ Cardinality(missed) <= 2
    ELSE /\ \A t \in made.texts :
              IsDecimal(t) => Satisfies(ValueOf(t), job.num) \/ Leaked(job.num, t)
         /\ \A t \in CanonicalTexts :
              Satisfies(ValueOf(t), job.num) => t \in made.texts \/ Lost(job.num, t)

(* A schema that is built, whether its intersections were resolved or its   *)
(* references followed, has the instances that are valid against the        *)
(* document, unless an in-place applicator stands between two keywords that *)
(* need each other (schema.rs).                                             *)
SchemaMeansDocument ==
  (stage = "built" /\ ~Apart(job.doc["#"])) =>
    \A v \in Universe : Denotes(built.s, v, built.c.defs) <=> Valid(job.doc["#"], v, job.doc)

(* The grammar generates texts of instances of the schema only, and every   *)
(* instance has a text it generates, with the properties in some order; but *)
(* a name spelled with an escape is not known for the name it is, and a     *)
(* oneOf taken for an anyOf allows more (compiler.rs).                      *)
Spelled(text) == \A i \in DOMAIN text : text[i].t = "str" => ~text[i].escaped
TextOfInstance(r) ==
  /\ r.ok /\ r.rest = <<>>
  /\ NamedTwice(r.v) \/ built.s.k = "oneOf" \/ Denotes(built.s, r.v, built.c.defs)
RECURSIVE InNumbers(_)
InNumbers(v) ==
  CASE v.t = "num" -> v.n \in Numbers
    [] v.t = "arr" -> \A i \in DOMAIN v.items : InNumbers(v.items[i])
    [] v.t = "obj" -> \A i \in DOMAIN v.kv : InNumbers(v.kv[i][2])
    [] OTHER -> TRUE
HasText(v, texts, spellings) ==
  (\E t \in spellings : Len(t) <= job.tokens) => spellings \cap texts # {}
MeansSchema(texts) ==
  /\ \A t \in texts : Spelled(t) => TextOfInstance(ValueAt(t))
  /\ \A v \in Universe :
       (InNumbers(v) /\ Denotes(built.s, v, built.c.defs)) => HasText(v, texts, Written(v))
GrammarMeansSchema ==
  Done("json") => MeansSchema(Texts(made.root, made.defs, job.tokens))

(* A factored repetition matches as many items as it is asked for, and the  *)
(* negated ranges hold exactly the other tokens (grammar_builder.rs).       *)
RepetitionsExact ==
  /\ Done("repeat") =>
       {Len(t) : t \in Texts(made, <<>>, job.tokens)}
         = job.min .. (IF job.unbounded THEN job.tokens ELSE job.max)
  /\ Done("ranges") =>
       Covered(made) = (0 .. job.vocab - 1) \ Covered(job.ranges)

(* docs/json_schema.md:5: the grammar conforms to the schema, or an error   *)
(* is given.                                                                *)
Conforms ==
  Done("json") =>
    \A t \in Texts(made.root, made.defs, job.tokens) :
      \E r \in {ValueAt(t)} : NamedTwice(r.v) \/ Valid(job.doc["#"], r.v, job.doc)
=============================================================================
