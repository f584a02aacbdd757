---------------------------- MODULE LarkFrontEnd ----------------------------
(***************************************************************************)
(* Lark grammars on their way to the parser (parser/src/lark/compiler.rs,  *)
(* parser/src/earley/from_guidance.rs).  The grammars of a job are read;   *)
(* each is compiled and then, one at a time, the grammars nested in it;    *)
(* then the references between them are resolved and the result is         *)
(* optimized.                                                              *)
(***************************************************************************)
EXTENDS LarkMeaning

VARIABLES
  job,    \* of kind "lark": the field grammars is a sequence of records of a
          \* name, tokens, and the items they were written from
  stage,  \* "new", "compiling", "resolved", "done", "panicked" or "error"
  built,  \* the items read
  made    \* the state of the compiler and the start of every grammar; then
          \* the symbols of the grammar

(* CompileCtx::run: what can be refused before anything is compiled.        *)
Named(grammars) == {i \in DOMAIN grammars : grammars[i].name # None}
DuplicateNames(grammars) == \E i, j \in Named(grammars) : i # j /\ grammars[i].name = grammars[j].name
Read ==
  /\ job.kind = "lark" /\ stage = "new"
  /\ built' = FoldLeft(LAMBDA acc, g : Append(acc, parse_lark(g.tokens)), <<>>, job.grammars)
  /\ IF job.grammars # <<>> /\ ~DuplicateNames(job.grammars) /\ \A i \in DOMAIN built' : built'[i].ok
     THEN stage' = "compiling" /\ made' = [c |-> NewCompiler, starts |-> <<>>]
     ELSE stage' = "error" /\ UNCHANGED made
  /\ UNCHANGED job

(* run_one, up to the nested grammars.                                      *)
CompileGrammar ==
  /\ job.kind = "lark" /\ stage = "compiling"
  /\ made.c.pending = <<>> /\ Len(made.starts) < Len(built)
  /\ \E r \in {compile_lark(built[Len(made.starts) + 1].v, made.c)} :
       IF r.ok THEN made' = [c |-> r.at, starts |-> Append(made.starts, r.v)] /\ UNCHANGED stage
       ELSE stage' = "error" /\ UNCHANGED made
  /\ UNCHANGED <<job, built>>
CompileNested ==
  /\ job.kind = "lark" /\ stage = "compiling" /\ made.c.pending # <<>>
  /\ LET next == Head(made.c.pending)
     IN  \E r \in {compile_nested(next.inner, made.c)} :
           IF r.ok
           THEN /\ made' = [made EXCEPT !.c = link_gen_grammar(next.node, r.v,
                              [r.at EXCEPT !.pending = @ \o Tail(made.c.pending)])]
                /\ UNCHANGED stage
           ELSE stage' = "error" /\ UNCHANGED made
  /\ UNCHANGED <<job, built>>

Roots ==
  FoldLeft(LAMBDA acc, i : (job.grammars[i].name :> made.starts[i]) @@ acc, <<>>,
           SelectSeq([i \in DOMAIN made.starts |-> i], LAMBDA i : job.grammars[i].name # None))
Resolve ==
  /\ job.kind = "lark" /\ stage = "compiling"
  /\ made.c.pending = <<>> /\ Len(made.starts) = Len(built)
  /\ \E r \in {resolve_grammar_refs(made.c, Roots)} :
       IF r.ok THEN stage' = "resolved" /\ made' = Lowered(made.starts[1], r.at.defs)
       ELSE stage' = "error" /\ UNCHANGED made
  /\ UNCHANGED <<job, built>>
(* compile_grammar: an assertion of the optimizer may fail.                 *)
Optimize ==
  /\ job.kind = "lark" /\ stage = "resolved"
  /\ made' = optimize(made)
  /\ stage' = IF made' = Panicked THEN "panicked" ELSE "done"
  /\ UNCHANGED <<job, built>>

-----------------------------------------------------------------------------
(* Reading a grammar as it is written gives the items it was written from,  *)
(* and what is not a grammar is refused (lark/parser.rs).                   *)
LarkReadBack ==
  (job.kind = "lark" /\ stage # "new") =>
    \A i \in DOMAIN built :
      IF job.grammars[i].items = None THEN ~built[i].ok
      ELSE built[i].ok /\ built[i].v = job.grammars[i].items

(* Between the lexemes of a grammar the texts it ignores are skipped,       *)
(* whichever grammar's class it shares; and the optimized grammar is well   *)
(* formed and generates the texts the items mean, captures at the same      *)
(* places.                                                                  *)
SkipsIgnored ==
  \A i \in DOMAIN made.starts :
    LET start == made.starts[i]
    IN  made.c.classes[ClassOfRoot(start, made.c)].texts = SkippedTexts(built[i].v)
GrammarMeansLark ==
  /\ (job.kind = "lark" /\ stage = "compiling") => SkipsIgnored
  /\ (job.kind = "lark" /\ stage = "done" /\ \A i \in DOMAIN built : ~Loses(built[i].v)) =>
       WellFormed(made) /\ Generated(made, MaxLength) = Meaning(job.grammars)

(* docs/parametric.md:6-8: a parametric rule is treated as if it was        *)
(* expanded for each value of its parameter.                                *)
LarkAsExpanded ==
  (job.kind = "lark" /\ stage = "done") => Generated(made, MaxLength) = Meaning(job.grammars)

(* A symbol is taken for one that may be empty, for a value of its          *)
(* parameter, exactly if it generates the empty text then (set_nullable and *)
(* set_cond_nullable of earley/grammar.rs); if all that it may be made of   *)
(* and that may be empty for some values is passed the same parameter, and  *)
(* no condition negates a constant.                                         *)
Uncaptured(g) == [s \in DOMAIN g |-> [g[s] EXCEPT !.capture = {}]]
RECURSIVE NegatesTrue(_), Within(_, _)
NegatesTrue(c) ==
  CASE c.c = "not" -> c.a = Always \/ NegatesTrue(c.a)
    [] c.c \in {"and", "or"} -> NegatesTrue(c.a) \/ NegatesTrue(c.b)
    [] OTHER -> FALSE
Elements(sym) == UNION {Range(sym.rules[i].rhs) : i \in DOMAIN sym.rules}
Within(g, S) ==
  LET more == {e[1] : e \in UNION {Elements(g[s]) : s \in S}} \ S
  IN  IF more = {} THEN S ELSE Within(g, S \cup more)
SameParameter(g, null_cond, S) ==
  \A s \in S :
    /\ \A i \in DOMAIN g[s].rules : ~NegatesTrue(g[s].rules[i].cond)
    /\ \A e \in Elements(g[s]) : null_cond[e[1]] # {} => e[2] = SelfRef
NullableExactly(g, nulls, texts) ==
  \A s \in DOMAIN g : SameParameter(g, nulls.null_cond, Within(g, {s})) =>
    \A m \in 0 .. ParamValues(g[s]) - 1 :
      (s \in nulls.nullable \/ Holds(nulls.null_cond[s], m)) <=> <<>> \in texts[s][m + 1]
NullabilityExact ==
  (job.kind = "lark" /\ stage = "done") =>
    NullableExactly(made, from_grammar(made), AllGenerated(Uncaptured(made), 0))
=============================================================================
