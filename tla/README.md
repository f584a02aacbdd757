# TLA+ models of llguidance

llguidance constrains what a language model writes: given a grammar and the
tokens written so far it computes the set of tokens that may come next (the
mask). This directory holds TLA+ modules translated from its Rust code, TLC
configurations that check them on small instances, and proofs checked by TLAPS.
`PROJECT.json` maps every definition to the lines it models.

## 1. The system

| Component | State | Operations | Correct when |
|---|---|---|---|
| Lexeme automaton (`earley/regexvec.rs`) | table of states, transitions derived lazily, fuel, error flag | transition, acceptance, lowest match, next-byte hint | a state number means the same for ever; running out of fuel or states is noticed |
| Lexer (`earley/lexer.rs`) | none of its own | `advance`, `try_lexeme_end`, start states | longest match for greedy lexemes, first match for lazy ones, at every byte |
| Earley tables (`earley/grammar.rs`, `process_agenda`) | rows of items | scan, predict, complete | rows accept exactly the grammar's prefixes and words |
| Parser state (`earley/parser.rs`) | bytes, lexer stack, rows, row descriptions, caches, item budget | apply token, force bytes, speculative walks, flush, end of sequence, rollback, `compute_bias` | stacks, rows and caches are always those of a fresh parser fed the same bytes |
| Shared lexer | `Arc<Mutex<..>>` around the automaton | `with_shared`, `clone`, `deep_clone` | sessions cannot confuse or silently break each other |
| Token parser, Matcher (`tokenparser.rs`, `matcher.rs`) | tokens, bytes, stop reason, caches, token budget | consume, try, validate, rollback, masks, fast-forward | answers only depend on the tokens kept; masks are exact |
| Constraint, C interface (`constraint.rs`, `ffi.rs`, `ffi_par.rs`) | last result, error; calls in flight on a thread pool | `compute_mask`, `commit_token`, `llg_par_compute_mask` | one answer per call, a mask or an error per step |
| Stop controller (`stop_controller.rs`) | automaton state, bytes held back | `commit_token` | no byte lost, no part of a stop sequence or half a character shown |
| Token trie, slicer (`toktree.rs`, `earley/slicer.rs`) | trie in preorder; masks and tries per slice | `add_bias`, `has_valid_extensions`, `apply` | a walk over whatever tries are left finds exactly the allowed tokens |
| JSON schema compiler (`json/`) | definitions met and still to compile, cache of patterns | build a schema from a document, compile it and each definition it refers to | the grammar has texts of valid values only, and a text of every valid value; or an error |
| Lark front end (`lark/`) | names defined, in progress and compiled; nested grammars still to compile; classes of lexemes | tokens to items, items to nodes | a grammar is read as written, and means what its rules mean |
| Grammar builder, substring automaton (`grammar_builder.rs`, `substring.rs`) | nodes, caches of repetitions | join, select, repeat, negate ranges, link | the language of a node is that of its parts |
| Grammar (`earley/grammar.rs`, `from_guidance.rs`) | symbols and their rules | resolve references, expand shortcuts, optimize, find what may be empty | rewriting changes no text, capture or condition |
| Bindings, adapters, tools | conversions | | |

How they interact. A client calls a Matcher (or a Constraint), which guards a
TokenParser against panics; the TokenParser counts tokens and asks its Parser to
apply bytes and to compute masks. The Parser takes the shared lexer out of its
mutex, and drives the stacks of ParserState. A mask is computed by walking the
token trie with the parser as recognizer: the walk pushes and pops bytes
speculatively, on the same stacks as the definitive text. The stop controller is
used beside the parser, on the tokens that were chosen. Before a session the front
ends translate what it is constrained by: schemas and Lark grammars become nodes
of one builder, Lark grammars may hold or refer to further grammars, and the
nodes are lowered to symbols, which the optimizer rewrites for the parser.

What is hard here: definitive and speculative pushes share one table of rows,
which walks re-use; bytes are forced ahead of the tokens that cover them; caches
at three levels must follow rollbacks; limits cut operations short; sessions
share a lexer across threads; masks are computed on a pool and announced by a
callback. The front ends are sequential, and hard for their cases: bounds of numbers
digit by digit, keywords that change what others mean, recursive definitions to
intersect, parameters and conditions to keep through rewriting. The `hazards` of
`PROJECT.json` list these,
each with the properties aimed at it.

## 2. Modules

| Module | Models | Uses |
|---|---|---|
| `RegexVec` | states of the lexeme automaton as sets of (lexeme, residual expression); derivatives are constant functions | |
| `Lexer` | `advance()`, `try_lexeme_end()`, start states, single-byte lexemes | `RegexVec` |
| `Earley` | items, agenda, nullable symbols, scanning, acceptance | |
| `Chart` | lexer stack, rows and row descriptions, and every push, flush and rollback on them, as operators | `Lexer`, `Earley` |
| `ParserState` | the state machine: applying tokens, forcing, walks, masks and their cache, end of sequence, rollback | `Chart` |
| `Words`, `Language` | the reference language derived from the rules; the parser fed byte by byte | `Chart` |
| `Session` | abstract: what a Matcher promises, in terms of words only (constants) | |
| `Matcher` | Matcher over TokenParser over the parser, with the caches of each, budget and stop reasons; implements `Session` | `Chart`, `Words`, `Session` |
| `SharedLexer` | concurrent sessions, mutexes, the growing automaton, fuel, poison | |
| `StopController` | the stop controller with its automaton and held-back bytes | |
| `TrieBuilder` | building, sorting, filtering and laying out a trie | |
| `TokTrie` | `add_bias()` and `has_valid_extensions()`, node by node | |
| `Slicer` | the tree of slices, their masks and tries, `compute_bias()` | `TokTrie`, `TrieBuilder` |
| `ParCompute` | `llg_par_compute_mask()`: calls, pool, callback; the results of constraints | |
| `Params` | the parameter of parametric rules, expressions and conditions on it; `None` | |
| `GrammarBuilder` | nodes, joins, repetitions, token ranges, placeholders | `Params` |
| `Grammar` | nodes lowered to symbols; `expand_shortcuts()`, `optimize()`, what may be empty | `GrammarBuilder` |
| `Numeric` | number schemas: bounds, decimals and multiples, and the texts their patterns match | `Params` |
| `JsonSchema` | a document built into a schema: keywords, applicators, references, intersections | `Numeric` |
| `JsonCompile` | a schema compiled to nodes: literals, strings, arrays, objects, definitions | `JsonSchema`, `GrammarBuilder` |
| `NumericMeaning`, `JsonMeaning` | the references: what a number schema, a document and a schema say of a value, and what value a text is | `Numeric`, `JsonCompile` |
| `Substring` | the suffix automaton and the substrings it matches | |
| `LarkSyntax` | tokens of a Lark grammar to its items | `Params` |
| `LarkCompile` | items to nodes: terminals, rules and their attributes, nested grammars, classes of lexemes | `LarkSyntax`, `Substring`, `Grammar` |
| `LarkMeaning` | the reference: the least sets of texts that the rules allow | `LarkCompile` |
| `LarkFrontEnd` | the state machine from Lark grammars to an optimized grammar | `LarkMeaning` |
| `FrontEnd` | all front-end jobs | `JsonMeaning`, `NumericMeaning`, `LarkFrontEnd` |
| `Chart_proof` | what the operators of `Chart` keep and return | `Chart`, `Induction_proof` |
| `*_proof` | theorems about `ParserState` (on `Chart_proof`), `SharedLexer`, `ParCompute`, `StopController`, `Slicer` (with `TokTrie` and `TrieBuilder`) and `Matcher`; `Induction_proof` has the induction over numbers they share | |
| `MC*` | grammars, vocabularies and other values for TLC | |

How state and actions correspond to the code:

* `Chart.ParserChart` is the part of `ParserState` in `parser.rs` that pushes and
  pops change: `lexer_stack`, `rows`, `rows_valid_end`, `row_infos` and the item
  budget (`max_all_items - all_items`). `AdvanceWithin` and `AdvanceAcross` are the
  two halves of `advance_parser()`, for a lexeme that takes its last byte and for
  one whose last byte begins the next lexeme. The operand `def` is
  `scratch.definitive`.
* `ParserState` has one action per operation. Loops of the code that another
  operation cannot interrupt but that have effects worth seeing one by one
  (forcing bytes, walking the trie) are split: `ForceBytes`, `ForceByte`,
  `ForceDone`, and `BeginWalk`, `WalkByte`, `WalkPop`, `WalkEnd`, with `mode`
  saying which one is under way. A walk may take any path, so every trie and
  every query (`validate_tokens`, `is_accepting`, `chop_tokens`) is covered.
* `Matcher` makes each call one action, because a session is used by one thread
  at a time; `session` is the TokenParser's record and `reply` the last call with
  its result, the only thing `Session` sees. `bias_cache` is the parser's: a mask
  asked for where no byte is owed is taken from it if lexer state, row number and
  pending bytes are those it was computed at (`BiasKey`, `CacheHit`), and stored in it
  otherwise (`KeepBias`); `Rollback` leaves it, `InvalidateBiasCache` empties it. Its component
  `text` is not in the code: it records the text the mask was computed for, so that the
  properties can say when a mask is served for a text that a rollback has taken back
  (`ServesAbandoned`).
* `SharedLexer` splits a call wherever the code releases the mutex.
* `StopController.CommitToken` is `commit_token_u8()`, its alternatives being the
  branches of the code, the failure of its assertion among them. A stop
  expression is a finite set of byte sequences; the state of the automaton for
  `(?s:.*)`, then the expression, is the set of its partial matches and the bytes
  of the character that is incomplete, which is what the derivatives of the real
  automaton keep apart. Which of several matches ending together is reported is
  left open. `(?s:.*)` matches UTF-8 only: on a byte that does not go on as a
  character must, the automaton is dead and `assert!(!state.is_dead())` panics
  (`Panic`), after the bytes held back were taken out and while the automaton's
  mutex is locked. Those bytes are lost, and every later ordinary token panics at
  the poisoned mutex; special and stop tokens are still answered. This is what a
  Rust caller meets who catches the panic; through `llg_stop_commit_token`, which
  guards nothing, it ends the process. Without a stop expression there is no
  automaton and no panic. A character is a first byte and as many later bytes as
  it announces; bytes that occur in no character, and what UTF-8 further demands
  of the second byte, are left out of `Byte` (they kill the automaton in the
  same way).
* `TokTrie` takes one step per node visited. `Slicer` chooses the slices the lexer
  shows subsumed freely among those that are: running out of the budget makes
  any of them unknown.
* `ParCompute` leaves open what a parser answers, which steps panic, and which
  calls fail to prepare or spawn.
* `FrontEnd` compiles one `job`. `stage` is how far it has come, `built` what was read
  or built first (a schema with its definitions, or the items of the grammars)
  and `made` what was made of it (nodes and pending definitions, the compiler's
  record, or symbols). `BuildSchema`, `GenRoot`, `Define` and `Finalize` are the steps of
  `Compiler::execute()`, one `Define` per definition met; `Read`, `CompileGrammar`,
  `CompileNested`, `Resolve` and `Optimize` those of `CompileCtx::run()` down to
  `compile_grammar()`; `CompileNumber`, `Repeat` and `NegateRanges` look at one helper by
  itself. Their definitions are functions, named as in the code. The builder's
  caches of equal nodes need no state, since a node is known by what it is made
  of. Numbers are f64 in the code. `Numeric` has the bounds as exact decimals where the code
  only compares and prints them, and rounds every result to `Mantissa` binary digits where it
  computes: the search of a multiple between the bounds (`NoMultiple`), and the product with
  the base by which `Decimal::try_from` looks for the last digit of `multipleOf`
  (`WithoutPoint`). A regular expression is the set of its texts up
  to a bound, so that what the expression engine is asked for (union, complement,
  intersection, search) is set algebra; strings of a schema are members of a small
  set, of which patterns and formats select some. The order of a document's keywords is kept,
  because the code depends on it.
* The definitions of a grammar with a parameter carry it as an expression; the
  reference expands each rule for all 2^`NumBits` values, as the documentation
  describes parametric rules.

## 3. Runs

| Run | Question | Instance and why it is enough |
|---|---|---|
| `ParserParen` | Do stacks, rows and caches equal those of a fresh parser under any interleaving of operations? | nested brackets with an optional element: rows recur with other rows below; 3 bytes reach two levels, walks of 2 bytes cross a row boundary |
| `ParserLimit` | The same where the item limit strikes, with lazy and skipped lexemes, and is the mask cache right without rollback? | left-recursive list; a budget of 2 rows strikes at every point of forcing and walking; 4 bytes |
| `Language` | Does the parser accept exactly the language? | lists, nesting, lazy lexemes, an ambiguous symbol, hidden left recursion, one skipped space; all strings up to 5 bytes |
| `Matcher` | Does every sequence of calls answer as `Session`, with exact masks and harmless forced tokens? | three alternatives of which two reach the same lexer state on as many, but different, rows, so that after a rollback the bias cache answers for the abandoned one (a model without the condition `~ServesAbandoned` violates `RollbackIsUndo`, `MaskIsExact` and `CanonicalTokenAllowed`); forced bytes in each; tokens over two lexemes; budget of 3 tokens (so that it runs out), both kinds of tokenizer |
| `LexerShared` | Do concurrent sessions over shared and copied lexers stay apart? | 2 sessions, 2 mutexes, 4 automaton states with room for 3 and fuel for 3 derivatives, so that both limits strike; panics allowed |
| `Stop` | What does the stop controller show, and when? | stop sequences overlapping themselves, each other and a three-byte character; tokens that split both, or put a part of the character where none may be (the panic); 5 tokens reach every overlap of sequences of up to 4 bytes |
| `Slicer` | Are masks exact however slices overlap? | 2 vocabularies with duplicate, nested and empty words, 4 lists of slices (nested, overlapping, equal, none), all 256 languages of texts of up to 3 bytes |
| `ParCompute` | Is every parallel call answered once, at its end, with a mask or an error per step? | 2 calls over 2 constraints on 1 thread: enough for calls to overlap, queue and fail separately |
| `FrontEnd` | Do number patterns, compiled schemas, repetitions, complements of ranges, Lark grammars and optimized grammars mean what they are made from? | about 1600 jobs: every pair of lower and upper bounds at, near and across zero, whole numbers and each other; more than 50 documents with each keyword, alone, gathered, separated by applicators and through (recursive) references, strict and lenient; repetitions over both quotient and remainder of the factor 4; Lark grammars with each form of item in three ways of writing, some malformed |
| `ParserStale` | (violated) is the mask cache right after rollbacks? | 3 bytes |
| `JsonConformance` | (violated) does every text of a compiled schema hold a value the document allows? | one schema with a named and an additional property |
| `LarkParametric` | (violated) is a parametric rule as if expanded for each value? | rules whose whole body is another one |

`CHECK_DEADLOCK FALSE` is set where the model really ends: at the bound on bytes
(`Language`) or tokens (`Stop`), after the one call examined (`Slicer`), when all
sessions have failed (`LexerShared`), and when a job is compiled (`FrontEnd` and the
two runs beside it).

Bounds of the parser's modules: `MaxBytes`, `MaxWalk`, `MaxWord`, `MaxTokens`,
`MaxTokensTotal`, `MaxLexeme`,
`MaxReference` (lengths in the reference language), `MaxItemsInRow`. In `Matcher`
no byte is forced beyond a text of `MaxBytes`; the words are shorter. The reference
language takes lexemes and words only up to its bounds and assumes that every
symbol derives a word and that every lexeme that has begun can be ended. In
`Matcher` an end of sequence only ends a batch (`TidyBatches`): see below.

Bounds of the front ends: numbers have base 3, 2 digits after the point of a bound
and texts of 5 symbols (`Base`, `Frac`, `MaxText`), which is enough for a carry on both sides
of the point and a common prefix before it; `MaxInt` and `Word` stand for the widths of
64 and 32 bits and `Mantissa` for the 53 binary digits of an f64, scaled down; 8 digits
are enough for every whole number and few enough that thirds and ninths are rounded to
either side, that a multiple rounds past a bound and that a divisor has too many digits; `MaxSize` and `MaxStack` are the limits of the schema
builder, small enough for two recursive schemas to run into them when they are
intersected. Texts of schemas have 5 or, for arrays and objects that count, 9
tokens, with `Numbers` in them, and are compared with the values of `Universe`.
Parameters have 3 bits (`NumBits`): enough for a field of two bits beside a third one. Terminals have texts of up to 3
characters (`MaxChars`), rules texts of up to 6 (`MaxLength`); nesting ends at 6 (`MAX_NESTING`).

What the violated runs show (details under `findings`):

* `ParserStale`: the key of the mask cache (lexer state, row number, pending
  bytes) can recur over other rows after a rollback; the old mask is served. Run
  `Matcher` has the same cache: there `RollbackIsUndo`, `MaskIsExact` and
  `CanonicalTokenAllowed` are stated for masks that are not served for an abandoned text
  (`~ServesAbandoned`), and are not true of the program without that condition.
* `JsonConformance`: a property name spelled with an escape is not the declared name
  but an additional property, whose schema lets other values pass.
* `LarkParametric`: `x::_ : y::incr(_)` keeps the node of `y` and loses the expression, so
  that `x::0` is `y::0`.

Other places where the code does not do what one may expect, which the
properties except by name or the modules keep as they are:

* A byte carried over into a new row may complete a lazy lexeme there, in a state for
  which `lexer.rs` says "there should be no transition"; the match is not noticed.
  `NoLexemeLeftBehind` is therefore checked with greedy lexemes, and proved
  (`LexemesNoticed`) where no lazy lexeme is matched by the byte it begins with.
* Rolling back over an end-of-sequence token inside a batch does not restore the
  session: `RollbackIsUndo` is checked where it ends its batch.
* Copies made by the Python `deep_copy()`, which calls `clone()`, share a lexer and can
  run each other out of fuel; `FailsOnlyByItsFamily` counts them as one family.
* A decimal range whose excluded bound is whole still matches that bound next
  to the other one, and fractions that begin a bound's are lost (`Leaked`, `Lost` in
  `NumericMeaning`).
* Whether a multiple lies between the bounds is computed in f64: with `minimum` and
  `maximum` 0.3 and `multipleOf` 0.1 the first multiple comes out as 0.30000000000000004, the last
  as 0.2, and the schema is refused as unsatisfiable though 0.3 satisfies it.
  `NumberTextsExact` allows a refusal only if no number satisfies the schema, or if `multipleOf` is a
  fraction, both bounds are given and at most two numbers do (`RoundedBounds` in
  `NumericMeaning`). In the same way some divisors, such as 0.07, are refused as having too many
  digits (`try_from`).
* Keywords that need each other (`properties` and `additionalProperties`,
  `prefixItems` and `items`) are read apart if an in-place applicator stands between them (`Apart` in `JsonMeaning`).
* An operator after a nested grammar is dropped when its rule has `max_tokens` or a
  temperature (`LosesOperator` in `LarkMeaning`); attributes of a rule with an empty body are dropped.
* Conditional nullability takes the condition of a rule's element without
  replacing its parameter, and drops a negated constant: `NullabilityExact` is
  stated for rules that pass their parameter on as it is. The parser's completion
  of parametric items likewise ignores the argument.
* `expand_shortcuts()` asserts that a symbol it replaces is passed no parameter or its
  own; a grammar that passes it another one fails the assertion (stage `panicked`).

## 4. Fairness

Only `ParCompute` states liveness. A call goes on to its end (weak fairness of
what the library does for a call and of each step a worker has taken): the pool's
threads run, and `compute_mask()` returns, since its work is limited. A queued
step is taken in turn (strong fairness of `Take`): rayon injects the tasks of
calls in order, so that a server that keeps making calls cannot overtake a queued
one for ever; with weak fairness only, one thread could serve the other call
each time. The server itself need not do anything. All other modules check safety:
their operations are calls that return, and nothing has to happen unasked.

## 5. Proofs

All for every value of the constants, from the assumptions named beside them.

`ParserState_proof` (any grammar, vocabulary and bound): `TypeCorrect`,
`LexerBytesCorrect`, `WalksLeaveNoTrace`. The inductive invariant is
`TypeOK /\ Good(chart) /\ DefinitiveOK /\ EosEntryOK /\ PathOK`. Type correctness alone is
not inductive: a pop may leave an entry pointing beyond the rows in use. `Good`
therefore says that row numbers never decrease along the lexer stack and that the
rows in use are valid; `DefinitiveOK` that row descriptions cover the definitive
rows; `EosEntryOK` and `PathOK` tie the height of the stack to the bytes and the
walk. Lemmas of `Chart_proof` about the operators of `Chart` (what a push, a flush and a
rollback keep) carry each action.

The same module shows that the parser is always where a fresh parser would be:
`SharedRowsCoherent` and `ChartReplays`. Two facts about charts (in `Chart_proof`) carry
them. What a chart does next depends only on its lexer state and on the
items of the rows in use (`Alike`), not on row descriptions, on leftover rows or on
whether the push is definitive. And a row above those in use, which a later push may
re-use without scanning, is what a scan of the rows under it gives for the lexeme
it is kept for (`Coherent`). The invariant `RInv` adds to these that the chart is the
`Twin` (same stack, same rows in use) of a fresh chart given `bytes`, of one given
`bytes` and then `path` during a walk, and of one flushed after them when an
end-of-sequence entry is on the stack. The fresh chart is a fold over the bytes:
`PushAll` is a recursive function, and facts about it are proved by induction.

It also shows what is remembered between operations to be right.
`CachedMasksFresh`: a mask served from `bias_cache` is the current one, for a client
that does not roll back (with rollbacks it is false, as `ParserStale` shows; the
invariant `CacheOK` says that the rows the key counts have not changed since).
`ForcedBytesForced` and `ForceCacheCorrect`: a byte forced ahead was the only one, and the
text could not end there, in the chart of the bytes before it (`ForcedOK`); and if
`last_force_bytes_len` says nothing is left to force, nothing is (`ForceOK`). For the first
one needs `Tracked`: the lexer of every row only looks for lexemes that the row's
items expect, so that a byte the lexer allows leads to a row. A walk of
the whole vocabulary is represented by its bytes, of which there are finitely many
(`ByteAssumption`: bytes are u8, and the end-of-input mark is none).
`RowInfosInStep`, `RowInfosAlwaysInStep`: `row_infos` has one entry per row in use, until the
item limit strikes; there, a row begun for a single-byte lexeme whose own end then fails
at budget 0 keeps its `row_infos` entry, and `parser_error` is set.

`LexemesNoticed`: the lexer is never left in a state in which a lazy lexeme has ended, where
`forced_byte()` could not ask what comes next (`NoLexemeLeftBehind`). A row begins with every
expected lexeme at its beginning (`AtBeginning`) or after the one byte carried over, and the
other bytes come by `Advance()`, which ends the row where such a lexeme ends; a fresh
chart thus has none left (`NoneLeft`), and the parser's chart is the twin of one. The
hypothesis `NoHastyLexeme`, that no lexeme is always empty and no lazy one is matched by
its first byte, is just what the byte carried over needs, and covers the lazy lexemes that
run `ParserParen` has not; `MCParserState` has TLC evaluate it for its grammar.

`SharedLexer_proof` (any number of sessions and mutexes, any automaton):
`LexerStaysHome`, `StateIdsStayValid`, `MasksAreHealthy` from `Held`, `Holds`,
`Homes` (who holds which mutex and where the lexer is), `Taints`, `Knows` (every
known transition is between states of the table) and `Ids`; and
`FailureStaysInFamily` from `Kin`, `Blames`, `Fails` on top of it.

`ParCompute_proof` (any number of constraints, calls and workers): the callback
comes once and last (`CallbackCorrect`), and leaves masks or errors
(`MasksComplete`). The properties become inductive with `Apart` (calls in flight
share no constraint, which the interface demands of the caller) and `Done` (an
ended step has left its mask or its error).

`StopController_proof` (any bytes, tokens, stop sequences and number of tokens): all
four properties of run `Stop`, `EveryByteOnce`, `FirstMatchStops`, `NoCharacterSplit` and
`NothingHeldForLong`. `StopInv` says that, as long as it runs and has not panicked, the
automaton's state is the set of partial matches that end the text since the last reset, that what was
shown and what is held back make up the text, that no match has ended, and that no
partial match is longer than what is held back; so a match never begins in what was
shown. `CharacterInv` says that the text before the incomplete character the automaton
remembers ends between two characters, so that only a text that is not characters makes
a call panic; `EveryByteOnce` states that beside what is kept. `CharInv` adds that the
text shown ends between two characters.
`StopAssumption` types the constants; `NamesAreText` says that special tokens have
names of whole characters, and that stop sequences are strings: without it
`NoCharacterSplit` is false, since a special token inside a character would let half
of it out.

`Slicer_proof` is about tries and slices, in three parts.

The walks (any trie in preorder, any walks): `PopsFollowTrie`, `BiasIsExact` and
`ExtensionsExact`. The invariant of a walk is that the bytes pushed, once the pops that
are owed are made, are the path to the next node (`InStep`); `Leaving` shows from
`num_parents` that leaving a subtree owes just the bytes between its last node and
the next one's parent. That tokens are missed by no skip and found by no mistake
needs two hypotheses: the tries are in `Preorder` (subtrees nest, and `num_parents`
counts the subtrees a leaf ends), and what a recognizer accepts is closed under prefixes, as
what a parser accepts is.

The tries (any vocabulary and mask): `FilterTrie` shows that what `TrieBuilder` lays out is in
`Preorder`, and that the words along its paths are exactly those of the tokens in the mask, each
with its own node, words that occur twice included (`TrieOf`). Sorting gives every token a
place (`Ordered`); after each insertion the arena is a tree in which children come after their
parents, only the first of several children with the same byte has children (`ArenaOK`), and
all words inserted so far have a node (`HoldsTokens`); and the layout of a subtree, by
induction from the leaves, begins with its root, nests, and ends as many subtrees as
`num_parents` says (`Laid`).

The slicer (any vocabulary, slices, language and start): `SlicedMaskIsExact`,
`SlicerFindsExtension` and `SlicerStackIsPath`, the three properties of run `Slicer`. However
slices overlap, a slice that is applied allows outright only tokens the language allows, and each
other token of it is in one of the tries left to walk (`Covers`); `ApplyNodeCovers` and
`ApplySliceCovers` show it for a slice and for the tree. So the walks that `compute_bias()`
plans find, with the mask it starts from, just what is allowed (`PlanCovers`), and the
invariant `SlicerInv` is that the query under way is such a plan's and keeps the
invariant of its walks. Nothing is assumed of the tries any more. The
hypotheses are those of `SlicerAssumption`: words are byte sequences, languages are closed
under prefixes, and the fake token is not one of the vocabulary; that there is one top slice
is asserted by the code and part of `Init`.

`Matcher_proof` (any grammar, tokens, tokenizer, batches and budget): `CachesAlwaysFresh`,
whatever is consumed, tried, forced, rolled back or asked, and `BudgetAlwaysKept`. The
invariant `SessionFresh` says of a live session that it is `Sane` (it has a chart, the bytes
applied are bytes of its text, the lexer stack has an entry per byte) and that what is
cached is what would be computed now (`AcceptingFresh`, `TokensFresh`). The latter
needs that forcing bytes twice forces none the second time, which is where
`last_force_bytes_len` matters; and each call is followed through its loops (bytes of a
token, tokens of a batch, forced bytes) by the operator that the loop repeats.

The same module shows that rolling back undoes (`RollbackUndoes`) and what a mask is
(`MaskFromText`), with the bias cache that a rollback leaves as it was. The invariant
`BiasKept` says that the cache has the key and the walked mask of a new parser given the text it was
filled at. A mask served from it is therefore the walked one if that text is a prefix of the
session's (`MaskServed`): rows are only added as a text grows, so with as many rows they are
the same rows, and with the lexer state they decide the walk. Else it is the mask of an abandoned text, whose tokens `MaskFromText` names, and
which `RollbackIsUndo`, `MaskIsExact` and `CanonicalTokenAllowed` except by `~ServesAbandoned`.

The invariant `SessionTold` says what a session knows of its text
(`Told`): its bytes are accepted by a fresh parser, and its chart is that parser's, with
a flushed lexeme on top if an end of sequence was taken; the applied bytes are those of
its tokens; the others were each the only byte possible (`ForcedAt`), and if
`last_force_bytes_len` says so nothing is left to force (`End`). Two sessions of the same
tokens need not have the same bytes, since one may have forced ahead and the other
not; once both have forced they do, as forced bytes are unique, and then their charts
are twins and their masks equal. Without a canonical tokenizer the mask is that of a
fresh parser after the text: a token that begins with the bytes forced ahead is accepted
there exactly if its rest is accepted beyond them, a token that they begin with always, and
one that parts from them never. The hypothesis `Tidy`, that an end of sequence only ends a
batch, is what the code counts on ("doesn't count; we hope it's last though",
`tokenparser.rs`), and what run `Matcher` does (`TidyBatches`); without it `RollbackIsUndo`
is false. With a canonical tokenizer a forced token is the whole mask, and the bytes of
chopped tokens are its prefix; `RollbackUndoes` covers that too.

On this rests the refinement of `Session` (`MatcherKeepsPromise`: `Spec => KeepsPromise`).
`Session` knows words, not parsers: what may follow a text, when it is finished, how many
tokens of a batch are taken, what is forced. The gap between the two is the parser's
decision of the language from the beginning of a text, which is an induction over derivations
and stays with run `Language`; it is the hypothesis `ParserDecides`, of a *fresh* parser
only. That no order of calls (forcing ahead, refused tokens, rollbacks, a stop taken back,
cached answers) makes a session answer otherwise than that parser is what the theorem says. Two more
hypotheses are about the grammar and the vocabulary: `NeverStuck`, that a text that is
no word has a token that continues it, and `BytesAreTokens`, that every byte is one;
without them the code stops with an error where `Session` goes on, which is what it is
written to do (`NoExtensionBias`). The fourth, `EmptyMaskIsRight`, is what the bias cache needs: an
empty mask ends a session, and one served for an abandoned text must not do so where the
text is no word. No text has the same key as one that no token can follow, unless it is a word
itself. A mask that is wrong otherwise changes no answer of a later call, only the mask. `MCMatcher` has TLC evaluate all of them
for its grammar. The invariant is `SessionPromised`: `SessionTold`, and a session that
is stopped has a finished text (`Concluded`; `CheckStop` stops it exactly there, `StopsRight`).
Each call has a lemma that it keeps this and is the step of `Session` of its name with the
same reply (`ConsumePromised`, ...): tokens are applied one by one, so a batch is followed to the
first token refused, and a rollback by the counts of the tokens that are left (`RollbackOk`).
The proof settled a doubt about `Session` itself: in an earlier form the reply to a
query was a `CASE` with guards that overlapped, so that a failed session might have
answered either way; and batches may be empty.

From the same hypotheses `MaskAlwaysExact` (for masks not served for an abandoned text): the mask of a running session
is never empty, allows
only tokens that continue to a word, and all of them unless a token is forced (`MaskRight`; a
chopped prefix drops only tokens that part from the bytes forced). And
`CanonicalTokenNeverMasked`: if the words are divided greedily and the session holds the first
tokens of one, the next one is in the mask. Here `chop_tokens()` must take back every forced token
that a longer one could replace; it looks at the last `MaxTokenLookback` tokens
only, and `LooksBackEnough` says that no token begins with more tokens than that (`ChopsAll`,
`NextTokenAllowed`).

Induction. The provers cannot instantiate the library's induction rules, which take
an operator. `Induction_proof` derives from the well-foundedness of the numbers that a
set of numbers has a least element, and with it inductions are arguments about the least
counterexample; folds that are reasoned about are recursive functions over numbers.

Only model-checked: liveness (out of the prover's reach, as is ENABLED); everything in
the front ends, whose modules use RECURSIVE operators or bit operations
and therefore hold no theorem; that the Earley closure and the reference language agree
(`Language`), which is an induction over derivations.

## 6. Not modelled, and the plan

Left out: in the parser captures, `max_tokens`, `stop=`/`suffix=` and the backtracking
they need, parametric items and token ranges; prompts and progress reports; the
conversions of the C and Python interfaces. In the front ends the lexer of Lark
grammars, the regular-expression engine, formats and URIs of JSON schemas, the limits on
the size of a grammar, warnings, and reading requests. The bit widths of trie nodes are asserted by
the code and not modelled. In `ParserState` a token is applied only if no
end-of-sequence entry is on the stack; `Matcher` covers end-of-sequence tokens
that end a call. `compute_bias()` itself also allows the end of the sequence where a lexeme
ends with one (`lexer_allows_eos()`), takes out the token that marks special ones and adds
the tokens of token ranges; the models have no such lexemes, tokens or ranges. Copies of a
stop controller share its automaton and the mutex around it, so that a panic of one
poisons the others; `StopController` is one of them by itself.

Done: parser core (`Chart`, `ParserState`, `Language`), Matcher against Session,
shared lexer, stop controller, tries and slicer, parallel masks; the front ends
(`FrontEnd` and the modules below it) against reference meanings.

Next, in this order:

1. `Constraint` over the TokenParser of `Matcher`: fast-forward tokens, prompts
   (`process_prompt`), pending stop; abstract specification: the tokens returned
   by commits are the session's text.
2. Hidden stop suffixes, captures and backtracking in `Chart` and `ParserState`:
   which bytes are taken back, and what a capture holds (`start_byte_idx`); items
   with parameters, from the symbols `Grammar` makes.
3. Token sets with word width; numbering and merging of lexemes.
4. Proofs: that the rows of `Chart` hold the items a derivation of the text needs, and no
   others, for grammars in a normal form; today this is run `Language`'s.
