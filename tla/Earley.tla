------------------------------- MODULE Earley -------------------------------
(***************************************************************************)
(* The Earley sets (rows) of the parser: prediction, completion, nullable  *)
(* symbols and the scan of a set of lexemes, as parser/src/earley/parser.rs*)
(* computes them.  The agenda is processed in one pass there; every rule   *)
(* looks at one item of the new row and at rows that are complete, so the  *)
(* result is the least set closed under the rules.  Parametric rules,      *)
(* nested grammars (gen_grammar), max_tokens and captures are left out.    *)
(* Rows are numbered from 1: row k here is row k - 1 of the code.          *)
(***************************************************************************)
EXTENDS Integers, Sequences, FiniteSets

CONSTANTS
  Symbol,      \* nonterminals and terminals
  Rule,        \* [lhs, rhs] records, empty right-hand sides included
  StartSymbol, \* Grammar::start()
  LexemeOf     \* the lexeme of each terminal

ASSUME GrammarAssumption ==
  /\ Rule \subseteq [lhs : Symbol \ DOMAIN LexemeOf, rhs : Seq(Symbol)]
  /\ DOMAIN LexemeOf \subseteq Symbol
  /\ StartSymbol \in Symbol \ DOMAIN LexemeOf
  /\ \A r \in Rule : \A i \in 1..Len(r.rhs) : r.rhs[i] # StartSymbol

Terminal == DOMAIN LexemeOf

(* set_nullable: symbols with an empty rule, and then every symbol with a   *)
(* rule of nullable symbols only, until nothing is added.                   *)
NullableSymbol ==
  LET grow[n \in Nat] ==
        IF n = 0 THEN {}
        ELSE LET known == grow[n - 1]
             IN  {s \in Symbol : \E r \in Rule :
                    r.lhs = s /\ \A i \in 1..Len(r.rhs) : r.rhs[i] \in known}
  IN  grow[Cardinality(Symbol)]

(* An item is a rule with a dot and the row it started in; empty rules are  *)
(* not stored (CSymbol.rules).                                              *)
RulesOf(s) == {r \in Rule : r.lhs = s /\ r.rhs # <<>>}
ItemAt(r, start) == [rule |-> r, dot |-> 0, start |-> start]
Complete(item)   == item.dot = Len(item.rule.rhs)
AfterDot(item)   == item.rule.rhs[item.dot + 1]
HasAfterDot(item, s) == ~Complete(item) /\ AfterDot(item) = s
AdvanceDot(item) == [item EXCEPT !.dot = item.dot + 1]

(* What processing one agenda item of row number curr adds to that row;     *)
(* sets are the rows before it.                                             *)
ConsequencesWithoutNullable(item, sets, curr) ==  \* variant: the missed case
  IF Complete(item)
  THEN IF item.start < curr
       THEN {AdvanceDot(i) :
               i \in {j \in sets[item.start] : HasAfterDot(j, item.rule.lhs)}}
       ELSE {}
  ELSE {ItemAt(r, curr) : r \in RulesOf(AfterDot(item))}

Consequences(item, sets, curr) ==
  IF Complete(item)
  THEN IF item.start < curr
       THEN {AdvanceDot(i) :
               i \in {j \in sets[item.start] : HasAfterDot(j, item.rule.lhs)}}
       ELSE {}
  ELSE {ItemAt(r, curr) : r \in RulesOf(AfterDot(item))}
         \cup (IF AfterDot(item) \in NullableSymbol THEN {AdvanceDot(item)} ELSE {})

Item == [rule : Rule, dot : Nat, start : Nat]
ProcessAgenda(base, sets, curr) ==
  LET close[items \in SUBSET Item] ==
        LET more == items \cup UNION {Consequences(i, sets, curr) : i \in items}
        IN  IF more = items THEN items ELSE close[more]
  IN  (base \cup close[base]) \cap Item

InitialItems ==
  ProcessAgenda({ItemAt(r, 1) : r \in RulesOf(StartSymbol)}, <<>>, 1)

(* scan(): the items of the last row that expect a lexeme of the set move   *)
(* over it, and the agenda of the new row is processed.                     *)
ScanItems(sets, lexemes) ==
  LET last == sets[Len(sets)]
      base == {AdvanceDot(i) : i \in {j \in last :
                 \E t \in Terminal : HasAfterDot(j, t) /\ LexemeOf[t] \in lexemes}}
  IN  ProcessAgenda(base, sets, Len(sets) + 1)

(* row_is_accepting, and the lexemes process_agenda collects for a row.     *)
AcceptingItems(items) ==
  \E i \in items : Complete(i) /\ i.rule.lhs = StartSymbol
AllowedLexemes(items) ==
  {LexemeOf[t] : t \in {u \in Terminal : \E i \in items : HasAfterDot(i, u)}}
=============================================================================
