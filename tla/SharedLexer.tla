----------------------------- MODULE SharedLexer ----------------------------
(***************************************************************************)
(* Sessions (Parser, parser/src/earley/parser.rs) that share a lexer: it   *)
(* sits in an Arc<Mutex<Box<SharedState>>>, clone() shares the mutex and   *)
(* deep_clone() copies its content.  with_shared() takes the lexer out of  *)
(* the mutex for the length of an operation; the operation extends the     *)
(* lazily built automaton (RegexVec) and uses up its fuel.  A panic inside *)
(* the operation poisons the mutex and loses the lexer.  Each session is   *)
(* used by one thread at a time; different sessions run concurrently.      *)
(***************************************************************************)
EXTENDS Integers, Sequences, FiniteSets

CONSTANTS
  Session,
  Mutexes,   \* the mutexes that may come to exist
  Descr,     \* state descriptors: sets of lexemes with residuals
  Letter,    \* the bytes
  Start,     \* the descriptor of the initial state
  Dead,      \* the empty descriptor: no lexeme goes on
  Step,      \* the descriptor after a byte: Step[<<d, l>>]
  StepFuel,  \* limits.step_lexer_fuel, in derivatives
  MaxStates, \* limits.max_lexer_states
  SharedClones, \* does the client use clone() (or only deep_clone())?
  Panics,    \* may an operation panic?
  Nobody

ASSUME SharedLexerAssumption ==
  /\ Nobody \notin Session /\ Nobody \notin Mutexes
  /\ Start \in Descr /\ Dead \in Descr
  /\ Step \in [Descr \X Letter -> Descr]
  /\ StepFuel \in Nat /\ MaxStates \in Nat
  /\ SharedClones \in BOOLEAN /\ Panics \in BOOLEAN

VARIABLES
  mutex,    \* the mutex of each session; Nobody before the session exists
  family,   \* history: the session that clone() began from
  pc,       \* what each session is doing
  cur,      \* the automaton state of each session, an index into the table
  meaning,  \* history: the descriptor each session's bytes lead to
  tainted,  \* history: has the mask in the making met a lexer in error?
  owner,    \* who holds each mutex
  home,     \* is the lexer in the mutex (lexer_opt)?
  poisoned, \* did a holder panic?
  table,    \* state_descs of each lexer
  known,    \* the transitions in its state_table
  fuel,     \* what is left of its fuel
  error,    \* has_error()
  blame     \* history: the session that broke the lexer, or inherited it broken

sessionVars == <<mutex, family, pc, cur, meaning, tainted>>
lockVars  == <<owner, home, poisoned>>
lexerVars == <<table, known, fuel, error>>
vars == <<sessionVars, lockVars, lexerVars, blame>>

(* compute_mask() computes the bias, looks for an error and asks whether    *)
(* the text may end; consume_token() looks for an error and applies the     *)
(* token.  Each phase locks the mutex anew.                                 *)
Phase == {"none", "idle", "bias", "bias_locked", "bias_check",
          "apply_check", "apply", "apply_locked", "failed"}
Holding(s) == pc[s] \in {"bias_locked", "apply_locked"}
Goto(s, phase) == pc' = [pc EXCEPT ![s] = phase]

IdOf(states, d) == CHOOSE i \in 1..Len(states) : states[i] = d
HasId(states, d) == \E i \in 1..Len(states) : states[i] = d

Init ==
  \E s \in Session, m \in Mutexes :
    /\ mutex = [t \in Session |-> IF t = s THEN m ELSE Nobody]
    /\ family = [t \in Session |-> t]
    /\ pc = [t \in Session |-> IF t = s THEN "idle" ELSE "none"]
    /\ cur = [t \in Session |-> 1] /\ meaning = [t \in Session |-> Start]
    /\ tainted = [t \in Session |-> FALSE]
    /\ owner = [n \in Mutexes |-> Nobody]
    /\ home = [n \in Mutexes |-> n = m] /\ poisoned = [n \in Mutexes |-> FALSE]
    /\ table = [n \in Mutexes |-> IF n = m THEN <<Start>> ELSE <<>>]
    /\ known = [n \in Mutexes |-> {}]
    /\ fuel = [n \in Mutexes |-> StepFuel]
    /\ error = [n \in Mutexes |-> FALSE]
    /\ blame = [n \in Mutexes |-> Nobody]

-----------------------------------------------------------------------------
(* A new session from an old one.  deep_clone() locks the mutex of the old  *)
(* one to copy its content.                                                 *)

Adopt(s, t, m) ==
  /\ pc[s] = "idle" /\ pc[t] = "none"
  /\ mutex' = [mutex EXCEPT ![t] = m]
  /\ Goto(t, "idle")
  /\ cur' = [cur EXCEPT ![t] = cur[s]]
  /\ meaning' = [meaning EXCEPT ![t] = meaning[s]]
  /\ tainted' = [tainted EXCEPT ![t] = FALSE]

Clone(s, t) ==
  /\ SharedClones
  /\ Adopt(s, t, mutex[s])
  /\ family' = [family EXCEPT ![t] = family[s]]
  /\ UNCHANGED <<lockVars, lexerVars, blame>>

(* Variants: a deep clone that shares the mutex after all; one that starts  *)
(* over with an empty automaton.                                            *)
DeepCloneThatShares(s, t, m) ==
  /\ Adopt(s, t, mutex[s])
  /\ family' = [family EXCEPT ![t] = t]
  /\ UNCHANGED <<lockVars, lexerVars, blame>>
DeepCloneThatForgets(s, t, m) ==
  /\ \A u \in Session : mutex[u] # m
  /\ Adopt(s, t, m)
  /\ family' = [family EXCEPT ![t] = t]
  /\ owner[mutex[s]] = Nobody /\ ~poisoned[mutex[s]]
  /\ home' = [home EXCEPT ![m] = TRUE]
  /\ table' = [table EXCEPT ![m] = <<Start>>]
  /\ UNCHANGED <<owner, poisoned, known, fuel, error, blame>>

DeepClone(s, t, m) ==
  /\ \A u \in Session : mutex[u] # m
  /\ Adopt(s, t, m)
  /\ family' = [family EXCEPT ![t] = t]
  /\ owner[mutex[s]] = Nobody /\ ~poisoned[mutex[s]]
  /\ home'  = [home EXCEPT ![m] = home[mutex[s]]]
  /\ table' = [table EXCEPT ![m] = table[mutex[s]]]
  /\ known' = [known EXCEPT ![m] = known[mutex[s]]]
  /\ fuel'  = [fuel EXCEPT ![m] = fuel[mutex[s]]]
  /\ error' = [error EXCEPT ![m] = error[mutex[s]]]
  /\ blame' = [blame EXCEPT ![m] = IF blame[mutex[s]] = Nobody THEN Nobody ELSE t]
  /\ UNCHANGED <<owner, poisoned>>
-----------------------------------------------------------------------------
(* with_shared(): lock, take the lexer, work, put it back, unlock.  Locking *)
(* a poisoned mutex panics; the caller turns that into an error.            *)

Lock(s, from, to) ==
  /\ pc[s] = from
  /\ owner[mutex[s]] = Nobody
  /\ IF poisoned[mutex[s]] THEN Goto(s, "failed") /\ UNCHANGED <<owner, home>>
     ELSE /\ owner' = [owner EXCEPT ![mutex[s]] = s]
          /\ home' = [home EXCEPT ![mutex[s]] = FALSE]
          /\ Goto(s, to)
  /\ UNCHANGED poisoned

(* Variant: an early return that leaves the lexer in the session.           *)
UnlockWithoutLexer(s, to) ==
  /\ owner' = [owner EXCEPT ![mutex[s]] = Nobody]
  /\ Goto(s, to)
  /\ UNCHANGED <<home, poisoned>>

Unlock(s, to) ==
  /\ owner' = [owner EXCEPT ![mutex[s]] = Nobody]
  /\ home' = [home EXCEPT ![mutex[s]] = TRUE]
  /\ Goto(s, to)
  /\ UNCHANGED poisoned

Panic(s) ==
  /\ Panics /\ Holding(s)
  /\ owner' = [owner EXCEPT ![mutex[s]] = Nobody]
  /\ poisoned' = [poisoned EXCEPT ![mutex[s]] = TRUE]
  /\ blame' = [blame EXCEPT ![mutex[s]] = s]
  /\ Goto(s, "failed")
  /\ UNCHANGED <<mutex, family, cur, meaning, tainted, home, lexerVars>>

(* get_error() locks only to look.                                          *)
CheckError(s, from, to) ==
  /\ pc[s] = from
  /\ owner[mutex[s]] = Nobody
  /\ Goto(s, IF poisoned[mutex[s]] \/ error[mutex[s]] THEN "failed" ELSE to)
  /\ UNCHANGED <<mutex, family, cur, meaning, tainted, lockVars, lexerVars, blame>>

(* RegexVec::transition(): a transition that is not in the table is derived *)
(* at the cost of fuel, and may add a state; when the fuel or the number of *)
(* states runs out the lexer enters an error state, and stays in it.  The   *)
(* derivation cut short by the fuel may lead to a wrong state.              *)
(* Variant: a subtraction that does not saturate at zero.                   *)
DeriveUnsaturated(s, l, target) ==
  LET m == mutex[s]
  IN  /\ <<cur[s], l>> \notin known[m]
      /\ target = Step[<<table[m][cur[s]], l>>]
      /\ table' = [table EXCEPT ![m] = IF HasId(@, target) THEN @ ELSE Append(@, target)]
      /\ known' = [known EXCEPT ![m] = @ \cup {<<cur[s], l>>}]
      /\ fuel' = [fuel EXCEPT ![m] = @ - 2]
      /\ UNCHANGED <<error, blame>>

Derive(s, l, target) ==
  LET m == mutex[s]
      d == table[m][cur[s]]
      full == HasId(table[m], target)
  IN  /\ <<cur[s], l>> \notin known[m]
      /\ target = Step[<<d, l>>] \/ (fuel[m] <= 1 /\ target \in Descr)
      /\ table' = [table EXCEPT ![m] = IF full THEN @ ELSE Append(@, target)]
      /\ known' = [known EXCEPT ![m] = @ \cup {<<cur[s], l>>}]
      /\ fuel' = [fuel EXCEPT ![m] = IF @ = 0 THEN 0 ELSE @ - 1]
      /\ error' = [error EXCEPT ![m] = fuel'[m] = 0 \/ Len(table'[m]) >= MaxStates]
      /\ blame' = [blame EXCEPT ![m] = IF error'[m] THEN s ELSE @]
Lookup(s, l) ==
  /\ <<cur[s], l>> \in known[mutex[s]]
  /\ UNCHANGED <<lexerVars, blame>>
NextId(s, l, target) == IdOf(table'[mutex[s]], target)
-----------------------------------------------------------------------------
(* compute_mask().                                                          *)

BeginMask(s) ==
  /\ pc[s] = "idle"
  /\ Goto(s, "bias")
  /\ UNCHANGED <<mutex, family, cur, meaning, tainted, lockVars, lexerVars, blame>>

(* Variant: refuelling gives a lexer in error another chance.               *)
LockBiasAndRecover(s) ==
  /\ Lock(s, "bias", "bias_locked")
  /\ fuel' = [fuel EXCEPT ![mutex[s]] = StepFuel]
  /\ error' = [error EXCEPT ![mutex[s]] = FALSE]
  /\ tainted' = [tainted EXCEPT ![s] = FALSE]
  /\ UNCHANGED <<mutex, family, cur, meaning, table, known, blame>>

LockBias(s) ==
  /\ Lock(s, "bias", "bias_locked")
  /\ fuel' = [fuel EXCEPT ![mutex[s]] =
                IF poisoned[mutex[s]] \/ error[mutex[s]] THEN @ ELSE StepFuel]
  /\ tainted' = [tainted EXCEPT ![s] = FALSE]
  /\ UNCHANGED <<mutex, family, cur, meaning, table, known, error, blame>>

(* A byte of the walk of the token trie, from the current state.            *)
WalkByte(s, l) ==
  /\ pc[s] = "bias_locked"
  /\ \/ error[mutex[s]] /\ UNCHANGED <<lexerVars, blame>>
     \/ ~error[mutex[s]] /\ Lookup(s, l)
     \/ ~error[mutex[s]] /\ \E d \in Descr : Derive(s, l, d)
  /\ tainted' = [tainted EXCEPT ![s] = @ \/ error'[mutex[s]]]
  /\ UNCHANGED <<mutex, family, pc, cur, meaning, lockVars>>

UnlockBias(s) ==
  /\ pc[s] = "bias_locked"
  /\ Unlock(s, "bias_check")
  /\ UNCHANGED <<mutex, family, cur, meaning, tainted, lexerVars, blame>>

EndMask(s) == CheckError(s, "bias_check", "idle")
-----------------------------------------------------------------------------
(* consume_token().  In an error state no byte leads anywhere.              *)

BeginApply(s) ==
  /\ pc[s] = "idle"
  /\ Goto(s, "apply_check")
  /\ UNCHANGED <<mutex, family, cur, meaning, tainted, lockVars, lexerVars, blame>>

CheckApply(s) == CheckError(s, "apply_check", "apply")

LockApply(s) ==
  /\ Lock(s, "apply", "apply_locked")
  /\ UNCHANGED <<mutex, family, cur, meaning, tainted, lexerVars, blame>>

ApplyByte(s, l) ==
  /\ pc[s] = "apply_locked"
  /\ \/ /\ error[mutex[s]]
        /\ Unlock(s, "failed")
        /\ UNCHANGED <<cur, meaning, lexerVars, blame>>
     \/ /\ ~error[mutex[s]]
        /\ Step[<<meaning[s], l>>] # Dead   \* the client follows the mask
        /\ \E d \in Descr :
             /\ \/ d = Step[<<table[mutex[s]][cur[s]], l>>] /\ Lookup(s, l)
                \/ Derive(s, l, d)
             /\ cur' = [cur EXCEPT ![s] = NextId(s, l, d)]
             /\ Unlock(s, IF d = Dead THEN "failed" ELSE "idle")
        /\ meaning' = [meaning EXCEPT ![s] = Step[<<meaning[s], l>>]]
  /\ UNCHANGED <<mutex, family, tainted>>

Next ==
  \/ \E s, t \in Session : Clone(s, t)
  \/ \E s, t \in Session, m \in Mutexes : DeepClone(s, t, m)
  \/ \E s \in Session :
       \/ BeginMask(s) \/ LockBias(s) \/ UnlockBias(s) \/ EndMask(s)
       \/ BeginApply(s) \/ CheckApply(s) \/ LockApply(s)
       \/ Panic(s)
       \/ \E l \in Letter : WalkByte(s, l) \/ ApplyByte(s, l)

Spec == Init /\ [][Next]_vars
-----------------------------------------------------------------------------
Live == {s \in Session : pc[s] # "none"}

TypeOK ==
  /\ mutex \in [Session -> Mutexes \cup {Nobody}]
  /\ family \in [Session -> Session]
  /\ pc \in [Session -> Phase]
  /\ cur \in [Session -> Nat \ {0}] /\ meaning \in [Session -> Descr]
  /\ tainted \in [Session -> BOOLEAN]
  /\ owner \in [Mutexes -> Session \cup {Nobody}]
  /\ home \in [Mutexes -> BOOLEAN] /\ poisoned \in [Mutexes -> BOOLEAN]
  /\ table \in [Mutexes -> Seq(Descr)]
  /\ known \in [Mutexes -> SUBSET ((Nat \ {0}) \X Letter)]
  /\ fuel \in [Mutexes -> Nat] /\ error \in [Mutexes -> BOOLEAN]
  /\ blame \in [Mutexes -> Session \cup {Nobody}]
  /\ \A s \in Session : pc[s] # "none" <=> mutex[s] \in Mutexes

(* The lexer is in its mutex whenever somebody could look for it: it is out *)
(* only while the one session that holds the mutex works on it, and for     *)
(* ever once that session has panicked; then the mutex refuses everybody.   *)
(* The unwrap() in lexer_mut() and the assertion in with_shared() rest on   *)
(* this.                                                                    *)
LexerAtHome ==
  \A s \in Live :
    LET m == mutex[s]
    IN  /\ owner[m] = Nobody /\ ~poisoned[m] => home[m]
        /\ Holding(s) => owner[m] = s /\ ~home[m]
        /\ owner[m] # Nobody => Holding(owner[m]) /\ mutex[owner[m]] = m

(* The automaton's states are numbered in the order the sessions discover   *)
(* them, so a number means nothing outside the lexer that gave it out.  As  *)
(* long as a lexer is healthy, the number each session holds stands for     *)
(* what that session's own bytes lead to, whatever the sessions that share  *)
(* the lexer, and the lexer it was copied from, have added.                 *)
StateIdsValid ==
  \A s \in Live :
    ~error[mutex[s]] /\ pc[s] # "failed" =>
      /\ cur[s] \in 1..Len(table[mutex[s]])
      /\ table[mutex[s]][cur[s]] = meaning[s]

(* A mask handed out was computed by a healthy lexer throughout: running    *)
(* out of fuel or states in the middle of the walk, by this session or by   *)
(* one that shares its lexer, is noticed after the walk, for nobody can     *)
(* take a lexer out of its error state, not even by refuelling it.          *)
HealthyMask ==
  [][\A s \in Session : pc[s] = "bias_check" /\ pc'[s] = "idle" => ~tainted[s]]_vars

(* A session fails over a lexer that was broken by itself or by a session   *)
(* it shares the lexer with through clone(), or that was broken already     *)
(* when deep_clone() made it.                                               *)
FailsOnlyByItsFamily ==
  \A s \in Session : pc[s] = "failed" =>
    /\ blame[mutex[s]] \in Session
    /\ family[blame[mutex[s]]] = family[s]
=============================================================================
