-------------------------- MODULE SharedLexer_proof -------------------------
(***************************************************************************)
(* Proofs about sessions that share a lexer, for any number of sessions    *)
(* and mutexes, any automaton and any limits.                              *)
(***************************************************************************)
EXTENDS SharedLexer, TLAPS, SequenceTheorems

Held == \A m \in Mutexes :
  owner[m] # Nobody =>
    /\ owner[m] \in Session /\ Holding(owner[m])
    /\ mutex[owner[m]] = m /\ ~home[m]
Holds == \A s \in Session : Holding(s) => owner[mutex[s]] = s
Homes == \A s \in Session :
  pc[s] # "none" /\ owner[mutex[s]] = Nobody /\ ~poisoned[mutex[s]] => home[mutex[s]]

(* What a mask in the making has met is still there to be noticed.          *)
Taints == \A s \in Session :
  pc[s] \in {"bias_locked", "bias_check"} /\ tainted[s] => error[mutex[s]]

(* Every transition of a healthy lexer's table is between its states, and   *)
(* goes where the derivatives say.                                          *)
Knows == \A m \in Mutexes : ~error[m] =>
  \A k \in known[m] :
    k[1] \in 1..Len(table[m]) /\ HasId(table[m], Step[<<table[m][k[1]], k[2]>>])

Ids == \A s \in Session :
  pc[s] \notin {"none", "failed"} /\ ~error[mutex[s]] =>
    cur[s] \in 1..Len(table[mutex[s]]) /\ table[mutex[s]][cur[s]] = meaning[s]

IInv == TypeOK /\ Held /\ Holds /\ Homes /\ Taints /\ Knows /\ Ids

USE SharedLexerAssumption
-----------------------------------------------------------------------------
(* What extending a table does.                                             *)

(* The number of a state that is in the table.                              *)
LEMMA IdOfHas ==
  ASSUME NEW t \in Seq(Descr), NEW d, HasId(t, d)
  PROVE  IdOf(t, d) \in 1..Len(t) /\ t[IdOf(t, d)] = d
<1>1. \E i \in 1..Len(t) : t[i] = d
  BY DEF HasId
<1> QED
  BY <1>1 DEF IdOf

(* A longer table has the same first states.                                *)
LEMMA AppendKeeps ==
  ASSUME NEW t \in Seq(Descr), NEW d \in Descr
  PROVE  /\ Append(t, d) \in Seq(Descr)
         /\ Len(Append(t, d)) = Len(t) + 1
         /\ \A i \in 1..Len(t) : i \in 1..Len(Append(t, d)) /\ Append(t, d)[i] = t[i]
         /\ HasId(Append(t, d), d)
<1>1. /\ Append(t, d) \in Seq(Descr) /\ Len(Append(t, d)) = Len(t) + 1
      /\ \A i \in 1..Len(t) : Append(t, d)[i] = t[i]
      /\ Append(t, d)[Len(t) + 1] = d
  BY SMT
<1>2. Len(t) \in Nat
  BY SMT
<1>3. Len(t) + 1 \in 1..Len(Append(t, d))
  BY <1>1, <1>2, SMT
<1>4. HasId(Append(t, d), d)
  BY <1>1, <1>3 DEF HasId
<1>5. \A i \in 1..Len(t) : i \in 1..Len(Append(t, d))
  BY <1>1, <1>2, SMT
<1> QED
  BY <1>1, <1>4, <1>5

-----------------------------------------------------------------------------
(* The operation that derives a transition changes only the lexer of its    *)
(* session, which keeps all its states.                                     *)

(* A transition is derived, or fails for want of fuel or room.              *)
LEMMA DeriveStep ==
  ASSUME IInv, NEW s \in Session, NEW l \in Letter, NEW d \in Descr,
         pc[s] \in {"bias_locked", "apply_locked"}, ~error[mutex[s]], Derive(s, l, d)
  PROVE  /\ table' \in [Mutexes -> Seq(Descr)]
         /\ known' \in [Mutexes -> SUBSET ((Nat \ {0}) \X Letter)]
         /\ fuel' \in [Mutexes -> Nat] /\ error' \in [Mutexes -> BOOLEAN]
         /\ blame' \in [Mutexes -> Session \cup {Nobody}]
         /\ \A m \in Mutexes : error[m] => error'[m]
         /\ \A m \in Mutexes : \A i \in 1..Len(table[m]) :
              i \in 1..Len(table'[m]) /\ table'[m][i] = table[m][i]
         /\ HasId(table'[mutex[s]], d)
         /\ ~error'[mutex[s]] => d = Step[<<table[mutex[s]][cur[s]], l>>]
         /\ Knows'
<1> DEFINE m == mutex[s]
<1>1. m \in Mutexes /\ cur[s] \in 1..Len(table[m]) /\ cur[s] \in Nat \ {0}
  BY DEF IInv, TypeOK, Ids
<1>2. table \in [Mutexes -> Seq(Descr)] /\ known \in [Mutexes -> SUBSET ((Nat \ {0}) \X Letter)]
      /\ fuel \in [Mutexes -> Nat] /\ error \in [Mutexes -> BOOLEAN]
      /\ blame \in [Mutexes -> Session \cup {Nobody}]
  BY DEF IInv, TypeOK
<1>3. /\ table' = [table EXCEPT ![m] = IF HasId(table[m], d) THEN @ ELSE Append(@, d)]
      /\ known' = [known EXCEPT ![m] = @ \cup {<<cur[s], l>>}]
      /\ fuel' = [fuel EXCEPT ![m] = IF @ = 0 THEN 0 ELSE @ - 1]
      /\ error' = [error EXCEPT ![m] = fuel'[m] = 0 \/ Len(table'[m]) >= MaxStates]
      /\ blame' = [blame EXCEPT ![m] = IF error'[m] THEN s ELSE @]
      /\ d = Step[<<table[m][cur[s]], l>>] \/ fuel[m] <= 1
  BY DEF Derive
<1> HIDE DEF m
<1>4. /\ table[m] \in Seq(Descr)
      /\ table'[m] = IF HasId(table[m], d) THEN table[m] ELSE Append(table[m], d)
  BY <1>1, <1>2, <1>3
<1>5. /\ table'[m] \in Seq(Descr)
      /\ \A i \in 1..Len(table[m]) : i \in 1..Len(table'[m]) /\ table'[m][i] = table[m][i]
      /\ HasId(table'[m], d)
  <2>1. CASE HasId(table[m], d)
    BY <1>4, <2>1
  <2>2. CASE ~HasId(table[m], d)
    <3>1. table'[m] = Append(table[m], d)
      BY <1>4, <2>2
    <3> QED
      BY <1>4, <3>1, AppendKeeps
  <2> QED
    BY <2>1, <2>2
<1>6. \A n \in Mutexes : n # m =>
        table'[n] = table[n] /\ known'[n] = known[n] /\ error'[n] = error[n]
  BY <1>2, <1>3
<1>7. table' \in [Mutexes -> Seq(Descr)]
  <2>1. \A n \in Mutexes : table'[n] \in Seq(Descr)
    BY <1>2, <1>5, <1>6
  <2>2. table' = [n \in Mutexes |-> table'[n]]
    BY <1>2, <1>3
  <2> QED
    BY <2>1, <2>2
<1>8. known' \in [Mutexes -> SUBSET ((Nat \ {0}) \X Letter)]
  BY <1>1, <1>2, <1>3
<1>9. fuel' \in [Mutexes -> Nat] /\ (fuel'[m] # 0 => fuel[m] > 1)
  BY <1>1, <1>2, <1>3
<1>10. error' \in [Mutexes -> BOOLEAN] /\ blame' \in [Mutexes -> Session \cup {Nobody}]
  <2>1. error' \in [Mutexes -> BOOLEAN]
    BY <1>2, <1>3, Zenon
  <2>2. blame' \in [Mutexes -> Session \cup {Nobody}]
    <3>1. (IF error'[m] THEN s ELSE blame[m]) \in Session \cup {Nobody}
      BY <1>1, <1>2
    <3> QED
      BY <1>2, <1>3, <3>1
  <2> QED
    BY <2>1, <2>2
<1>11. ~error[m]
  BY DEF m
<1>12. ~error'[m] => d = Step[<<table[m][cur[s]], l>>]
  <2>1. ~error'[m] => fuel'[m] # 0
    BY <1>1, <1>2, <1>3
  <2> QED
    BY <1>1, <1>2, <1>3, <1>9, <2>1
<1>13. \A n \in Mutexes : error[n] => error'[n]
  BY <1>6, <1>11
<1>14. \A n \in Mutexes : \A i \in 1..Len(table[n]) :
         i \in 1..Len(table'[n]) /\ table'[n][i] = table[n][i]
  BY <1>5, <1>6
<1>15. Knows'
  <2> SUFFICES ASSUME NEW n \in Mutexes, ~error'[n], NEW k \in known'[n]
               PROVE  /\ k[1] \in 1..Len(table'[n])
                      /\ HasId(table'[n], Step[<<table'[n][k[1]], k[2]>>])
    BY DEF Knows
  <2>1. ~error[n]
    BY <1>13
  <2>2. CASE n # m
    <3>1. k \in known[n] /\ table'[n] = table[n]
      BY <1>6, <2>2
    <3> QED
      BY <2>1, <3>1 DEF IInv, Knows
  <2>3. CASE n = m /\ k \in known[m]
    <3>1. k[1] \in 1..Len(table[m]) /\ HasId(table[m], Step[<<table[m][k[1]], k[2]>>])
      BY <2>1, <2>3 DEF IInv, Knows
    <3>2. k[1] \in 1..Len(table'[m]) /\ table'[m][k[1]] = table[m][k[1]]
      BY <1>5, <3>1
    <3>3. HasId(table'[m], Step[<<table[m][k[1]], k[2]>>])
      BY <1>5, <3>1 DEF HasId
    <3> QED
      BY <2>3, <3>2, <3>3
  <2>4. CASE n = m /\ k = <<cur[s], l>>
    <3>1. k[1] = cur[s] /\ k[2] = l
      BY <2>4
    <3>2. cur[s] \in 1..Len(table'[m]) /\ table'[m][cur[s]] = table[m][cur[s]]
      BY <1>1, <1>5
    <3>3. d = Step[<<table[m][cur[s]], l>>]
      BY <1>12, <2>4
    <3> QED
      BY <1>5, <2>4, <3>1, <3>2, <3>3
  <2>5. known'[m] = known[m] \cup {<<cur[s], l>>}
    BY <1>1, <1>2, <1>3
  <2> QED
    BY <2>2, <2>3, <2>4, <2>5
<1> QED
  BY <1>5, <1>7, <1>8, <1>9, <1>10, <1>12, <1>13, <1>14, <1>15 DEF m
-----------------------------------------------------------------------------
(* The steps that only move a session from one phase to another, without    *)
(* the mutex before or after.                                               *)

(* A session goes on to another phase and changes nothing else.             *)
LEMMA GotoStep ==
  ASSUME IInv, NEW s \in Session, NEW phase \in Phase \ {"none", "bias_locked", "bias_check", "apply_locked"},
         pc[s] \notin {"none", "failed", "bias_locked", "apply_locked"},
         Goto(s, phase),
         UNCHANGED <<mutex, family, cur, meaning, tainted, lockVars, lexerVars, blame>>
  PROVE  IInv'
<1>1. /\ pc' = [pc EXCEPT ![s] = phase] /\ pc \in [Session -> Phase]
      /\ UNCHANGED <<mutex, family, cur, meaning, tainted, owner, home, poisoned, table, known, fuel, error, blame>>
  BY DEF Goto, IInv, TypeOK, lockVars, lexerVars
<1>2. pc' \in [Session -> Phase]
  BY <1>1
<1>3. pc'[s] = phase /\ \A t \in Session : t # s => pc'[t] = pc[t]
  BY <1>1
<1>4. \A t \in Session : (pc'[t] = "none" <=> pc[t] = "none")
  BY <1>3
<1>5. \A t \in Session : Holding(t)' <=> Holding(t)
  BY <1>1, <1>3 DEF Holding
<1>6. TypeOK'
  BY <1>1, <1>2, <1>4 DEF IInv, TypeOK
<1>7. Held' /\ Holds'
  BY <1>1, <1>5 DEF IInv, Held, Holds
<1>8. Homes'
  BY <1>1, <1>4 DEF IInv, Homes
<1>9. Taints'
  BY <1>1, <1>3 DEF IInv, Taints
<1>10. Knows'
  BY <1>1 DEF IInv, Knows
<1>11. Ids'
  BY <1>1, <1>3 DEF IInv, Ids
<1> QED
  BY <1>6, <1>7, <1>8, <1>9, <1>10, <1>11 DEF IInv

(* A session checks the error flag.                                         *)
LEMMA CheckErrorStep ==
  ASSUME IInv, NEW s \in Session, NEW from \in {"bias_check", "apply_check"},
         NEW to \in {"idle", "apply"}, CheckError(s, from, to)
  PROVE  IInv'
<1>1. CASE poisoned[mutex[s]] \/ error[mutex[s]]
  BY <1>1, GotoStep DEF CheckError, Phase
<1>2. CASE ~(poisoned[mutex[s]] \/ error[mutex[s]])
  BY <1>2, GotoStep DEF CheckError, Phase
<1> QED
  BY <1>1, <1>2
-----------------------------------------------------------------------------
(* Taking the mutex, or failing because it is poisoned.                     *)

(* A session takes the mutex.                                               *)
LEMMA LockStep ==
  ASSUME IInv, NEW s \in Session, NEW from \in {"bias", "apply"},
         NEW to \in {"bias_locked", "apply_locked"}, Lock(s, from, to),
         UNCHANGED <<mutex, family, cur, meaning, table, known, error, blame>>,
         fuel' \in [Mutexes -> Nat], tainted' \in [Session -> BOOLEAN],
         \A t \in Session : tainted'[t] => tainted[t] /\ (t # s \/ to # "bias_locked")
  PROVE  IInv'
<1> DEFINE m == mutex[s]
<1>1. m \in Mutexes /\ owner[m] = Nobody /\ pc \in [Session -> Phase]
      /\ owner \in [Mutexes -> Session \cup {Nobody}] /\ home \in [Mutexes -> BOOLEAN]
  BY DEF Lock, IInv, TypeOK
<1>2. CASE poisoned[m]
  <2>1. /\ pc' = [pc EXCEPT ![s] = "failed"] /\ pc[s] = from
        /\ UNCHANGED <<mutex, family, owner, home, poisoned, cur, meaning, table, known, error, blame>>
    BY <1>2 DEF Lock, Goto
  <2>2. pc' \in [Session -> Phase]
    BY <1>1, <2>1 DEF Phase
  <2>3. pc'[s] = "failed" /\ \A t \in Session : t # s => pc'[t] = pc[t]
    BY <1>1, <2>1
  <2>4. \A t \in Session : (pc'[t] = "none" <=> pc[t] = "none") /\ (Holding(t)' <=> Holding(t))
    BY <2>1, <2>3 DEF Holding
  <2>5. TypeOK'
    BY <2>1, <2>2, <2>4 DEF IInv, TypeOK
  <2>6. Held' /\ Holds' /\ Homes'
    BY <2>1, <2>4 DEF IInv, Held, Holds, Homes
  <2>7. Taints' /\ Knows' /\ Ids'
    BY <2>1, <2>3 DEF IInv, Taints, Knows, Ids
  <2> QED
    BY <2>5, <2>6, <2>7 DEF IInv
<1>3. CASE ~poisoned[m]
  <2>1. /\ pc' = [pc EXCEPT ![s] = to] /\ pc[s] = from
        /\ owner' = [owner EXCEPT ![m] = s] /\ home' = [home EXCEPT ![m] = FALSE]
        /\ UNCHANGED <<mutex, family, poisoned, cur, meaning, table, known, error, blame>>
    BY <1>3 DEF Lock, Goto
  <2> HIDE DEF m
  <2>2. /\ pc' \in [Session -> Phase] /\ owner' \in [Mutexes -> Session \cup {Nobody}]
        /\ home' \in [Mutexes -> BOOLEAN]
    BY <1>1, <2>1 DEF Phase
  <2>3. pc'[s] = to /\ \A t \in Session : t # s => pc'[t] = pc[t]
    BY <1>1, <2>1
  <2>4. /\ owner'[m] = s /\ ~home'[m]
        /\ \A n \in Mutexes : n # m => owner'[n] = owner[n] /\ home'[n] = home[n]
    BY <1>1, <2>1
  <2>5. \A t \in Session : (pc'[t] = "none" <=> pc[t] = "none")
    BY <2>1, <2>3
  <2>6. Holding(s)' /\ ~Holding(s) /\ \A t \in Session : t # s => (Holding(t)' <=> Holding(t))
    BY <2>1, <2>3 DEF Holding
  <2>7. TypeOK'
    BY <2>1, <2>2, <2>5 DEF IInv, TypeOK
  <2>8. Held'
    BY <1>1, <2>1, <2>4, <2>6 DEF IInv, Held, m
  <2>9. \A t \in Session : Holding(t) => mutex[t] # m
    BY <1>1 DEF IInv, Holds
  <2>10. \A t \in Session : Holding(t) => mutex[t] \in Mutexes
    BY DEF IInv, TypeOK, Holding
  <2>11. Holds'
    BY <1>1, <2>1, <2>4, <2>6, <2>9, <2>10 DEF IInv, Holds, m
  <2>12. Homes'
    <3> SUFFICES ASSUME NEW t \in Session, pc'[t] # "none", owner'[mutex[t]] = Nobody,
                        ~poisoned[mutex[t]]
                 PROVE  home'[mutex[t]]
      BY <2>1 DEF Homes
    <3>1. mutex[t] \in Mutexes /\ mutex[t] # m
      BY <2>4, <2>5 DEF IInv, TypeOK
    <3> QED
      BY <2>4, <2>5, <3>1 DEF IInv, Homes
  <2>13. Taints'
    BY <2>1, <2>3 DEF IInv, Taints
  <2>14. Knows' /\ Ids'
    BY <2>1, <2>3 DEF IInv, Knows, Ids
  <2> QED
    BY <2>7, <2>8, <2>11, <2>12, <2>13, <2>14 DEF IInv
<1> QED
  BY <1>2, <1>3
-----------------------------------------------------------------------------
(* Giving the mutex back: with the lexer, or poisoned.  The lexer may have  *)
(* been worked on in the same step (lexerVars, blame, cur and meaning).     *)

(* A session gives the lexer back.                                          *)
LEMMA ReleaseStep ==
  ASSUME IInv, NEW s \in Session, Holding(s),
         NEW phase \in {"idle", "failed", "bias_check"}, Goto(s, phase),
         mutex' = mutex, family' = family, tainted' = tainted,
         owner' = [owner EXCEPT ![mutex[s]] = Nobody],
         home' \in [Mutexes -> BOOLEAN], poisoned' \in [Mutexes -> BOOLEAN],
         home'[mutex[s]] \/ poisoned'[mutex[s]],
         \A n \in Mutexes \ {mutex[s]} : home'[n] = home[n] /\ poisoned'[n] = poisoned[n],
         cur' \in [Session -> Nat \ {0}], meaning' \in [Session -> Descr],
         table' \in [Mutexes -> Seq(Descr)],
         known' \in [Mutexes -> SUBSET ((Nat \ {0}) \X Letter)],
         fuel' \in [Mutexes -> Nat], error' \in [Mutexes -> BOOLEAN],
         blame' \in [Mutexes -> Session \cup {Nobody}],
         \A n \in Mutexes : error[n] => error'[n],
         phase = "bias_check" => pc[s] = "bias_locked",
         Knows', Ids'
  PROVE  IInv'
<1> DEFINE m == mutex[s]
<1>1. m \in Mutexes /\ owner[m] = s /\ pc \in [Session -> Phase]
      /\ owner \in [Mutexes -> Session \cup {Nobody}]
  BY DEF IInv, TypeOK, Holds, Holding
<1>2. pc' = [pc EXCEPT ![s] = phase]
  BY DEF Goto
<1>3. pc' \in [Session -> Phase] /\ owner' \in [Mutexes -> Session \cup {Nobody}]
  BY <1>1, <1>2 DEF Phase
<1>4. pc'[s] = phase /\ \A t \in Session : t # s => pc'[t] = pc[t]
  BY <1>1, <1>2
<1>5. owner'[m] = Nobody /\ \A n \in Mutexes : n # m => owner'[n] = owner[n]
  BY <1>1
<1>6. \A t \in Session : (pc'[t] = "none" <=> pc[t] = "none")
  BY <1>4 DEF Holding
<1>7. ~Holding(s)' /\ \A t \in Session : t # s => (Holding(t)' <=> Holding(t))
  BY <1>4 DEF Holding
<1>8. TypeOK'
  BY <1>3, <1>6 DEF IInv, TypeOK
<1>9. Held'
  <2> SUFFICES ASSUME NEW n \in Mutexes, owner'[n] # Nobody
               PROVE  /\ owner'[n] \in Session
                      /\ pc'[owner'[n]] \in {"bias_locked", "apply_locked"}
                      /\ mutex[owner'[n]] = n /\ ~home'[n]
    BY DEF Held, Holding
  <2>1. n # m /\ owner'[n] = owner[n] /\ home'[n] = home[n]
    BY <1>5
  <2>2. owner[n] \in Session /\ Holding(owner[n]) /\ mutex[owner[n]] = n /\ ~home[n]
    BY <2>1 DEF IInv, Held
  <2>3. owner[n] # s
    BY <2>1, <2>2
  <2> QED
    BY <1>4, <2>1, <2>2, <2>3 DEF Holding
<1>10. Holds'
  <2> SUFFICES ASSUME NEW t \in Session, Holding(t)'
               PROVE  owner'[mutex[t]] = t
    BY DEF Holds
  <2>1. t # s /\ Holding(t)
    BY <1>7
  <2>2. owner[mutex[t]] = t /\ mutex[t] \in Mutexes
    BY <2>1 DEF IInv, Holds, TypeOK, Holding
  <2> QED
    BY <1>1, <1>5, <2>1, <2>2
<1>11. Homes'
  <2> SUFFICES ASSUME NEW t \in Session, pc'[t] # "none", owner'[mutex[t]] = Nobody,
                      ~poisoned'[mutex[t]]
               PROVE  home'[mutex[t]]
    BY DEF Homes
  <2>1. mutex[t] \in Mutexes /\ pc[t] # "none"
    BY <1>6 DEF IInv, TypeOK
  <2> QED
    BY <1>5, <2>1 DEF IInv, Homes
<1>12. Taints'
  <2> SUFFICES ASSUME NEW t \in Session, pc'[t] \in {"bias_locked", "bias_check"}, tainted[t]
               PROVE  error'[mutex[t]]
    BY DEF Taints
  <2>1. pc[t] \in {"bias_locked", "bias_check"}
    BY <1>4
  <2>2. error[mutex[t]] /\ mutex[t] \in Mutexes
    BY <2>1 DEF IInv, TypeOK, Taints
  <2> QED
    BY <2>2
<1> QED
  BY <1>8, <1>9, <1>10, <1>11, <1>12 DEF IInv

(* A session that computed a mask gives the lexer back.                     *)
LEMMA UnlockBiasStep ==
  ASSUME IInv, NEW s \in Session, UnlockBias(s)
  PROVE  IInv'
<1>1. /\ pc[s] = "bias_locked" /\ Holding(s)
      /\ owner' = [owner EXCEPT ![mutex[s]] = Nobody]
      /\ home' = [home EXCEPT ![mutex[s]] = TRUE] /\ Goto(s, "bias_check")
      /\ UNCHANGED <<poisoned, mutex, family, cur, meaning, tainted, table, known, fuel, error, blame>>
  BY DEF UnlockBias, Unlock, Holding, lexerVars
<1>2. mutex[s] \in Mutexes /\ home \in [Mutexes -> BOOLEAN]
  BY <1>1 DEF IInv, TypeOK
<1>3. /\ home' \in [Mutexes -> BOOLEAN] /\ home'[mutex[s]]
      /\ \A n \in Mutexes \ {mutex[s]} : home'[n] = home[n]
  BY <1>1, <1>2
<1>4. pc \in [Session -> Phase] /\ pc' = [pc EXCEPT ![s] = "bias_check"]
  BY <1>1 DEF IInv, TypeOK, Goto
<1>5. Knows'
  BY <1>1 DEF IInv, Knows
<1>6. Ids'
  BY <1>1, <1>4 DEF IInv, Ids
<1> QED
  BY <1>1, <1>3, <1>5, <1>6, ReleaseStep DEF IInv, TypeOK

(* A session panics.                                                        *)
LEMMA PanicStep ==
  ASSUME IInv, NEW s \in Session, Panic(s)
  PROVE  IInv'
<1>1. /\ Holding(s) /\ owner' = [owner EXCEPT ![mutex[s]] = Nobody]
      /\ poisoned' = [poisoned EXCEPT ![mutex[s]] = TRUE] /\ Goto(s, "failed")
      /\ blame' = [blame EXCEPT ![mutex[s]] = s]
      /\ UNCHANGED <<home, mutex, family, cur, meaning, tainted, table, known, fuel, error>>
  BY DEF Panic, lexerVars
<1>2. /\ mutex[s] \in Mutexes /\ poisoned \in [Mutexes -> BOOLEAN]
      /\ blame \in [Mutexes -> Session \cup {Nobody}]
  BY <1>1 DEF IInv, TypeOK, Holding
<1>3. /\ poisoned' \in [Mutexes -> BOOLEAN] /\ poisoned'[mutex[s]]
      /\ \A n \in Mutexes \ {mutex[s]} : poisoned'[n] = poisoned[n]
      /\ blame' \in [Mutexes -> Session \cup {Nobody}]
  BY <1>1, <1>2
<1>4. pc \in [Session -> Phase] /\ pc' = [pc EXCEPT ![s] = "failed"]
  BY <1>1 DEF IInv, TypeOK, Goto
<1>5. Knows'
  BY <1>1 DEF IInv, Knows
<1>6. Ids'
  BY <1>1, <1>4 DEF IInv, Ids
<1> QED
  BY <1>1, <1>3, <1>5, <1>6, ReleaseStep DEF IInv, TypeOK
-----------------------------------------------------------------------------
(* A session that does not move keeps a valid state when tables only grow.  *)

(* The state number of a session stays right while tables only grow.        *)
LEMMA IdsKept ==
  ASSUME IInv, NEW t \in Session, pc[t] \notin {"none", "failed"},
         NEW n, n = mutex[t], ~error'[n],
         \A m \in Mutexes : error[m] => error'[m],
         \A m \in Mutexes : \A i \in 1..Len(table[m]) :
           i \in 1..Len(table'[m]) /\ table'[m][i] = table[m][i]
  PROVE  cur[t] \in 1..Len(table'[n]) /\ table'[n][cur[t]] = meaning[t]
<1>1. n \in Mutexes /\ ~error[n]
  BY DEF IInv, TypeOK
<1>2. cur[t] \in 1..Len(table[n]) /\ table[n][cur[t]] = meaning[t]
  BY <1>1 DEF IInv, Ids
<1> QED
  BY <1>1, <1>2

(* A session walks the trie.                                                *)
LEMMA WalkByteStep ==
  ASSUME IInv, NEW s \in Session, NEW l \in Letter, WalkByte(s, l)
  PROVE  IInv'
<1>1. /\ pc[s] = "bias_locked"
      /\ tainted' = [tainted EXCEPT ![s] = tainted[s] \/ error'[mutex[s]]]
      /\ UNCHANGED <<mutex, family, pc, cur, meaning, owner, home, poisoned>>
  BY DEF WalkByte, lockVars
<1>2. /\ table' \in [Mutexes -> Seq(Descr)]
      /\ known' \in [Mutexes -> SUBSET ((Nat \ {0}) \X Letter)]
      /\ fuel' \in [Mutexes -> Nat] /\ error' \in [Mutexes -> BOOLEAN]
      /\ blame' \in [Mutexes -> Session \cup {Nobody}]
      /\ \A m \in Mutexes : error[m] => error'[m]
      /\ \A m \in Mutexes : \A i \in 1..Len(table[m]) :
           i \in 1..Len(table'[m]) /\ table'[m][i] = table[m][i]
      /\ Knows'
  <2>1. CASE UNCHANGED <<lexerVars, blame>>
    <3>1. UNCHANGED <<table, known, fuel, error, blame>>
      BY <2>1 DEF lexerVars
    <3>2. Knows'
      BY <3>1 DEF IInv, Knows
    <3> QED
      BY <3>1, <3>2 DEF IInv, TypeOK
  <2>2. CASE ~error[mutex[s]] /\ \E d \in Descr : Derive(s, l, d)
    BY <1>1, <2>2, DeriveStep
  <2> QED
    BY <2>1, <2>2 DEF WalkByte, Lookup
<1>3. tainted \in [Session -> BOOLEAN] /\ mutex[s] \in Mutexes
  BY <1>1 DEF IInv, TypeOK
<1>4. /\ tainted' \in [Session -> BOOLEAN]
      /\ \A t \in Session : tainted'[t] => tainted[t] \/ (t = s /\ error'[mutex[s]])
  <2>1. (tainted[s] \/ error'[mutex[s]]) \in BOOLEAN
    BY <1>2, <1>3, Zenon
  <2>2. tainted' \in [Session -> BOOLEAN]
    BY <1>1, <1>3, <2>1
  <2>3. tainted'[s] = (tainted[s] \/ error'[mutex[s]])
        /\ \A t \in Session : t # s => tainted'[t] = tainted[t]
    BY <1>1, <1>3, Zenon
  <2> QED
    BY <2>2, <2>3, Zenon
<1>5. TypeOK'
  BY <1>1, <1>2, <1>4 DEF IInv, TypeOK
<1>6. Held' /\ Holds' /\ Homes'
  BY <1>1 DEF IInv, Held, Holds, Homes, Holding
<1>7. Taints'
  <2> SUFFICES ASSUME NEW t \in Session, pc[t] \in {"bias_locked", "bias_check"}, tainted'[t]
               PROVE  error'[mutex[t]]
    BY <1>1 DEF Taints
  <2>1. mutex[t] \in Mutexes
    BY DEF IInv, TypeOK
  <2>2. CASE tainted[t]
    BY <1>2, <2>1, <2>2 DEF IInv, Taints
  <2>3. CASE t = s /\ error'[mutex[s]]
    BY <2>3
  <2> QED
    BY <1>4, <2>2, <2>3
<1>8. Ids'
  BY <1>1, <1>2, IdsKept DEF Ids
<1> QED
  BY <1>2, <1>5, <1>6, <1>7, <1>8 DEF IInv

(* A session applies a byte.                                                *)
LEMMA ApplyByteStep ==
  ASSUME IInv, NEW s \in Session, NEW l \in Letter, ApplyByte(s, l)
  PROVE  IInv'
<1>1. pc[s] = "apply_locked" /\ Holding(s) /\ UNCHANGED <<mutex, family, tainted>>
  BY DEF ApplyByte, Holding
<1>2. /\ mutex[s] \in Mutexes /\ home \in [Mutexes -> BOOLEAN]
      /\ poisoned \in [Mutexes -> BOOLEAN] /\ pc \in [Session -> Phase]
  BY <1>1 DEF IInv, TypeOK
<1>3. CASE /\ error[mutex[s]] /\ Unlock(s, "failed")
           /\ UNCHANGED <<cur, meaning, lexerVars, blame>>
  <2>1. /\ owner' = [owner EXCEPT ![mutex[s]] = Nobody] /\ home' = [home EXCEPT ![mutex[s]] = TRUE]
        /\ Goto(s, "failed") /\ UNCHANGED <<poisoned, cur, meaning, table, known, fuel, error, blame>>
    BY <1>3 DEF Unlock, lexerVars
  <2>2. /\ home' \in [Mutexes -> BOOLEAN] /\ home'[mutex[s]]
        /\ \A n \in Mutexes \ {mutex[s]} : home'[n] = home[n]
    BY <1>2, <2>1
  <2>3. pc' = [pc EXCEPT ![s] = "failed"]
    BY <2>1 DEF Goto
  <2>4. Knows' /\ Ids'
    BY <1>1, <1>2, <2>1, <2>3 DEF IInv, Knows, Ids
  <2> QED
    BY <1>1, <2>1, <2>2, <2>4, ReleaseStep DEF IInv, TypeOK
<1>4. CASE ~error[mutex[s]]
  <2>1. PICK d \in Descr :
          /\ (d = Step[<<table[mutex[s]][cur[s]], l>>] /\ Lookup(s, l)) \/ Derive(s, l, d)
          /\ cur' = [cur EXCEPT ![s] = NextId(s, l, d)]
          /\ Unlock(s, IF d = Dead THEN "failed" ELSE "idle")
          /\ meaning' = [meaning EXCEPT ![s] = Step[<<meaning[s], l>>]]
    BY <1>4, Zenon DEF ApplyByte
  <2>2. PICK phase \in {"idle", "failed"} : Unlock(s, phase)
    BY <2>1
  <2>3. /\ owner' = [owner EXCEPT ![mutex[s]] = Nobody] /\ home' = [home EXCEPT ![mutex[s]] = TRUE]
        /\ Goto(s, phase) /\ poisoned' = poisoned
    BY <2>2 DEF Unlock
  <2>4. /\ home' \in [Mutexes -> BOOLEAN] /\ home'[mutex[s]]
        /\ \A n \in Mutexes \ {mutex[s]} : home'[n] = home[n]
    BY <1>2, <2>3
  <2>5. /\ table[mutex[s]] \in Seq(Descr) /\ cur[s] \in 1..Len(table[mutex[s]])
        /\ table[mutex[s]][cur[s]] = meaning[s] /\ meaning[s] \in Descr
        /\ cur \in [Session -> Nat \ {0}] /\ meaning \in [Session -> Descr]
    BY <1>1, <1>2, <1>4 DEF IInv, TypeOK, Ids
  <2>6. /\ table' \in [Mutexes -> Seq(Descr)]
        /\ known' \in [Mutexes -> SUBSET ((Nat \ {0}) \X Letter)]
        /\ fuel' \in [Mutexes -> Nat] /\ error' \in [Mutexes -> BOOLEAN]
        /\ blame' \in [Mutexes -> Session \cup {Nobody}]
        /\ \A m \in Mutexes : error[m] => error'[m]
        /\ \A m \in Mutexes : \A i \in 1..Len(table[m]) :
             i \in 1..Len(table'[m]) /\ table'[m][i] = table[m][i]
        /\ HasId(table'[mutex[s]], d)
        /\ ~error'[mutex[s]] => d = Step[<<table[mutex[s]][cur[s]], l>>]
        /\ Knows'
    <3>1. CASE d = Step[<<table[mutex[s]][cur[s]], l>>] /\ Lookup(s, l)
      <4>1. UNCHANGED <<table, known, fuel, error, blame>> /\ <<cur[s], l>> \in known[mutex[s]]
        BY <3>1 DEF Lookup, lexerVars
      <4>2. HasId(table[mutex[s]], d)
        <5> DEFINE k == <<cur[s], l>>
        <5>1. HasId(table[mutex[s]], Step[<<table[mutex[s]][k[1]], k[2]>>])
          BY <1>2, <1>4, <4>1 DEF IInv, Knows
        <5> QED
          BY <3>1, <5>1
      <4>3. Knows'
        BY <4>1 DEF IInv, Knows
      <4> QED
        BY <3>1, <4>1, <4>2, <4>3 DEF IInv, TypeOK
    <3>2. CASE Derive(s, l, d)
      BY <1>1, <1>4, <3>2, DeriveStep
    <3> QED
      BY <2>1, <3>1, <3>2
  <2>7. table'[mutex[s]] \in Seq(Descr)
    BY <1>2, <2>6
  <2>8. /\ NextId(s, l, d) \in 1..Len(table'[mutex[s]])
        /\ table'[mutex[s]][NextId(s, l, d)] = d
    BY <2>6, <2>7, IdOfHas DEF NextId
  <2>9. NextId(s, l, d) \in Nat \ {0}
    BY <2>7, <2>8
  <2>10. cur' \in [Session -> Nat \ {0}]
    BY <2>1, <2>5, <2>9
  <2>11. Step[<<meaning[s], l>>] \in Descr
    BY <2>5 DEF SharedLexerAssumption
  <2>12. meaning' \in [Session -> Descr]
    BY <2>1, <2>5, <2>11
  <2>13. pc' = [pc EXCEPT ![s] = phase]
    BY <2>3 DEF Goto
  <2>14. Ids'
    <3> SUFFICES ASSUME NEW t \in Session, pc'[t] \notin {"none", "failed"}, ~error'[mutex[t]]
                 PROVE  /\ cur'[t] \in 1..Len(table'[mutex[t]])
                        /\ table'[mutex[t]][cur'[t]] = meaning'[t]
      BY <1>1 DEF Ids
    <3>1. CASE t = s
      <4>1. cur'[s] = NextId(s, l, d) /\ meaning'[s] = Step[<<meaning[s], l>>]
        BY <2>1, <2>5
      <4>2. d = Step[<<meaning[s], l>>]
        BY <2>5, <2>6, <3>1
      <4> QED
        BY <2>8, <3>1, <4>1, <4>2
    <3>2. CASE t # s
      <4>1. cur'[t] = cur[t] /\ meaning'[t] = meaning[t]
        BY <2>1, <2>5, <3>2
      <4>2. pc[t] \notin {"none", "failed"}
        BY <1>2, <2>13, <3>2
      <4> QED
        BY <2>6, <4>1, <4>2, IdsKept
    <3> QED
      BY <3>1, <3>2
  <2>15. /\ phase \in {"idle", "failed", "bias_check"} /\ phase # "bias_check"
         /\ poisoned' \in [Mutexes -> BOOLEAN]
         /\ \A n \in Mutexes \ {mutex[s]} : home'[n] = home[n] /\ poisoned'[n] = poisoned[n]
    BY <1>2, <2>3, <2>4
  <2>16. (home'[mutex[s]] \/ poisoned'[mutex[s]]) /\ mutex' = mutex /\ family' = family /\ tainted' = tainted
    BY <1>1, <2>4
  <2>17. /\ table' \in [Mutexes -> Seq(Descr)]
         /\ known' \in [Mutexes -> SUBSET ((Nat \ {0}) \X Letter)]
         /\ fuel' \in [Mutexes -> Nat] /\ error' \in [Mutexes -> BOOLEAN]
         /\ blame' \in [Mutexes -> Session \cup {Nobody}]
         /\ \A m \in Mutexes : error[m] => error'[m]
         /\ Knows'
    BY <2>6
  <2>18. Holding(s) /\ owner' = [owner EXCEPT ![mutex[s]] = Nobody]
         /\ home' \in [Mutexes -> BOOLEAN] /\ Goto(s, phase)
    BY <1>1, <2>3, <2>4
  <2> QED
    BY <2>10, <2>12, <2>14, <2>15, <2>16, <2>17, <2>18, ReleaseStep
<1>5. \/ /\ error[mutex[s]] /\ Unlock(s, "failed")
         /\ UNCHANGED <<cur, meaning, lexerVars, blame>>
      \/ ~error[mutex[s]]
  BY DEF ApplyByte
<1> QED
  BY <1>3, <1>4, <1>5
-----------------------------------------------------------------------------
(* A new session.                                                           *)

(* clone().                                                                 *)
LEMMA CloneStep ==
  ASSUME IInv, NEW s \in Session, NEW t \in Session, Clone(s, t)
  PROVE  IInv'
<1>1. /\ pc[s] = "idle" /\ pc[t] = "none" /\ s # t
      /\ family' = [family EXCEPT ![t] = family[s]]
      /\ mutex' = [mutex EXCEPT ![t] = mutex[s]] /\ pc' = [pc EXCEPT ![t] = "idle"]
      /\ cur' = [cur EXCEPT ![t] = cur[s]] /\ meaning' = [meaning EXCEPT ![t] = meaning[s]]
      /\ tainted' = [tainted EXCEPT ![t] = FALSE]
      /\ UNCHANGED <<owner, home, poisoned, table, known, fuel, error, blame>>
  BY DEF Clone, Adopt, Goto, lockVars, lexerVars
<1>2. mutex[s] \in Mutexes /\ TypeOK
  BY <1>1 DEF IInv, TypeOK
<1>3. /\ mutex'[t] = mutex[s] /\ pc'[t] = "idle" /\ cur'[t] = cur[s]
      /\ meaning'[t] = meaning[s] /\ ~tainted'[t]
      /\ \A u \in Session : u # t =>
           /\ mutex'[u] = mutex[u] /\ pc'[u] = pc[u] /\ cur'[u] = cur[u]
           /\ meaning'[u] = meaning[u] /\ tainted'[u] = tainted[u]
  BY <1>1, <1>2 DEF TypeOK
<1>4. TypeOK'
  BY <1>1, <1>2, <1>3 DEF TypeOK, Phase
<1>5. \A u \in Session : Holding(u)' <=> Holding(u) /\ u # t
  BY <1>1, <1>3 DEF Holding
<1>6. Held'
  BY <1>1, <1>3, <1>5 DEF IInv, Held, Holding
<1>7. Holds'
  BY <1>1, <1>3, <1>5 DEF IInv, Holds
<1>8. Homes'
  BY <1>1, <1>3 DEF IInv, Homes
<1>9. Taints'
  BY <1>1, <1>3 DEF IInv, Taints
<1>10. Knows' /\ Ids'
  BY <1>1, <1>3 DEF IInv, Knows, Ids
<1> QED
  BY <1>4, <1>6, <1>7, <1>8, <1>9, <1>10 DEF IInv

(* deep_clone().                                                            *)
LEMMA DeepCloneStep ==
  ASSUME IInv, NEW s \in Session, NEW t \in Session, NEW m \in Mutexes, DeepClone(s, t, m)
  PROVE  IInv'
<1> DEFINE n == mutex[s]
<1>1. /\ pc[s] = "idle" /\ pc[t] = "none" /\ s # t
      /\ \A u \in Session : mutex[u] # m
      /\ owner[n] = Nobody /\ ~poisoned[n]
      /\ family' = [family EXCEPT ![t] = t]
      /\ mutex' = [mutex EXCEPT ![t] = m] /\ pc' = [pc EXCEPT ![t] = "idle"]
      /\ cur' = [cur EXCEPT ![t] = cur[s]] /\ meaning' = [meaning EXCEPT ![t] = meaning[s]]
      /\ tainted' = [tainted EXCEPT ![t] = FALSE]
      /\ home' = [home EXCEPT ![m] = home[n]] /\ table' = [table EXCEPT ![m] = table[n]]
      /\ known' = [known EXCEPT ![m] = known[n]] /\ fuel' = [fuel EXCEPT ![m] = fuel[n]]
      /\ error' = [error EXCEPT ![m] = error[n]]
      /\ blame' = [blame EXCEPT ![m] = IF blame[n] = Nobody THEN Nobody ELSE t]
      /\ UNCHANGED <<owner, poisoned>>
  BY DEF DeepClone, Adopt, Goto
<1>2. n \in Mutexes /\ n # m /\ TypeOK
  BY <1>1 DEF IInv, TypeOK
<1> HIDE DEF n
<1>3. /\ mutex'[t] = m /\ pc'[t] = "idle" /\ cur'[t] = cur[s]
      /\ meaning'[t] = meaning[s] /\ ~tainted'[t]
      /\ \A u \in Session : u # t =>
           /\ mutex'[u] = mutex[u] /\ pc'[u] = pc[u] /\ cur'[u] = cur[u]
           /\ meaning'[u] = meaning[u] /\ tainted'[u] = tainted[u]
  BY <1>1, <1>2 DEF TypeOK
<1>4. /\ home'[m] = home[n] /\ table'[m] = table[n] /\ known'[m] = known[n] /\ error'[m] = error[n]
      /\ \A o \in Mutexes : o # m =>
           home'[o] = home[o] /\ table'[o] = table[o] /\ known'[o] = known[o] /\ error'[o] = error[o]
  BY <1>1, <1>2 DEF TypeOK
<1>5. TypeOK'
  <2>1. (IF blame[n] = Nobody THEN Nobody ELSE t) \in Session \cup {Nobody}
    OBVIOUS
  <2>2. blame' \in [Mutexes -> Session \cup {Nobody}]
    BY <1>1, <1>2, <2>1 DEF TypeOK
  <2>3. table[n] \in Seq(Descr) /\ known[n] \in SUBSET ((Nat \ {0}) \X Letter)
        /\ fuel[n] \in Nat /\ error[n] \in BOOLEAN /\ home[n] \in BOOLEAN
    BY <1>2 DEF TypeOK
  <2>4. /\ table' \in [Mutexes -> Seq(Descr)]
        /\ known' \in [Mutexes -> SUBSET ((Nat \ {0}) \X Letter)]
        /\ fuel' \in [Mutexes -> Nat] /\ error' \in [Mutexes -> BOOLEAN]
        /\ home' \in [Mutexes -> BOOLEAN]
    BY <1>1, <1>2, <2>3 DEF TypeOK
  <2>5. /\ mutex' \in [Session -> Mutexes \cup {Nobody}] /\ pc' \in [Session -> Phase]
        /\ cur' \in [Session -> Nat \ {0}] /\ meaning' \in [Session -> Descr]
        /\ tainted' \in [Session -> BOOLEAN] /\ family' \in [Session -> Session]
    BY <1>1, <1>2 DEF TypeOK, Phase
  <2>6. \A u \in Session : pc'[u] # "none" <=> mutex'[u] \in Mutexes
    BY <1>2, <1>3 DEF TypeOK
  <2> QED
    BY <1>1, <1>2, <2>2, <2>4, <2>5, <2>6 DEF TypeOK
<1>6. \A u \in Session : Holding(u) => u # t /\ u # s
  BY <1>1 DEF Holding
<1>7. owner[m] = Nobody
  BY <1>1 DEF IInv, Held
<1>8. Held'
  <2> SUFFICES ASSUME NEW o \in Mutexes, owner[o] # Nobody
               PROVE  /\ owner[o] \in Session /\ pc'[owner[o]] \in {"bias_locked", "apply_locked"}
                      /\ mutex'[owner[o]] = o /\ ~home'[o]
    BY <1>1 DEF Held, Holding
  <2>1. owner[o] \in Session /\ Holding(owner[o]) /\ mutex[owner[o]] = o /\ ~home[o] /\ o # m
    BY <1>7 DEF IInv, Held
  <2> QED
    BY <1>3, <1>4, <1>6, <2>1 DEF Holding
<1>9. Holds'
  <2> SUFFICES ASSUME NEW u \in Session, pc'[u] \in {"bias_locked", "apply_locked"}
               PROVE  owner[mutex'[u]] = u
    BY <1>1 DEF Holds, Holding
  <2> QED
    BY <1>3 DEF IInv, Holds, Holding
<1>10. Homes'
  <2>1. home[n]
    BY <1>1 DEF IInv, Homes, n
  <2>2. \A u \in Session : u # t /\ pc[u] # "none" => mutex[u] \in Mutexes /\ mutex[u] # m
    BY <1>1, <1>2 DEF TypeOK
  <2> SUFFICES ASSUME NEW u \in Session, pc'[u] # "none", owner[mutex'[u]] = Nobody,
                      ~poisoned[mutex'[u]]
               PROVE  home'[mutex'[u]]
    BY <1>1 DEF Homes
  <2>3. CASE u = t
    BY <1>3, <1>4, <2>1, <2>3
  <2>4. CASE u # t
    BY <1>3, <1>4, <2>2, <2>4 DEF IInv, Homes
  <2> QED
    BY <2>3, <2>4
<1>11. Taints'
  <2>1. \A u \in Session : pc[u] # "none" => mutex[u] \in Mutexes /\ mutex[u] # m
    BY <1>1, <1>2 DEF TypeOK
  <2> QED
    BY <1>3, <1>4, <2>1 DEF IInv, Taints
<1>12. Knows'
  <2> SUFFICES ASSUME NEW o \in Mutexes, ~error'[o], NEW k \in known'[o]
               PROVE  /\ k[1] \in 1..Len(table'[o])
                      /\ HasId(table'[o], Step[<<table'[o][k[1]], k[2]>>])
    BY DEF Knows
  <2>1. CASE o = m
    BY <1>2, <1>4, <2>1 DEF IInv, Knows
  <2>2. CASE o # m
    BY <1>4, <2>2 DEF IInv, Knows
  <2> QED
    BY <2>1, <2>2
<1>13. Ids'
  <2> SUFFICES ASSUME NEW u \in Session, pc'[u] \notin {"none", "failed"}, ~error'[mutex'[u]]
               PROVE  /\ cur'[u] \in 1..Len(table'[mutex'[u]])
                      /\ table'[mutex'[u]][cur'[u]] = meaning'[u]
    BY DEF Ids
  <2>1. CASE u = t
    BY <1>1, <1>3, <1>4, <2>1 DEF IInv, Ids, n
  <2>2. CASE u # t
    <3>1. mutex[u] \in Mutexes /\ mutex[u] # m /\ mutex'[u] = mutex[u] /\ pc'[u] = pc[u]
      BY <1>1, <1>2, <1>3, <2>2 DEF TypeOK
    <3> QED
      BY <1>3, <1>4, <2>2, <3>1 DEF IInv, Ids
  <2> QED
    BY <2>1, <2>2
<1> QED
  BY <1>5, <1>8, <1>9, <1>10, <1>11, <1>12, <1>13 DEF IInv
-----------------------------------------------------------------------------
(* The invariant holds at the start.                                        *)
LEMMA InitIInv == Init => IInv
<1> SUFFICES ASSUME Init PROVE IInv
  OBVIOUS
<1>1. PICK s \in Session, m \in Mutexes :
    /\ mutex = [t \in Session |-> IF t = s THEN m ELSE Nobody]
    /\ family = [t \in Session |-> t]
    /\ pc = [t \in Session |-> IF t = s THEN "idle" ELSE "none"]
    /\ cur = [t \in Session |-> 1] /\ meaning = [t \in Session |-> Start]
    /\ tainted = [t \in Session |-> FALSE]
    /\ owner = [n \in Mutexes |-> Nobody]
    /\ home = [n \in Mutexes |-> n = m] /\ poisoned = [n \in Mutexes |-> FALSE]
    /\ table = [n \in Mutexes |-> IF n = m THEN <<Start>> ELSE <<>>]
    /\ known = [n \in Mutexes |-> {}]
    /\ fuel = [n \in Mutexes |-> StepFuel]
    /\ error = [n \in Mutexes |-> FALSE]
    /\ blame = [n \in Mutexes |-> Nobody]
  BY DEF Init
<1>2. Start \in Descr /\ StepFuel \in Nat /\ Nobody \notin Mutexes
  BY DEF SharedLexerAssumption
<1>3. <<Start>> \in Seq(Descr) /\ <<>> \in Seq(Descr) /\ Len(<<Start>>) = 1 /\ <<Start>>[1] = Start
  BY <1>2
<1>4. table \in [Mutexes -> Seq(Descr)]
  BY <1>1, <1>3
<1>5. home \in [Mutexes -> BOOLEAN]
  <2>1. \A n \in Mutexes : (n = m) \in BOOLEAN
    BY Zenon
  <2> QED
    BY <1>1, <2>1, Zenon
<1>6. TypeOK
  BY <1>1, <1>2, <1>4, <1>5 DEF TypeOK, Phase
<1>7. Held /\ Holds /\ Homes /\ Taints /\ Knows
  BY <1>1 DEF Held, Holds, Homes, Taints, Knows, Holding
<1>8. Ids
  BY <1>1, <1>3 DEF Ids
<1> QED
  BY <1>6, <1>7, <1>8 DEF IInv

(* Every step keeps the invariant.                                          *)
LEMMA NextIInv == IInv /\ [Next]_vars => IInv'
<1> SUFFICES ASSUME IInv, [Next]_vars PROVE IInv'
  OBVIOUS
<1>1. CASE UNCHANGED vars
  BY <1>1 DEF vars, sessionVars, lockVars, lexerVars, IInv, TypeOK, Held, Holds, Homes,
              Taints, Knows, Ids, Holding
<1>2. ASSUME NEW s \in Session, NEW t \in Session, Clone(s, t) PROVE IInv'
  BY <1>2, CloneStep
<1>3. ASSUME NEW s \in Session, NEW t \in Session, NEW m \in Mutexes, DeepClone(s, t, m)
      PROVE  IInv'
  BY <1>3, DeepCloneStep
<1>4. ASSUME NEW s \in Session, BeginMask(s) PROVE IInv'
  BY <1>4, GotoStep DEF BeginMask, Phase
<1>5. ASSUME NEW s \in Session, LockBias(s) PROVE IInv'
  <2>1. fuel \in [Mutexes -> Nat] /\ tainted \in [Session -> BOOLEAN] /\ mutex[s] \in Mutexes
    BY <1>5 DEF LockBias, Lock, IInv, TypeOK
  <2>2. /\ fuel' = [fuel EXCEPT ![mutex[s]] =
                      IF poisoned[mutex[s]] \/ error[mutex[s]] THEN @ ELSE StepFuel]
        /\ tainted' = [tainted EXCEPT ![s] = FALSE]
        /\ Lock(s, "bias", "bias_locked")
        /\ UNCHANGED <<mutex, family, cur, meaning, table, known, error, blame>>
    BY <1>5 DEF LockBias
  <2>3. fuel' \in [Mutexes -> Nat]
    BY <2>1, <2>2 DEF SharedLexerAssumption
  <2>4. tainted' \in [Session -> BOOLEAN] /\ \A t \in Session : tainted'[t] => tainted[t] /\ t # s
    BY <2>1, <2>2
  <2> QED
    BY <2>2, <2>3, <2>4, LockStep
<1>6. ASSUME NEW s \in Session, UnlockBias(s) PROVE IInv'
  BY <1>6, UnlockBiasStep
<1>7. ASSUME NEW s \in Session, EndMask(s) PROVE IInv'
  BY <1>7, CheckErrorStep DEF EndMask
<1>8. ASSUME NEW s \in Session, BeginApply(s) PROVE IInv'
  BY <1>8, GotoStep DEF BeginApply, Phase
<1>9. ASSUME NEW s \in Session, CheckApply(s) PROVE IInv'
  BY <1>9, CheckErrorStep DEF CheckApply
<1>10. ASSUME NEW s \in Session, LockApply(s) PROVE IInv'
  <2>1. /\ Lock(s, "apply", "apply_locked")
        /\ UNCHANGED <<mutex, family, cur, meaning, tainted, table, known, fuel, error, blame>>
    BY <1>10 DEF LockApply, lexerVars
  <2>2. fuel' \in [Mutexes -> Nat] /\ tainted' \in [Session -> BOOLEAN]
    BY <2>1 DEF IInv, TypeOK
  <2>3. \A t \in Session : tainted'[t] => tainted[t] /\ (t # s \/ "apply_locked" # "bias_locked")
    BY <2>1
  <2> QED
    BY <2>1, <2>2, <2>3, LockStep
<1>11. ASSUME NEW s \in Session, Panic(s) PROVE IInv'
  BY <1>11, PanicStep
<1>12. ASSUME NEW s \in Session, NEW l \in Letter, WalkByte(s, l) PROVE IInv'
  BY <1>12, WalkByteStep
<1>13. ASSUME NEW s \in Session, NEW l \in Letter, ApplyByte(s, l) PROVE IInv'
  BY <1>13, ApplyByteStep
<1> QED
  BY <1>1, <1>2, <1>3, <1>4, <1>5, <1>6, <1>7, <1>8, <1>9, <1>10, <1>11, <1>12, <1>13 DEF Next

(* Every step keeps the invariant.                                          *)
LEMMA Inductive == Spec => []IInv
  BY InitIInv, NextIInv, PTL DEF Spec
-----------------------------------------------------------------------------
(* Every variable keeps to its type.                                        *)
THEOREM TypeCorrect == Spec => []TypeOK
<1>1. IInv => TypeOK
  BY DEF IInv
<1> QED
  BY <1>1, Inductive, PTL

(* with_shared() always finds the lexer in the mutex it has locked, however *)
(* many sessions share it and whichever of them panic.                      *)
THEOREM LexerStaysHome == Spec => []LexerAtHome
<1>1. IInv => LexerAtHome
  <2> SUFFICES ASSUME IInv, NEW s \in Live
               PROVE  LET m == mutex[s]
                      IN  /\ owner[m] = Nobody /\ ~poisoned[m] => home[m]
                          /\ Holding(s) => owner[m] = s /\ ~home[m]
                          /\ owner[m] # Nobody => Holding(owner[m]) /\ mutex[owner[m]] = m
    BY DEF LexerAtHome
  <2>1. s \in Session /\ pc[s] # "none" /\ mutex[s] \in Mutexes
    BY DEF Live, IInv, TypeOK
  <2>2. owner[mutex[s]] = Nobody /\ ~poisoned[mutex[s]] => home[mutex[s]]
    BY <2>1 DEF IInv, Homes
  <2>3. owner[mutex[s]] # Nobody =>
          Holding(owner[mutex[s]]) /\ mutex[owner[mutex[s]]] = mutex[s] /\ ~home[mutex[s]]
    BY <2>1 DEF IInv, Held
  <2>4. Holding(s) => owner[mutex[s]] = s
    BY <2>1 DEF IInv, Holds
  <2>5. s # Nobody
    BY <2>1 DEF SharedLexerAssumption
  <2> QED
    BY <2>2, <2>3, <2>4, <2>5
<1> QED
  BY <1>1, Inductive, PTL

(* The state number each session holds means what its own bytes lead to, in *)
(* every lexer that has not run out of fuel or states.                      *)
THEOREM StateIdsStayValid == Spec => []StateIdsValid
<1>1. IInv => StateIdsValid
  BY DEF IInv, Ids, StateIdsValid, Live
<1> QED
  BY <1>1, Inductive, PTL

(* No mask is handed out that the walk computed with a lexer in error.      *)
THEOREM MasksAreHealthy == Spec => HealthyMask
<1>1. IInv /\ [Next]_vars =>
        [\A s \in Session : pc[s] = "bias_check" /\ pc'[s] = "idle" => ~tainted[s]]_vars
  <2> SUFFICES ASSUME IInv, Next, NEW s \in Session, pc[s] = "bias_check", pc'[s] = "idle"
               PROVE  ~tainted[s]
    OBVIOUS
  <2>1. tainted[s] => error[mutex[s]]
    BY DEF IInv, Taints
  <2>2. pc \in [Session -> Phase]
    BY DEF IInv, TypeOK
  <2>3. EndMask(s)
    <3>1. ASSUME NEW t \in Session, t # s, NEW phase, Goto(t, phase) PROVE FALSE
      BY <2>2, <3>1 DEF Goto
    <3>2. pc' # pc
      OBVIOUS
    <3>3. ASSUME NEW t \in Session, BeginMask(t) \/ LockBias(t) \/ UnlockBias(t) PROVE FALSE
      BY <2>2, <3>3 DEF BeginMask, LockBias, Lock, UnlockBias, Unlock, Goto
    <3>4. ASSUME NEW t \in Session, BeginApply(t) \/ CheckApply(t) \/ LockApply(t) PROVE FALSE
      BY <2>2, <3>4 DEF BeginApply, CheckApply, CheckError, LockApply, Lock, Goto
    <3>5. ASSUME NEW t \in Session, Panic(t) PROVE FALSE
      BY <2>2, <3>5 DEF Panic, Goto, Holding
    <3>6. ASSUME NEW t \in Session, NEW l \in Letter, WalkByte(t, l) \/ ApplyByte(t, l)
          PROVE  FALSE
      <4>1. CASE WalkByte(t, l)
        BY <3>2, <4>1 DEF WalkByte
      <4>2. CASE ApplyByte(t, l)
        <5>1. PICK phase : Goto(t, phase) /\ pc[t] = "apply_locked"
          BY <4>2 DEF ApplyByte, Unlock
        <5> QED
          BY <3>1, <5>1
      <4> QED
        BY <3>6, <4>1, <4>2
    <3>7. ASSUME NEW t \in Session, NEW u \in Session, Clone(u, t) PROVE FALSE
      BY <2>2, <3>7 DEF Clone, Adopt, Goto
    <3>8. ASSUME NEW t \in Session, NEW u \in Session, NEW m \in Mutexes, DeepClone(u, t, m)
          PROVE  FALSE
      BY <2>2, <3>8 DEF DeepClone, Adopt, Goto
    <3>9. ASSUME NEW t \in Session, EndMask(t) PROVE t = s
      BY <3>1, <3>9 DEF EndMask, CheckError
    <3> QED
      BY <3>3, <3>4, <3>5, <3>6, <3>7, <3>8, <3>9 DEF Next
  <2>4. ~error[mutex[s]]
    BY <2>2, <2>3 DEF EndMask, CheckError, Goto
  <2> QED
    BY <2>1, <2>4
<1> QED
  BY <1>1, Inductive, PTL DEF Spec, HealthyMask
-----------------------------------------------------------------------------
(* Who is to blame: sessions that share a mutex come from one clone(), a    *)
(* broken lexer was broken by one of them, and nobody fails without one.    *)

Broken(m) == poisoned[m] \/ error[m]
BrokenNext(m) == poisoned'[m] \/ error'[m]
Kin == \A s, t \in Session :
  pc[s] # "none" /\ pc[t] # "none" /\ mutex[s] = mutex[t] => family[s] = family[t]
Blames == \A m \in Mutexes :
  Broken(m) => blame[m] \in Session /\ pc[blame[m]] # "none" /\ mutex[blame[m]] = m
Fails == \A s \in Session : pc[s] = "failed" => Broken(mutex[s])
BInv == Kin /\ Blames /\ Fails

(* A step of a session that exists.                                         *)
LEMMA BlameStep ==
  ASSUME IInv, BInv, NEW s \in Session, pc[s] # "none",
         NEW phase \in Phase \ {"none"}, pc' = [pc EXCEPT ![s] = phase],
         mutex' = mutex, family' = family,
         \A m \in Mutexes : Broken(m) => BrokenNext(m),
         \A m \in Mutexes : BrokenNext(m) =>
            (Broken(m) /\ blame'[m] = blame[m]) \/ (m = mutex[s] /\ blame'[m] = s),
         phase = "failed" => BrokenNext(mutex[s])
  PROVE  BInv'
<1>1. pc \in [Session -> Phase] /\ \A t \in Session : pc[t] # "none" => mutex[t] \in Mutexes
  BY DEF IInv, TypeOK
<1>2. pc'[s] = phase /\ \A t \in Session : t # s => pc'[t] = pc[t]
  BY <1>1
<1>3. \A t \in Session : pc'[t] # "none" <=> pc[t] # "none"
  BY <1>2
<1>4. Kin'
  BY <1>3 DEF BInv, Kin
<1>5. Blames'
  BY <1>3 DEF BInv, Blames, Broken, BrokenNext
<1>6. Fails'
  BY <1>1, <1>2 DEF BInv, Fails, Broken, BrokenNext
<1> QED
  BY <1>4, <1>5, <1>6 DEF BInv

(* Steps that only move a session, or take or give back the mutex.          *)
LEMMA BlameMoveStep ==
  ASSUME IInv, BInv, NEW s \in Session, pc[s] # "none",
         NEW phase \in Phase \ {"none"}, Goto(s, phase),
         UNCHANGED <<mutex, family, poisoned, error, blame>>,
         phase = "failed" => Broken(mutex[s])
  PROVE  BInv'
<1>1. pc' = [pc EXCEPT ![s] = phase]
  BY DEF Goto
<1>2. \A m \in Mutexes : BrokenNext(m) <=> Broken(m)
  BY DEF Broken, BrokenNext
<1>3. mutex[s] \in Mutexes
  BY DEF IInv, TypeOK
<1>4. mutex' = mutex /\ family' = family /\ blame' = blame
  OBVIOUS
<1>5. phase = "failed" => BrokenNext(mutex[s])
  BY <1>2, <1>3
<1>6. \A m \in Mutexes : BrokenNext(m) =>
        (Broken(m) /\ blame'[m] = blame[m]) \/ (m = mutex[s] /\ blame'[m] = s)
  BY <1>2, <1>4
<1> QED
  BY <1>1, <1>2, <1>4, <1>5, <1>6, BlameStep

(* A session takes the mutex.                                               *)
LEMMA BlameLockStep ==
  ASSUME IInv, BInv, NEW s \in Session, NEW from \in {"bias", "apply"},
         NEW to \in {"bias_locked", "apply_locked"}, Lock(s, from, to),
         UNCHANGED <<mutex, family, error, blame>>
  PROVE  BInv'
<1>1. pc[s] = from /\ poisoned' = poisoned
  BY DEF Lock
<1>2. CASE poisoned[mutex[s]]
  BY <1>1, <1>2, BlameMoveStep DEF Lock, Phase, Broken
<1>3. CASE ~poisoned[mutex[s]]
  BY <1>1, <1>3, BlameMoveStep DEF Lock, Phase
<1> QED
  BY <1>2, <1>3

(* A session checks the error flag.                                         *)
LEMMA BlameCheckStep ==
  ASSUME IInv, BInv, NEW s \in Session, NEW from \in Phase \ {"none"},
         NEW to \in Phase \ {"none", "failed"}, CheckError(s, from, to)
  PROVE  BInv'
<1>1. /\ pc[s] = from /\ UNCHANGED <<mutex, family, poisoned, error, blame>>
      /\ Goto(s, IF poisoned[mutex[s]] \/ error[mutex[s]] THEN "failed" ELSE to)
  BY DEF CheckError, lockVars, lexerVars
<1>2. CASE Broken(mutex[s])
  BY <1>1, <1>2, BlameMoveStep DEF Broken, BrokenNext, Phase
<1>3. CASE ~Broken(mutex[s])
  BY <1>1, <1>3, BlameMoveStep DEF Broken, BrokenNext, Phase
<1> QED
  BY <1>2, <1>3

(* A step that extends the automaton breaks the lexer or leaves it healthy. *)
LEMMA DeriveBlame ==
  ASSUME IInv, NEW s \in Session, NEW l \in Letter, NEW d \in Descr,
         pc[s] # "none", ~error[mutex[s]], Derive(s, l, d), poisoned' = poisoned
  PROVE  /\ \A m \in Mutexes : Broken(m) => BrokenNext(m)
         /\ \A m \in Mutexes : BrokenNext(m) =>
              (Broken(m) /\ blame'[m] = blame[m]) \/ (m = mutex[s] /\ blame'[m] = s)
         /\ d # Step[<<table[mutex[s]][cur[s]], l>>] => error'[mutex[s]]
<1> DEFINE n == mutex[s]
<1>1. /\ n \in Mutexes /\ fuel \in [Mutexes -> Nat] /\ error \in [Mutexes -> BOOLEAN]
      /\ blame \in [Mutexes -> Session \cup {Nobody}]
  BY DEF IInv, TypeOK
<1>2. /\ fuel' = [fuel EXCEPT ![n] = IF @ = 0 THEN 0 ELSE @ - 1]
      /\ error' = [error EXCEPT ![n] = fuel'[n] = 0 \/ Len(table'[n]) >= MaxStates]
      /\ blame' = [blame EXCEPT ![n] = IF error'[n] THEN s ELSE @]
      /\ d = Step[<<table[n][cur[s]], l>>] \/ fuel[n] <= 1
  BY DEF Derive
<1> HIDE DEF n
<1>3. \A m \in Mutexes : m # n => error'[m] = error[m] /\ blame'[m] = blame[m]
  BY <1>1, <1>2
<1>4. error'[n] => blame'[n] = s
  BY <1>1, <1>2
<1>5. ~error'[n] => blame'[n] = blame[n]
  BY <1>1, <1>2
<1>6. fuel[n] <= 1 => error'[n]
  <2>1. fuel[n] \in Nat /\ fuel'[n] = IF fuel[n] = 0 THEN 0 ELSE fuel[n] - 1
    BY <1>1, <1>2
  <2>2. fuel'[n] = 0 => error'[n]
    BY <1>1, <1>2
  <2> QED
    BY <2>1, <2>2
<1>7. ~error[n]
  BY DEF n
<1>8. \A m \in Mutexes : Broken(m) => BrokenNext(m)
  BY <1>3, <1>7 DEF Broken, BrokenNext
<1>9. \A m \in Mutexes : BrokenNext(m) =>
        (Broken(m) /\ blame'[m] = blame[m]) \/ (m = n /\ blame'[m] = s)
  BY <1>3, <1>4, <1>5 DEF Broken, BrokenNext
<1>10. d # Step[<<table[n][cur[s]], l>>] => error'[n]
  BY <1>2, <1>6
<1> QED
  BY <1>8, <1>9, <1>10 DEF n

(* A session walks the trie.                                                *)
LEMMA BlameWalkStep ==
  ASSUME IInv, BInv, NEW s \in Session, NEW l \in Letter, WalkByte(s, l)
  PROVE  BInv'
<1>1. /\ pc[s] = "bias_locked" /\ UNCHANGED <<mutex, family, pc, poisoned>>
      /\ pc \in [Session -> Phase]
  BY DEF WalkByte, lockVars, IInv, TypeOK
<1>2. pc' = [pc EXCEPT ![s] = "bias_locked"]
  BY <1>1
<1>3. CASE UNCHANGED <<lexerVars, blame>>
  <2>1. \A m \in Mutexes : BrokenNext(m) <=> Broken(m)
    BY <1>1, <1>3 DEF Broken, BrokenNext, lexerVars
  <2>2. blame' = blame
    BY <1>3
  <2>3. mutex' = mutex /\ family' = family /\ "bias_locked" \in Phase \ {"none"}
    BY <1>1 DEF Phase
  <2>4. \A m \in Mutexes : BrokenNext(m) =>
          (Broken(m) /\ blame'[m] = blame[m]) \/ (m = mutex[s] /\ blame'[m] = s)
    BY <2>1, <2>2
  <2> QED
    BY <1>1, <1>2, <2>1, <2>3, <2>4, BlameStep
<1>4. ASSUME NEW d \in Descr, ~error[mutex[s]], Derive(s, l, d) PROVE BInv'
  BY <1>1, <1>2, <1>4, DeriveBlame, BlameStep DEF Phase
<1> QED
  BY <1>3, <1>4 DEF WalkByte, Lookup

(* A session applies a byte.                                                *)
LEMMA BlameApplyStep ==
  ASSUME IInv, BInv, NEW s \in Session, NEW l \in Letter, ApplyByte(s, l)
  PROVE  BInv'
<1>1. /\ pc[s] = "apply_locked" /\ UNCHANGED <<mutex, family>>
  BY DEF ApplyByte
<1>2. CASE error[mutex[s]] /\ Unlock(s, "failed") /\ UNCHANGED <<cur, meaning, lexerVars, blame>>
  <2>1. Goto(s, "failed") /\ UNCHANGED <<poisoned, error, blame>>
    BY <1>2 DEF Unlock, lexerVars
  <2> QED
    BY <1>1, <1>2, <2>1, BlameMoveStep DEF Phase, Broken
<1>3. CASE ~error[mutex[s]]
  <2>1. Step[<<meaning[s], l>>] # Dead
    BY <1>3 DEF ApplyByte
  <2>2. table[mutex[s]][cur[s]] = meaning[s]
    BY <1>1, <1>3 DEF IInv, Ids
  <2>3. PICK d \in Descr :
          /\ (d = Step[<<table[mutex[s]][cur[s]], l>>] /\ Lookup(s, l)) \/ Derive(s, l, d)
          /\ Unlock(s, IF d = Dead THEN "failed" ELSE "idle")
    BY <1>3, Zenon DEF ApplyByte
  <2>4. poisoned' = poisoned /\ pc' = [pc EXCEPT ![s] = IF d = Dead THEN "failed" ELSE "idle"]
    BY <2>3 DEF Unlock, Goto
  <2>5. (IF d = Dead THEN "failed" ELSE "idle") \in Phase \ {"none"}
    BY DEF Phase
  <2>6. CASE d = Step[<<table[mutex[s]][cur[s]], l>>] /\ Lookup(s, l)
    <3>1. d # Dead /\ UNCHANGED <<error, blame>>
      BY <2>1, <2>2, <2>6 DEF Lookup, lexerVars
    <3>2. Goto(s, "idle")
      BY <2>4, <3>1 DEF Goto
    <3> QED
      BY <1>1, <2>4, <3>1, <3>2, BlameMoveStep DEF Phase
  <2>7. CASE Derive(s, l, d)
    <3>1. d = Dead => error'[mutex[s]]
      BY <1>1, <1>3, <2>1, <2>2, <2>4, <2>7, DeriveBlame
    <3>2. (IF d = Dead THEN "failed" ELSE "idle") = "failed" => BrokenNext(mutex[s])
      BY <1>1, <3>1 DEF Broken, BrokenNext
    <3> QED
      BY <1>1, <1>3, <2>4, <2>5, <2>7, <3>2, DeriveBlame, BlameStep
  <2> QED
    BY <2>3, <2>6, <2>7
<1> QED
  BY <1>2, <1>3 DEF ApplyByte

(* A session panics.                                                        *)
LEMMA BlamePanicStep ==
  ASSUME IInv, BInv, NEW s \in Session, Panic(s)
  PROVE  BInv'
<1>1. /\ Holding(s) /\ pc' = [pc EXCEPT ![s] = "failed"]
      /\ mutex' = mutex /\ family' = family /\ error' = error
      /\ poisoned' = [poisoned EXCEPT ![mutex[s]] = TRUE]
      /\ blame' = [blame EXCEPT ![mutex[s]] = s]
  BY DEF Panic, Goto, lexerVars
<1>2. /\ mutex[s] \in Mutexes /\ pc[s] # "none" /\ poisoned \in [Mutexes -> BOOLEAN]
      /\ blame \in [Mutexes -> Session \cup {Nobody}]
  BY <1>1 DEF Holding, IInv, TypeOK
<1>3. /\ poisoned'[mutex[s]] /\ blame'[mutex[s]] = s
      /\ \A m \in Mutexes : m # mutex[s] => poisoned'[m] = poisoned[m] /\ blame'[m] = blame[m]
  BY <1>1, <1>2
<1>4. \A m \in Mutexes : Broken(m) => BrokenNext(m)
  BY <1>1, <1>3 DEF Broken, BrokenNext
<1>5. \A m \in Mutexes : BrokenNext(m) =>
        (Broken(m) /\ blame'[m] = blame[m]) \/ (m = mutex[s] /\ blame'[m] = s)
  BY <1>1, <1>3 DEF Broken, BrokenNext
<1>6. BrokenNext(mutex[s]) /\ "failed" \in Phase \ {"none"}
  BY <1>3 DEF BrokenNext, Phase
<1> QED
  BY <1>1, <1>2, <1>4, <1>5, <1>6, BlameStep

(* clone().                                                                 *)
LEMMA BlameCloneStep ==
  ASSUME IInv, BInv, NEW s \in Session, NEW t \in Session, Clone(s, t)
  PROVE  BInv'
<1>1. /\ pc[s] = "idle" /\ pc[t] = "none" /\ s # t
      /\ mutex' = [mutex EXCEPT ![t] = mutex[s]] /\ pc' = [pc EXCEPT ![t] = "idle"]
      /\ family' = [family EXCEPT ![t] = family[s]]
      /\ poisoned' = poisoned /\ error' = error /\ blame' = blame
  BY DEF Clone, Adopt, Goto, lockVars, lexerVars
<1>2. /\ mutex[s] \in Mutexes /\ pc \in [Session -> Phase] /\ family \in [Session -> Session]
      /\ mutex \in [Session -> Mutexes \cup {Nobody}]
  BY <1>1 DEF IInv, TypeOK
<1>3. /\ mutex'[t] = mutex[s] /\ pc'[t] = "idle" /\ family'[t] = family[s]
      /\ \A u \in Session : u # t =>
           mutex'[u] = mutex[u] /\ pc'[u] = pc[u] /\ family'[u] = family[u]
  BY <1>1, <1>2
<1>4. Kin'
  BY <1>1, <1>3 DEF BInv, Kin
<1>5. Blames'
  BY <1>1, <1>3 DEF BInv, Blames, Broken
<1>6. Fails'
  BY <1>1, <1>3 DEF BInv, Fails, Broken
<1> QED
  BY <1>4, <1>5, <1>6 DEF BInv

(* deep_clone().                                                            *)
LEMMA BlameDeepCloneStep ==
  ASSUME IInv, BInv, NEW s \in Session, NEW t \in Session, NEW m \in Mutexes,
         DeepClone(s, t, m)
  PROVE  BInv'
<1> DEFINE n == mutex[s]
<1>1. /\ pc[s] = "idle" /\ pc[t] = "none" /\ s # t /\ \A u \in Session : mutex[u] # m
      /\ mutex' = [mutex EXCEPT ![t] = m] /\ pc' = [pc EXCEPT ![t] = "idle"]
      /\ family' = [family EXCEPT ![t] = t] /\ poisoned' = poisoned /\ ~poisoned[n]
      /\ error' = [error EXCEPT ![m] = error[n]]
      /\ blame' = [blame EXCEPT ![m] = IF blame[n] = Nobody THEN Nobody ELSE t]
  BY DEF DeepClone, Adopt, Goto
<1>2. /\ n \in Mutexes /\ pc \in [Session -> Phase] /\ family \in [Session -> Session]
      /\ mutex \in [Session -> Mutexes \cup {Nobody}] /\ error \in [Mutexes -> BOOLEAN]
      /\ blame \in [Mutexes -> Session \cup {Nobody}]
  BY <1>1 DEF IInv, TypeOK
<1> HIDE DEF n
<1>3. /\ mutex'[t] = m /\ pc'[t] = "idle"
      /\ \A u \in Session : u # t =>
           mutex'[u] = mutex[u] /\ pc'[u] = pc[u] /\ family'[u] = family[u]
  BY <1>1, <1>2
<1>4. /\ error'[m] = error[n] /\ blame'[m] = IF blame[n] = Nobody THEN Nobody ELSE t
      /\ \A o \in Mutexes : o # m => error'[o] = error[o] /\ blame'[o] = blame[o]
  BY <1>1, <1>2
<1>5. ~Broken(m)
  BY <1>1 DEF BInv, Blames
<1>6. error'[m] => blame'[m] = t
  <2>1. Broken(n) => blame[n] \in Session
    BY <1>2 DEF BInv, Blames
  <2> QED
    BY <1>4, <2>1 DEF Broken
<1>7. Kin'
  BY <1>1, <1>3 DEF BInv, Kin
<1>8. Blames'
  <2> SUFFICES ASSUME NEW o \in Mutexes, poisoned'[o] \/ error'[o]
               PROVE  blame'[o] \in Session /\ pc'[blame'[o]] # "none" /\ mutex'[blame'[o]] = o
    BY DEF Blames, Broken
  <2>1. CASE o = m
    BY <1>1, <1>3, <1>5, <1>6, <2>1 DEF Broken
  <2>2. CASE o # m
    <3>1. Broken(o) /\ blame'[o] = blame[o]
      BY <1>1, <1>4, <2>2 DEF Broken
    <3>2. blame[o] \in Session /\ pc[blame[o]] # "none" /\ mutex[blame[o]] = o
      BY <3>1 DEF BInv, Blames
    <3> QED
      BY <1>1, <1>3, <3>1, <3>2
  <2> QED
    BY <2>1, <2>2
<1>9. Fails'
  <2> SUFFICES ASSUME NEW u \in Session, pc'[u] = "failed"
               PROVE  poisoned'[mutex'[u]] \/ error'[mutex'[u]]
    BY DEF Fails, Broken
  <2>1. u # t /\ pc[u] = "failed" /\ mutex'[u] = mutex[u]
    BY <1>3
  <2>2. mutex[u] \in Mutexes /\ mutex[u] # m
    BY <1>1, <2>1 DEF IInv, TypeOK
  <2> QED
    BY <1>1, <1>4, <2>1, <2>2 DEF BInv, Fails, Broken
<1> QED
  BY <1>7, <1>8, <1>9 DEF BInv

(* The second invariant holds at the start.                                 *)
LEMMA InitBInv == Init => BInv
  BY DEF Init, BInv, Kin, Blames, Fails, Broken

(* Every step keeps the second invariant.                                   *)
LEMMA NextBInv == IInv /\ BInv /\ [Next]_vars => BInv'
<1> SUFFICES ASSUME IInv, BInv, [Next]_vars PROVE BInv'
  OBVIOUS
<1>1. CASE UNCHANGED vars
  BY <1>1 DEF vars, sessionVars, lockVars, lexerVars, BInv, Kin, Blames, Fails, Broken
<1>2. ASSUME NEW s \in Session, NEW t \in Session, Clone(s, t) PROVE BInv'
  BY <1>2, BlameCloneStep
<1>3. ASSUME NEW s \in Session, NEW t \in Session, NEW m \in Mutexes, DeepClone(s, t, m)
      PROVE  BInv'
  BY <1>3, BlameDeepCloneStep
<1>4. ASSUME NEW s \in Session, BeginMask(s) \/ BeginApply(s) PROVE BInv'
  BY <1>4, BlameMoveStep DEF BeginMask, BeginApply, Phase, lockVars, lexerVars
<1>5. ASSUME NEW s \in Session, LockBias(s) PROVE BInv'
  BY <1>5, BlameLockStep DEF LockBias
<1>6. ASSUME NEW s \in Session, UnlockBias(s) PROVE BInv'
  BY <1>6, BlameMoveStep DEF UnlockBias, Unlock, Phase, lexerVars
<1>7. ASSUME NEW s \in Session, EndMask(s) \/ CheckApply(s) PROVE BInv'
  BY <1>7, BlameCheckStep DEF EndMask, CheckApply, Phase
<1>8. ASSUME NEW s \in Session, LockApply(s) PROVE BInv'
  BY <1>8, BlameLockStep DEF LockApply, lexerVars
<1>9. ASSUME NEW s \in Session, Panic(s) PROVE BInv'
  BY <1>9, BlamePanicStep
<1>10. ASSUME NEW s \in Session, NEW l \in Letter, WalkByte(s, l) \/ ApplyByte(s, l)
       PROVE  BInv'
  BY <1>10, BlameWalkStep, BlameApplyStep
<1> QED
  BY <1>1, <1>2, <1>3, <1>4, <1>5, <1>6, <1>7, <1>8, <1>9, <1>10 DEF Next

(* A session that fails does so over a lexer that a session of its own      *)
(* clone() family broke: deep_clone() isolates.                             *)
THEOREM FailureStaysInFamily == Spec => []FailsOnlyByItsFamily
<1>1. IInv /\ BInv => FailsOnlyByItsFamily
  <2> SUFFICES ASSUME IInv, BInv, NEW s \in Session, pc[s] = "failed"
               PROVE  blame[mutex[s]] \in Session /\ family[blame[mutex[s]]] = family[s]
    BY DEF FailsOnlyByItsFamily
  <2>1. Broken(mutex[s]) /\ mutex[s] \in Mutexes
    BY DEF BInv, Fails, IInv, TypeOK
  <2>2. /\ blame[mutex[s]] \in Session /\ pc[blame[mutex[s]]] # "none"
        /\ mutex[blame[mutex[s]]] = mutex[s]
    BY <2>1 DEF BInv, Blames
  <2> QED
    BY <2>2 DEF BInv, Kin
<1>2. Spec => []BInv
  BY Inductive, InitBInv, NextBInv, PTL DEF Spec
<1> QED
  BY <1>1, <1>2, Inductive, PTL
=============================================================================
