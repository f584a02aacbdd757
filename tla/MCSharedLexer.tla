---------------------------- MODULE MCSharedLexer ---------------------------
EXTENDS SharedLexer, TLC

(* Three descriptors that lead to each other, and the dead one.             *)
MCDescr == 0..3
MCStep == [x \in MCDescr \X {"a", "b"} |->
             CASE x[1] = 0 -> 0
               [] x[1] = 1 -> IF x[2] = "a" THEN 2 ELSE 3
               [] x[1] = 2 -> IF x[2] = "a" THEN 3 ELSE 1
               [] x[1] = 3 -> IF x[2] = "a" THEN 2 ELSE 0]

(* Sessions are alike, and so are mutexes.                                  *)
Symmetry == Permutations(Session) \cup Permutations(Mutexes)
=============================================================================
