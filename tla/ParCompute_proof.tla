-------------------------- MODULE ParCompute_proof --------------------------
(***************************************************************************)
(* CalledBackOnceAtEnd and MaskOrError of ParCompute hold for any number   *)
(* of constraints, calls and worker threads.  The invariant adds to them   *)
(* that calls in flight share no constraint (Apart) and that a step which  *)
(* has ended has already left its mask or its error (Done).                *)
(***************************************************************************)
EXTENDS ParCompute, TLAPS

Apart ==
  \A j, k \in Calls :
    j # k /\ InFlight(j) /\ InFlight(k) => call[j].steps \cap call[k].steps = {}

Done ==
  \A k \in Calls, c \in Constraints :
    HasStep(k, c) /\ pc[c] = "written" => dest[k][c] = "fresh" \/ last_res[c] = Gone

IInv == TypeOK /\ Apart /\ CalledBackOnceAtEnd /\ Done /\ MaskOrError

(* The invariant holds before the first call.                              *)
LEMMA InitIInv == Init => IInv
  BY DEF Init, IInv, TypeOK, Apart, CalledBackOnceAtEnd, Done, MaskOrError,
         NoCall, CallRecords, InFlight, HasStep, Results, Stages, Buffers, Gone

(* Making a call, refused or not, disturbs no other call.                  *)
LEMMA PrepareIInv ==
  ASSUME IInv, NEW k \in Calls, NEW S \in SUBSET Constraints, NEW cb \in BOOLEAN,
         Prepare(k, S, cb)
  PROVE  IInv'
<1> USE DEF IInv, Prepare
<1>0. \E at \in {"prepared", "failed"} :
        call' = [call EXCEPT ![k] = [at |-> at, steps |-> S, cb |-> cb]]
  OBVIOUS
<1>1. TypeOK'
  <2>1. call' \in [Calls -> CallRecords]
    <3>1. \A at \in {"prepared", "failed"} :
            [at |-> at, steps |-> S, cb |-> cb] \in CallRecords
      BY DEF CallRecords
    <3> QED
      BY <1>0, <3>1 DEF TypeOK
  <2>2. called' \in [Calls -> Nat]
    BY DEF TypeOK
  <2>3. dest' \in [Calls -> [Constraints -> Buffers]]
    BY DEF TypeOK, Buffers
  <2> QED
    BY <2>1, <2>2, <2>3 DEF TypeOK
<1>2. Apart'
  BY DEF TypeOK, Apart, Unused, InFlight
<1>3. CalledBackOnceAtEnd'
  <2>1. \A j \in Calls : j # k => call'[j] = call[j] /\ called'[j] = called[j]
    BY DEF TypeOK
  <2>2. \/ call'[k].at = "prepared" /\ called'[k] = 0
        \/ /\ call'[k].at = "failed" /\ call'[k].cb = cb
           /\ called'[k] = (IF cb THEN 1 ELSE 0)
    BY DEF TypeOK
  <2>3. \A j \in Calls, c \in Constraints : HasStep(j, c) => HasStep(j, c)'
    BY <2>1 DEF InFlight, HasStep
  <2> QED
    BY <2>1, <2>2, <2>3 DEF CalledBackOnceAtEnd, InFlight
<1>4. Done'
  BY <1>0 DEF TypeOK, Done, HasStep
<1>5. MaskOrError'
  BY <1>0 DEF TypeOK, MaskOrError
<1> QED
  BY <1>1, <1>2, <1>3, <1>4, <1>5

(* Committing a token touches a constraint no call in flight has.          *)
LEMMA CommitIInv ==
  ASSUME IInv, NEW c \in Constraints, CommitToken(c)
  PROVE  IInv'
<1> USE DEF IInv, CommitToken
<1>1. TypeOK'
  BY DEF TypeOK, Results
<1>2. Apart' /\ CalledBackOnceAtEnd'
  BY DEF Apart, CalledBackOnceAtEnd, InFlight, HasStep
<1>3. Done' /\ MaskOrError'
  BY DEF TypeOK, Done, MaskOrError, Unused, InFlight, HasStep, Gone
<1> QED
  BY <1>1, <1>2, <1>3

(* Queueing the steps of a call.                                           *)
LEMMA EnqueueIInv ==
  ASSUME IInv, NEW k \in Calls, call[k].at = "prepared", Enqueue(k)
  PROVE  IInv'
<1> USE DEF IInv, Enqueue
<1>1. TypeOK'
  BY DEF TypeOK, CallRecords, Stages
<1>2. Apart'
  BY DEF TypeOK, Apart, InFlight, CallRecords
<1>3. CalledBackOnceAtEnd'
  BY DEF TypeOK, CalledBackOnceAtEnd, InFlight, HasStep, CallRecords
<1>4. Done'
  BY DEF TypeOK, Done, HasStep, CallRecords
<1>5. MaskOrError'
  BY DEF TypeOK, MaskOrError, CallRecords
<1> QED
  BY <1>1, <1>2, <1>3, <1>4, <1>5

(* The callback of a call that could not be spawned.                       *)
LEMMA SpawnFailsIInv ==
  ASSUME IInv, NEW k \in Calls, call[k].at = "prepared", call[k].cb, SpawnFails(k)
  PROVE  IInv'
<1> USE DEF IInv, SpawnFails
<1>1. TypeOK'
  <2>1. call' \in [Calls -> CallRecords]
    BY DEF TypeOK, CallRecords
  <2>2. called' \in [Calls -> Nat]
    BY DEF TypeOK
  <2> QED
    BY <2>1, <2>2 DEF TypeOK
<1>2. Apart'
  BY DEF TypeOK, Apart, InFlight, CallRecords
<1>3. CalledBackOnceAtEnd'
  BY DEF TypeOK, CalledBackOnceAtEnd, InFlight, HasStep, CallRecords
<1>4. Done' /\ MaskOrError'
  BY DEF TypeOK, Done, MaskOrError, HasStep, CallRecords
<1> QED
  BY <1>1, <1>2, <1>3, <1>4

(* The end of a call: all its steps have ended, so Done is what            *)
(* MaskOrError asks of it.                                                 *)
LEMMA CompleteIInv ==
  ASSUME IInv, NEW k \in Calls, Complete(k)
  PROVE  IInv'
<1> USE DEF IInv, Complete
<1>1. TypeOK'
  BY DEF TypeOK, CallRecords, Stages
<1>2. Apart'
  BY DEF TypeOK, Apart, InFlight, CallRecords
<1>3. CalledBackOnceAtEnd'
  BY DEF TypeOK, CalledBackOnceAtEnd, InFlight, HasStep, AllEnded, CallRecords
<1>4. Done'
  BY DEF TypeOK, Done, HasStep, CallRecords
<1>5. MaskOrError'
  BY DEF TypeOK, MaskOrError, Done, HasStep, AllEnded, CallRecords
<1> QED
  BY <1>1, <1>2, <1>3, <1>4, <1>5

(* A worker's step disturbs the buffer and the constraint of its own call  *)
(* only: by Apart no other call in flight has the constraint.              *)
LEMMA WorkIInv ==
  ASSUME IInv, NEW k \in Calls, NEW c \in Constraints, Work(k, c)
  PROVE  IInv'
<1> USE DEF IInv, Work, Take, Refuse, PassOver, ComputeMask, CopyMask, ZeroRest, Goto
<1>0. HasStep(k, c) /\ pc[c] # "free" /\ UNCHANGED <<call, called>>
  OBVIOUS
<1>1. TypeOK'
  <2>1. pc' \in [Constraints -> Stages]
    BY DEF TypeOK, Stages
  <2>2. last_res' \in [Constraints -> Results \cup {Gone}]
    BY DEF TypeOK, Results
  <2>3. dest' \in [Calls -> [Constraints -> Buffers]]
    <3>1. dest \in [Calls -> [Constraints -> Buffers]]
      BY DEF TypeOK
    <3>2. dest' = dest \/ \E b \in Buffers : dest' = [dest EXCEPT ![k][c] = b]
      BY DEF Buffers
    <3>3. \A b \in Buffers : [dest EXCEPT ![k][c] = b] \in [Calls -> [Constraints -> Buffers]]
      BY <3>1
    <3> QED
      BY <3>1, <3>2, <3>3
  <2> QED
    BY <1>0, <2>1, <2>2, <2>3 DEF TypeOK
<1>2. Apart'
  BY <1>0 DEF Apart, InFlight
<1>3. CalledBackOnceAtEnd'
  BY <1>0 DEF TypeOK, CalledBackOnceAtEnd, InFlight, HasStep
<1>4. \A j \in Calls : j # k => ~HasStep(j, c)
  BY <1>0 DEF Apart, InFlight, HasStep
<1>5. Done'
  BY <1>0, <1>4 DEF TypeOK, Done, HasStep, Gone
<1>6. MaskOrError'
  <2>1. \A j \in Calls : call[j].at = "over" => dest'[j] = dest[j]
    BY <1>0 DEF TypeOK, HasStep
  <2>2. \A d \in Constraints : last_res[d] = Gone => last_res'[d] = Gone
    BY DEF TypeOK
  <2>3. \A j \in Calls : call[j].steps \subseteq Constraints
    BY DEF TypeOK, CallRecords
  <2> QED
    BY <1>0, <2>1, <2>2, <2>3 DEF MaskOrError
<1> QED
  BY <1>1, <1>2, <1>3, <1>5, <1>6

(* Every step preserves the invariant.                                     *)
LEMMA NextIInv == IInv /\ [Next]_vars => IInv'
<1> SUFFICES ASSUME IInv, [Next]_vars PROVE IInv'
  OBVIOUS
<1>1. ASSUME NEW k \in Calls, NEW S \in SUBSET Constraints, NEW cb \in BOOLEAN,
             Prepare(k, S, cb)
      PROVE  IInv'
  BY <1>1, PrepareIInv
<1>2. ASSUME NEW c \in Constraints, CommitToken(c) PROVE IInv'
  BY <1>2, CommitIInv
<1>3. ASSUME NEW k \in Calls, Library(k) PROVE IInv'
  <2>1. CASE Spawn(k)
    BY <2>1, EnqueueIInv, SpawnFailsIInv DEF Spawn
  <2>2. CASE RunInline(k)
    BY <2>2, EnqueueIInv DEF RunInline
  <2>3. CASE Complete(k)
    BY <2>3, CompleteIInv
  <2> QED
    BY <1>3, <2>1, <2>2, <2>3 DEF Library
<1>4. ASSUME NEW k \in Calls, NEW c \in Constraints, Work(k, c) PROVE IInv'
  BY <1>4, WorkIInv
<1>5. CASE UNCHANGED vars
  BY <1>5 DEF vars, IInv, TypeOK, Apart, CalledBackOnceAtEnd, Done, MaskOrError,
              InFlight, HasStep
<1> QED
  BY <1>1, <1>2, <1>3, <1>4, <1>5 DEF Next, Server

(* The invariant holds throughout.                                          *)
LEMMA AlwaysIInv == Spec => []IInv
  BY InitIInv, NextIInv, PTL DEF Spec

(* Whatever fails on the way, done_cb is invoked exactly once for a call   *)
(* that asked for it, and only when no worker is at a step of the call.    *)
THEOREM CallbackCorrect == Spec => []CalledBackOnceAtEnd
  BY AlwaysIInv, PTL DEF IInv

(* A call that ran left a whole mask or an error for every one of its      *)
(* steps, however many workers, steps and other calls there are.           *)
THEOREM MasksComplete == Spec => []MaskOrError
  BY AlwaysIInv, PTL DEF IInv
=============================================================================
