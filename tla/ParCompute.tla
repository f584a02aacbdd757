----------------------------- MODULE ParCompute -----------------------------
(***************************************************************************)
(* llg_par_compute_mask(): a server computes the masks of several          *)
(* constraints on a pool of worker threads (rayon, external) and is called *)
(* back when the last one is written.  Calls over different constraints    *)
(* may be in flight together; between them the server commits the tokens   *)
(* it sampled.  The parser behind a constraint answers with a mask, a      *)
(* stop, an error or a panic; which one is left open.                      *)
(***************************************************************************)
EXTENDS Naturals, FiniteSets

CONSTANTS
  Constraints, \* the handles of the server
  Calls,       \* calls the server may have in flight
  Workers      \* threads of the pool

ASSUME ParComputeAssumption == Workers \in Nat \ {0}

VARIABLES
  last_res, \* [Constraints -> last result, or Gone once an error is set]
  dest,     \* [Calls -> [Constraints -> the mask buffer given for the step]]
  pc,       \* [Constraints -> where its step is, "free" if it has none]
  call,     \* [Calls -> [at, steps, cb]]
  called    \* [Calls -> how often done_cb was invoked for the call]

vars == <<last_res, dest, pc, call, called>>

Gone == "gone"
Results == {"noop", "sample", "splice", "stop"}
Stages == {"free", "queued", "checking", "computed", "copied", "written"}
Buffers == {"stale", "partial", "fresh"}
CallRecords == [at : {"idle", "prepared", "running", "failed", "over"},
                steps : SUBSET Constraints, cb : BOOLEAN]

TypeOK ==
  /\ last_res \in [Constraints -> Results \cup {Gone}]
  /\ dest \in [Calls -> [Constraints -> Buffers]]
  /\ pc \in [Constraints -> Stages]
  /\ call \in [Calls -> CallRecords]
  /\ called \in [Calls -> Nat]

NoCall == [at |-> "idle", steps |-> {}, cb |-> FALSE]
Init ==
  /\ last_res \in [Constraints -> {"noop", Gone}]
  /\ dest = [k \in Calls |-> [c \in Constraints |-> "stale"]]
  /\ pc = [c \in Constraints |-> "free"]
  /\ call = [k \in Calls |-> NoCall]
  /\ called = [k \in Calls |-> 0]

InFlight(k) == call[k].at \in {"prepared", "running"}
HasStep(k, c) == call[k].at = "running" /\ c \in call[k].steps

-----------------------------------------------------------------------------
(* The server's side.  No two calls in flight share a constraint, and a    *)
(* constraint in a call is not used otherwise: the API asks for both.      *)

Unused(S) == \A k \in Calls : InFlight(k) => call[k].steps \cap S = {}

(* Copying the steps may panic; the callback is then invoked at once.      *)
Prepare(k, S, cb) ==
  /\ ~InFlight(k) /\ Unused(S)
  /\ \/ /\ call' = [call EXCEPT ![k] = [at |-> "prepared", steps |-> S, cb |-> cb]]
        /\ called' = [called EXCEPT ![k] = 0]
     \/ /\ call' = [call EXCEPT ![k] = [at |-> "failed", steps |-> S, cb |-> cb]]
        /\ called' = [called EXCEPT ![k] = IF cb THEN 1 ELSE 0]
  /\ dest' = [dest EXCEPT ![k] = [c \in Constraints |-> "stale"]]
  /\ UNCHANGED <<last_res, pc>>

(* commit_token() consumes the token sampled with the last mask; without a *)
(* mask it repeats its last answer, or fails where the server does not     *)
(* take fast-forward tokens; after a stop it answers stop.  A failure sets *)
(* an error, which drops the constraint for good.                          *)
CommitToken(c) ==
  /\ Unused({c}) /\ last_res[c] \in {"noop", "sample", "splice"}
  /\ \E r \in {IF last_res[c] = "sample" THEN "splice" ELSE last_res[c], Gone} :
       last_res' = [last_res EXCEPT ![c] = r]
  /\ UNCHANGED <<dest, pc, call, called>>

-----------------------------------------------------------------------------
(* The call's side.                                                        *)

Enqueue(k) ==
  /\ call' = [call EXCEPT ![k].at = "running"]
  /\ pc' = [c \in Constraints |-> IF c \in call[k].steps THEN "queued" ELSE pc[c]]
  /\ UNCHANGED <<last_res, dest, called>>

(* rayon::spawn() may panic before the task exists; done_cb is then        *)
(* invoked by the caller's thread.                                         *)
SpawnFailsSilently(k) ==  \* variant
  /\ call' = [call EXCEPT ![k].at = "failed"]
  /\ UNCHANGED <<last_res, dest, pc, called>>
SpawnFails(k) ==
  /\ call' = [call EXCEPT ![k].at = "failed"]
  /\ called' = [called EXCEPT ![k] = @ + 1]
  /\ UNCHANGED <<last_res, dest, pc>>
Spawn(k) ==
  /\ call[k].at = "prepared" /\ call[k].cb
  /\ Enqueue(k) \/ SpawnFails(k)

(* Without a callback the caller waits for the pool.                       *)
RunInline(k) ==
  /\ call[k].at = "prepared" /\ ~call[k].cb
  /\ Enqueue(k)

(* When every step has ended the task invokes done_cb, or the caller of    *)
(* the synchronous form returns.                                           *)
AllBegun(k) == \A c \in call[k].steps : pc[c] # "queued"  \* variant
AllEnded(k) == \A c \in call[k].steps : pc[c] = "written"
Complete(k) ==
  /\ call[k].at = "running" /\ AllEnded(k)
  /\ call' = [call EXCEPT ![k].at = "over"]
  /\ called' = [called EXCEPT ![k] = IF call[k].cb THEN @ + 1 ELSE @]
  /\ pc' = [c \in Constraints |->
              IF c \in call[k].steps /\ pc[c] = "written" THEN "free" ELSE pc[c]]
  /\ UNCHANGED <<last_res, dest>>

-----------------------------------------------------------------------------
(* The pool's side: one worker takes a step from its check to its end.     *)

Running == {c \in Constraints : pc[c] \in {"checking", "computed", "copied"}}
Goto(k, c, from, to) ==
  /\ HasStep(k, c) /\ pc[c] = from
  /\ pc' = [pc EXCEPT ![c] = to]
  /\ UNCHANGED <<call, called>>

Take(k, c) ==
  /\ Cardinality(Running) < Workers
  /\ Goto(k, c, "queued", "checking")
  /\ UNCHANGED <<last_res, dest>>

(* A buffer that is missing or not whole words, or a panic that reaches    *)
(* the step: an error is set and the buffer is left as it was.             *)
Refuse(k, c) ==
  /\ Goto(k, c, "checking", "written")
  /\ last_res' = [last_res EXCEPT ![c] = Gone]
  /\ UNCHANGED dest

(* A handle in error is passed over, with its buffer.                      *)
PassOver(k, c) ==
  /\ last_res[c] = Gone
  /\ Goto(k, c, "checking", "written")
  /\ UNCHANGED <<last_res, dest>>

(* compute_mask(): an error after a stop; otherwise a mask, a stop (the    *)
(* parser is done or nothing can follow) or an error.                      *)
ComputeMask(k, c) ==
  /\ last_res[c] # Gone
  /\ Goto(k, c, "checking", "computed")
  /\ \E r \in IF last_res[c] = "stop" THEN {Gone} ELSE {"sample", "stop", Gone} :
       last_res' = [last_res EXCEPT ![c] = r]
  /\ UNCHANGED dest

(* The mask, if there is one, is copied; then the rest of the buffer is    *)
(* zeroed, and the end-of-sequence bit set on a stop.                      *)
CopyMask(k, c) ==
  /\ Goto(k, c, "computed", "copied")
  /\ dest' = [dest EXCEPT ![k][c] = "partial"]
  /\ UNCHANGED last_res
ZeroRestOnlyOnStop(k, c) ==  \* variant: a stop alone clears the words not copied
  /\ Goto(k, c, "copied", "written")
  /\ dest' = [dest EXCEPT ![k][c] = IF last_res[c] = "sample" THEN @ ELSE "fresh"]
  /\ UNCHANGED last_res
ZeroRest(k, c) ==
  /\ Goto(k, c, "copied", "written")
  /\ dest' = [dest EXCEPT ![k][c] = "fresh"]
  /\ UNCHANGED last_res

-----------------------------------------------------------------------------
Server ==
  \/ \E k \in Calls, S \in SUBSET Constraints, cb \in BOOLEAN : Prepare(k, S, cb)
  \/ \E c \in Constraints : CommitToken(c)
Library(k) == Spawn(k) \/ RunInline(k) \/ Complete(k)
Work(k, c) ==
  \/ Take(k, c) \/ Refuse(k, c) \/ PassOver(k, c) \/ ComputeMask(k, c)
  \/ CopyMask(k, c) \/ ZeroRest(k, c)
Next ==
  \/ Server
  \/ \E k \in Calls : Library(k)
  \/ \E k \in Calls, c \in Constraints : Work(k, c)

(* A call once made goes on to its end: compute_mask() returns, and what   *)
(* is queued is taken in turn, so that later calls do not keep a step      *)
(* waiting for ever.                                                       *)
Fairness ==
  /\ \A k \in Calls : WF_vars(Library(k))
  /\ \A k \in Calls, c \in Constraints :
       WF_vars(Work(k, c)) /\ SF_vars(Take(k, c))

Spec == Init /\ [][Next]_vars /\ Fairness

-----------------------------------------------------------------------------
(* Properties.                                                             *)

(* "done_cb" is invoked once for a call that asked for it, however it      *)
(* went: by the pool, or by the caller's thread if preparing or spawning   *)
(* failed.  When it is, the pool has let go of the call's constraints and  *)
(* buffers: a worker is at a constraint only for a call that still runs.   *)
CalledBackOnceAtEnd ==
  /\ \A k \in Calls :
       /\ InFlight(k) => called[k] = 0
       /\ call[k].at \in {"failed", "over"} =>
            called[k] = (IF call[k].cb THEN 1 ELSE 0)
  /\ \A c \in Constraints : pc[c] # "free" => \E k \in Calls : HasStep(k, c)

(* A call that ran left each of its steps a mask written to its last word, *)
(* or an error on the handle: a step that fails, or panics, does not take  *)
(* the other steps of its call with it, and no mask is left half written.  *)
MaskOrError ==
  \A k \in Calls :
    call[k].at = "over" =>
      \A c \in call[k].steps : dest[k][c] = "fresh" \/ last_res[c] = Gone

(* Every asynchronous call is answered, whatever fails on the way and      *)
(* however many other calls the server makes.                              *)
Answered ==
  \A k \in Calls : (call[k].at = "prepared" /\ call[k].cb) ~> (called[k] = 1)
=============================================================================
