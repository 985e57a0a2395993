---------------------------- MODULE BlockDevice ----------------------------
(***************************************************************************)
(* What a ublk device promises its users, with no worker, ring or driver   *)
(* in it: requests that overlap in time behave as if each took effect at   *)
(* one instant between its issue and its answer (the per-block register    *)
(* model of porcupine_integration_test.go), and a request answered with an *)
(* error may have taken effect on any part of its extent, but never        *)
(* outside it.                                                             *)
(***************************************************************************)
EXTENDS Integers

CONSTANTS Slots,     \* requests that can be outstanding at a time
          Blocks,    \* the blocks of the device
          Values,    \* contents of a block
          Zero       \* the contents of a zeroed block

VARIABLES mem,       \* the device's contents
          phase,     \* per slot: "idle", "pending", "ok" or "failed"
          req,       \* per slot: the request
          seen,      \* per slot: what a read that took effect saw
          ans        \* the answer given last, and for which slot

vars == <<mem, phase, req, seen, ans>>

Contents == [Blocks -> Values]
Blank == [b \in Blocks |-> Zero]
Extent(d) == {b \in Blocks : d.blk <= b /\ b < d.blk + d.len}
Over(f, S, g) == [b \in Blocks |-> IF b \in S THEN g[b] ELSE f[b]]

(* What a request that takes effect may leave in its blocks: a discard     *)
(* leaves them undefined.                                                  *)
Effects(d) ==
    CASE d.op = "read"    -> {mem}
      [] d.op = "write"   -> {[b \in Blocks |-> d.val]}
      [] d.op = "zeroes"  -> {Blank}
      [] OTHER            -> Contents

Init ==
    /\ mem = Blank
    /\ phase = [s \in Slots |-> "idle"]
    /\ seen = [s \in Slots |-> Blank]
    /\ ans.st = "none"

(* A user issues a request.                                                *)
Issue(s) ==
    /\ phase[s] = "idle"
    /\ phase' = [phase EXCEPT ![s] = "pending"]
    /\ \A u \in Slots \ {s} : req'[u] = req[u]
    /\ UNCHANGED <<mem, seen, ans>>

(* The request takes effect: the point it is linearized at.                *)
TakeEffect(s) ==
    /\ phase[s] = "pending"
    /\ \E new \in Effects(req[s]) : mem' = Over(mem, Extent(req[s]), new)
    /\ phase' = [phase EXCEPT ![s] = "ok"]
    /\ seen' = IF req[s].op = "read"
               THEN [seen EXCEPT ![s] = Over(Blank, Extent(req[s]), mem)]
               ELSE seen
    /\ UNCHANGED <<req, ans>>

(* The request fails, possibly with part of its effect.                    *)
Fail(s) ==
    /\ phase[s] = "pending"
    /\ \E new \in Effects(req[s]), part \in SUBSET Extent(req[s]) :
          mem' = Over(mem, part, new)
    /\ phase' = [phase EXCEPT ![s] = "failed"]
    /\ UNCHANGED <<req, seen, ans>>

(* Success is only ever answered after the effect, with what a read saw.   *)
AnswerOK(s) ==
    /\ phase[s] = "ok"
    /\ phase' = [phase EXCEPT ![s] = "idle"]
    /\ ans' = [tag |-> s, st |-> "ok",
               val |-> IF req[s].op = "read" THEN seen[s] ELSE Blank]
    /\ seen' = [seen EXCEPT ![s] = Blank]
    /\ UNCHANGED <<mem, req>>

(* An error may be answered at any time.                                   *)
AnswerError(s) ==
    /\ phase[s] # "idle"
    /\ phase' = [phase EXCEPT ![s] = "idle"]
    /\ \E e \in {"EIO", "EOPNOTSUPP"} :
          ans' = [tag |-> s, st |-> e, val |-> Blank]
    /\ seen' = [seen EXCEPT ![s] = Blank]
    /\ UNCHANGED <<mem, req>>

Next == \E s \in Slots : \/ Issue(s) \/ TakeEffect(s) \/ Fail(s)
                         \/ AnswerOK(s) \/ AnswerError(s)

Spec == Init /\ [][Next]_vars
=============================================================================
