------------------------------ MODULE RingFifo ------------------------------
(***************************************************************************)
(* The submission side of a uring.Ring seen as a queue: what GetSQE64,     *)
(* GetSQE128, Submit and SubmitAndWait do to the SQEs, with no ring index  *)
(* in sight.  Module Ring implements it; the modules of the worker and of  *)
(* the control path are written on top of it.                              *)
(***************************************************************************)
EXTENDS Integers, Sequences

CONSTANT SQEntries     \* slots of the submission ring

VARIABLES
    sq,         \* SQEs handed out and not consumed by the kernel, oldest first
    unflushed,  \* sqeLocalTail - sqeLocalHead: what the next flush counts
    want, got   \* io_uring_enter in progress: asked for, consumed so far

sqVars == <<sq, unflushed, want, got>>

(* sq after its next slot has been filled with s.  With SQEntries or more  *)
(* SQEs outstanding the slot is still that of an older one.                *)
Fill(s) ==
    Append(IF Len(sq) < SQEntries THEN sq
           ELSE [i \in DOMAIN sq |->
                   IF (Len(sq) + 1 - i) % SQEntries = 0 THEN s ELSE sq[i]], s)

(* nextSQE: only when the locally known head says full is the kernel's     *)
(* head read.  Still full: a nil SQE, nothing is queued.                   *)
SQFull == unflushed >= SQEntries /\ Len(sq) >= SQEntries

(* GetSQE64 or GetSQE128, and the caller fills the slot with s.            *)
PushSQE(s) ==
    /\ ~SQFull
    /\ unflushed' = 1 + (IF unflushed >= SQEntries THEN Len(sq) ELSE unflushed)
    /\ sq' = Fill(s)
    /\ UNCHANGED <<want, got>>

(* The SQE is nil; the kernel's head stays behind as the local one.        *)
NilSQE ==
    /\ SQFull
    /\ unflushed' = Len(sq)
    /\ UNCHANGED <<sq, want, got>>

(* flushSQ: everything pending is published and counted as submitted       *)
(* before io_uring_enter says how much of it the kernel took.              *)
FlushSQ ==
    /\ want' = unflushed
    /\ got' = 0
    /\ unflushed' = 0
    /\ UNCHANGED sq

(* io_uring_enter consumes the oldest published SQE.                       *)
ConsumeSQE ==
    /\ got < want
    /\ sq # <<>>
    /\ sq' = Tail(sq)
    /\ got' = got + 1
    /\ UNCHANGED <<unflushed, want>>

(* io_uring_enter returns: what was published and not consumed stays in    *)
(* the ring, where no later flush counts it again.                         *)
EnterReturns ==
    /\ want' = 0 /\ got' = 0
    /\ UNCHANGED <<sq, unflushed>>

FifoInit == sq = <<>> /\ unflushed = 0 /\ want = 0 /\ got = 0

(* One client, which fills an SQE with some member of S.                   *)
FifoNext(S) ==
    \/ want = 0 /\ (NilSQE \/ FlushSQ \/ \E s \in S : PushSQE(s))
    \/ ConsumeSQE \/ EnterReturns
=============================================================================
