-------------------------------- MODULE Ring --------------------------------
(***************************************************************************)
(* The io_uring instance of package uring, index by index: the submission  *)
(* ring with its cached head and tail, the completion ring, WaitCQE with   *)
(* its cancel flag and eventfd.  Three goroutines use it the way worker.run *)
(* and fuzz_test.go do: a submitter, a consumer and a canceller.  The      *)
(* kernel is external.                                                     *)
(***************************************************************************)
EXTENDS Sizes, Sequences, FiniteSets

CONSTANTS
    Entries,        \* argument of New and NewSQE128
    Width,          \* bits of a ring index (32 in the code)
    UserData,       \* user data of SQEs, each reused once its CQE is seen
    NoData,         \* what a slot holds before its first use
    MaxOutstanding, \* bound: SQEs handed out and not consumed
    SyscallsFail,   \* io_uring_enter may fail
    ShortSubmits    \* io_uring_enter may consume fewer SQEs than asked

VARIABLES
    sqeLocalHead, sqeLocalTail,     \* the submitter's cached indices
    sqHead, sqTail,                 \* shared with the kernel
    sqArray, sqes,                  \* shared: index array, SQE slots
    cqHead, cqTail, cqes,           \* shared: completion ring
    spc, want, got,                 \* submitter, io_uring_enter in progress
    left,                           \* an io_uring_enter left SQEs behind
    cpc, held,                      \* consumer, the user data it copied
    cancelled, eventfd, kpc,        \* Ring.cancelled, eventfd, canceller
    late,                           \* WaitCQE was called after Cancel returned
    life                            \* per user data: where its request is

subVars == <<sqeLocalHead, sqeLocalTail, spc, want, got, left>>
sqShared == <<sqHead, sqTail, sqArray, sqes>>
cqShared == <<cqHead, cqTail, cqes>>
conVars == <<cpc, held, late>>
canVars == <<cancelled, eventfd, kpc>>
vars == <<subVars, sqShared, cqShared, conVars, canVars, life>>

sqEntries == roundUp2(Entries)
cqEntries == 2 * sqEntries
Indices == 0 .. (2^Width - 1)

(* uint32 arithmetic, and index & mask for a power of two.                 *)
Plus(a, b) == (a + b) % 2^Width
Minus(a, b) == (a - b) % 2^Width
SQSlot(i) == i % sqEntries
CQSlot(i) == i % cqEntries

(* The sizes are powers of two, and the rings smaller than the index space. *)
ASSUME RingAssumption ==
    /\ Entries \in Nat \ {0} /\ Width \in Nat
    /\ {sqEntries, 2^Width} \subseteq Nat \ {0}
    /\ cqEntries < 2^Width /\ 2^Width % cqEntries = 0
    /\ MaxOutstanding \in Nat /\ MaxOutstanding < 2^Width

(* The SQEs handed out that the kernel has not consumed, and the CQEs not  *)
(* seen.                                                                   *)
Outstanding ==
    [i \in 1 .. Minus(sqeLocalTail, sqHead) |-> sqes[SQSlot(sqHead + i - 1)]]
Unseen == [i \in 1 .. Minus(cqTail, cqHead) |-> cqes[CQSlot(cqHead + i - 1)]]

-----------------------------------------------------------------------------
Init ==
    /\ sqeLocalHead = 0 /\ sqeLocalTail = 0
    /\ sqHead = 0 /\ sqTail = 0
    /\ cqHead = 0 /\ cqTail = 0
    /\ sqArray = [i \in 0 .. sqEntries - 1 |-> 0]
    /\ sqes = [i \in 0 .. sqEntries - 1 |-> NoData]
    /\ cqes = [i \in 0 .. cqEntries - 1 |-> NoData]
    /\ spc = "idle" /\ want = 0 /\ got = 0
    /\ cpc = "idle" /\ held = NoData
    /\ left = FALSE /\ late = FALSE
    /\ cancelled = FALSE /\ eventfd = FALSE /\ kpc = "idle"
    /\ life = [u \in UserData |-> "free"]

-----------------------------------------------------------------------------
(* nextSQE: the head it compares with, after reading sqHead if needed.     *)
HeadSeen == IF Minus(sqeLocalTail, sqeLocalHead) >= sqEntries
            THEN sqHead ELSE sqeLocalHead

MutOneTooMany(u) ==
    /\ spc = "idle" /\ life[u] = "free"
    /\ Minus(sqeLocalTail, sqHead) < MaxOutstanding
    /\ Minus(sqeLocalTail, HeadSeen) <= sqEntries
    /\ sqeLocalHead' = HeadSeen
    /\ sqeLocalTail' = Plus(sqeLocalTail, 1)
    /\ sqes' = [sqes EXCEPT ![SQSlot(sqeLocalTail)] = u]
    /\ life' = [life EXCEPT ![u] = "queued"]
    /\ UNCHANGED <<spc, want, got, left, sqHead, sqTail, sqArray, cqShared, conVars,
                   canVars>>

(* GetSQE64 or GetSQE128 returns a slot, the caller fills it.              *)
GetSQE(u) ==
    /\ spc = "idle" /\ life[u] = "free"
    /\ Minus(sqeLocalTail, sqHead) < MaxOutstanding
    /\ Minus(sqeLocalTail, HeadSeen) < sqEntries
    /\ sqeLocalHead' = HeadSeen
    /\ sqeLocalTail' = Plus(sqeLocalTail, 1)
    /\ sqes' = [sqes EXCEPT ![SQSlot(sqeLocalTail)] = u]
    /\ life' = [life EXCEPT ![u] = "queued"]
    /\ UNCHANGED <<spc, want, got, left, sqHead, sqTail, sqArray, cqShared, conVars,
                   canVars>>

(* GetSQE64 or GetSQE128 returns nil.                                      *)
GetSQENil ==
    /\ spc = "idle"
    /\ Minus(sqeLocalTail, HeadSeen) >= sqEntries
    /\ sqeLocalHead' = HeadSeen
    /\ UNCHANGED <<sqeLocalTail, spc, want, got, left, sqShared, cqShared, conVars,
                   canVars, life>>

MutKeepsLocalHead ==
    LET count == Minus(sqeLocalTail, sqeLocalHead)
        flushed == {SQSlot(sqeLocalHead + i) : i \in 0 .. count - 1}
    IN  /\ sqArray' = [i \in DOMAIN sqArray |->
                         IF i \in flushed THEN i ELSE sqArray[i]]
        /\ sqTail' = IF count = 0 THEN sqTail ELSE sqeLocalTail
        /\ want' = count /\ got' = 0
        /\ UNCHANGED sqeLocalHead

(* flushSQ: publish the pending SQEs in the index array, move the tail.    *)
FlushSQ ==
    LET count == Minus(sqeLocalTail, sqeLocalHead)
        flushed == {SQSlot(sqeLocalHead + i) : i \in 0 .. count - 1}
    IN  /\ sqArray' = [i \in DOMAIN sqArray |->
                         IF i \in flushed THEN i ELSE sqArray[i]]
        /\ sqTail' = IF count = 0 THEN sqTail ELSE sqeLocalTail
        /\ sqeLocalHead' = sqeLocalTail
        /\ want' = count /\ got' = 0

(* Submit: flush, and enter the kernel if there was anything to flush.     *)
Submit ==
    /\ spc = "idle"
    /\ FlushSQ
    /\ spc' = IF want' = 0 THEN "idle" ELSE "enter"
    /\ UNCHANGED <<sqeLocalTail, left, sqHead, sqes, cqShared, conVars, canVars,
                   life>>

(* SubmitAndWait: flush and always enter.                                  *)
SubmitAndWait ==
    /\ spc = "idle"
    /\ FlushSQ
    /\ spc' = "enter"
    /\ UNCHANGED <<sqeLocalTail, left, sqHead, sqes, cqShared, conVars, canVars,
                   life>>

(* io_uring_enter returns a count, or fails having consumed nothing.       *)
EnterReturns ==
    /\ spc = "enter"
    /\ \/ got = want
       \/ ShortSubmits /\ got > 0
       \/ SyscallsFail /\ got = 0
    /\ spc' = "idle" /\ want' = 0 /\ got' = 0
    /\ left' = (left \/ got < want)
    /\ UNCHANGED <<sqeLocalHead, sqeLocalTail, sqShared, cqShared, conVars,
                   canVars, life>>

(* The kernel consumes the SQE at its head (external).                     *)
KConsume ==
    /\ spc = "enter" /\ got < want
    /\ sqHead # sqTail
    /\ sqHead' = Plus(sqHead, 1)
    /\ got' = got + 1
    /\ LET u == sqes[sqArray[SQSlot(sqHead)]]
       IN  life' = [life EXCEPT ![u] = IF @ = "queued" THEN "inflight" ELSE "twice"]
    /\ UNCHANGED <<sqeLocalHead, sqeLocalTail, spc, want, left, sqTail, sqArray,
                   sqes, cqShared, conVars, canVars>>

(* The kernel posts the CQE of a request it works on (external); with the  *)
(* completion ring full it keeps it back.                                  *)
KComplete(u) ==
    /\ life[u] = "inflight"
    /\ Minus(cqTail, cqHead) < cqEntries
    /\ cqes' = [cqes EXCEPT ![CQSlot(cqTail)] = u]
    /\ cqTail' = Plus(cqTail, 1)
    /\ life' = [life EXCEPT ![u] = "posted"]
    /\ UNCHANGED <<subVars, sqShared, cqHead, conVars, canVars>>

-----------------------------------------------------------------------------
(* The consumer calls WaitCQE.                                             *)
CallWait ==
    /\ cpc = "idle"
    /\ cpc' = "wait"
    /\ late' = (kpc = "returned")
    /\ UNCHANGED <<subVars, sqShared, cqShared, held, canVars, life>>

MutFlagNotChecked ==
    /\ cpc = "wait"
    /\ cpc' = "load"
    /\ UNCHANGED <<subVars, sqShared, cqShared, held, late, canVars, life>>

(* WaitCQE: the flag first ...                                             *)
CheckCancelled ==
    /\ cpc = "wait"
    /\ cpc' = IF cancelled THEN "ErrCancelled" ELSE "load"
    /\ UNCHANGED <<subVars, sqShared, cqShared, held, late, canVars, life>>

(* ... then the completion ring ...                                        *)
LoadCQ ==
    /\ cpc = "load"
    /\ cpc' = IF cqHead # cqTail THEN "cqe" ELSE "epoll"
    /\ UNCHANGED <<subVars, sqShared, cqShared, held, late, canVars, life>>

(* ... then epoll_wait on the ring and the eventfd.                        *)
EpollWait ==
    /\ cpc = "epoll"
    /\ eventfd \/ cqHead # cqTail
    /\ cpc' = IF eventfd THEN "ErrCancelled" ELSE "wait"
    /\ UNCHANGED <<subVars, sqShared, cqShared, held, late, canVars, life>>

(* EINTR looks again, another error of epoll_wait is returned.             *)
EpollInterrupted ==
    /\ cpc = "epoll"
    /\ cpc' \in {"wait"} \cup (IF SyscallsFail THEN {"idle"} ELSE {})
    /\ UNCHANGED <<subVars, sqShared, cqShared, held, late, canVars, life>>

(* PeekCQE: the next CQE, or nil.                                          *)
PeekCQE ==
    /\ cpc = "idle" /\ cqHead # cqTail
    /\ cpc' = "cqe"
    /\ late' = FALSE
    /\ UNCHANGED <<subVars, sqShared, cqShared, held, canVars, life>>

(* The caller copies what the CQE pointer points to ...                    *)
ReadCQE ==
    /\ cpc = "cqe"
    /\ held' = cqes[CQSlot(cqHead)]
    /\ cpc' = "read"
    /\ UNCHANGED <<subVars, sqShared, cqShared, late, canVars, life>>

MutSeenTwice ==
    /\ cpc = "read"
    /\ cqHead' = Plus(cqHead, 2)
    /\ cpc' = "idle"
    /\ life' = [life EXCEPT ![held] = IF @ = "posted" THEN "free" ELSE "twice"]
    /\ UNCHANGED <<subVars, sqShared, cqTail, cqes, held, late, canVars>>

(* ... and SeenCQE frees the slot; the user data may be used again.        *)
SeenCQE ==
    /\ cpc = "read"
    /\ cqHead' = Plus(cqHead, 1)
    /\ cpc' = "idle"
    /\ life' = [life EXCEPT ![held] = IF @ = "posted" THEN "free" ELSE "twice"]
    /\ UNCHANGED <<subVars, sqShared, cqTail, cqes, held, late, canVars>>

(* Cancel: the flag, then the eventfd.                                     *)
CancelStore ==
    /\ kpc = "idle"
    /\ cancelled' = TRUE
    /\ kpc' = "wake"
    /\ UNCHANGED <<subVars, sqShared, cqShared, conVars, eventfd, life>>

MutNoWake ==
    /\ kpc = "wake"
    /\ kpc' = "returned"
    /\ UNCHANGED <<subVars, sqShared, cqShared, conVars, cancelled, eventfd, life>>

(* Cancel: the eventfd.                                                    *)
CancelWake ==
    /\ kpc = "wake"
    /\ eventfd' = TRUE
    /\ kpc' = "returned"
    /\ UNCHANGED <<subVars, sqShared, cqShared, conVars, cancelled, life>>

-----------------------------------------------------------------------------
Submitter == (\E u \in UserData : GetSQE(u)) \/ GetSQENil \/ Submit
             \/ SubmitAndWait \/ EnterReturns
Kernel == KConsume \/ \E u \in UserData : KComplete(u)
Waiting == CheckCancelled \/ LoadCQ \/ EpollWait
Consumer == CallWait \/ Waiting \/ EpollInterrupted \/ PeekCQE \/ ReadCQE
            \/ SeenCQE
Canceller == CancelStore \/ CancelWake

Next == Submitter \/ Kernel \/ Consumer \/ Canceller

Spec == Init /\ [][Next]_vars

(* A thread inside WaitCQE or Cancel keeps running.                        *)
FairSpec == Spec /\ WF_vars(Waiting) /\ WF_vars(CancelWake)

-----------------------------------------------------------------------------
(* Types; what io_uring_enter is still asked for is really in the ring.     *)
TypeOK ==
    /\ {sqeLocalHead, sqeLocalTail, sqHead, sqTail, cqHead, cqTail} \subseteq Indices
    /\ sqArray \in [0 .. sqEntries - 1 -> 0 .. sqEntries - 1]
    /\ sqes \in [0 .. sqEntries - 1 -> UserData \cup {NoData}]
    /\ cqes \in [0 .. cqEntries - 1 -> UserData \cup {NoData}]
    /\ spc \in {"idle", "enter"}
    /\ want \in Nat /\ got \in 0 .. want /\ want - got <= Len(Outstanding)
    /\ cpc \in {"idle", "wait", "load", "epoll", "cqe", "read", "ErrCancelled"}
    /\ held \in UserData \cup {NoData}
    /\ {cancelled, eventfd, late, left} \subseteq BOOLEAN
    /\ kpc \in {"idle", "wake", "returned"}
    /\ life \in [UserData -> {"free", "queued", "inflight", "posted", "twice"}]

(* Every SQE handed out is consumed once and completed once: no user data  *)
(* is consumed or seen twice, the slots hold exactly the queued requests   *)
(* and the completion ring exactly the posted ones, over any number of     *)
(* wrap-arounds of the indices (FuzzRingSubmit's accounting), as long as   *)
(* no io_uring_enter has failed or taken fewer SQEs than flushSQ counted.  *)
ExactlyOnce == ~left =>
    /\ \A u \in UserData : life[u] # "twice"
    /\ {u \in UserData : life[u] = "queued"} = {Outstanding[i] : i \in DOMAIN Outstanding}
    /\ {u \in UserData : life[u] = "posted"} = {Unseen[i] : i \in DOMAIN Unseen}
    /\ Cardinality({u \in UserData : life[u] = "queued"}) = Len(Outstanding)

(* The indices lie in order around the ring, also after a short submit,    *)
(* when nextSQE has taken sqeLocalHead back to the kernel's head.          *)
InOrder ==
    /\ Minus(sqeLocalTail, sqeLocalHead) <= Minus(sqeLocalTail, sqHead)
    /\ Minus(sqTail, sqHead) <= Minus(sqeLocalTail, sqHead)
    /\ spc = "idle" => want = 0 /\ got = 0
    /\ spc = "enter" => sqeLocalHead = sqeLocalTail

(* As long as whole batches are taken: what is flushed is what the current *)
(* io_uring_enter consumes, each SQE through its own entry of the array,   *)
(* no slot is reused early, and the consumer holds the oldest CQE.         *)
InStep == ~left =>
    /\ spc = "idle" => sqeLocalHead = sqHead /\ sqTail = sqHead
    /\ spc = "enter" => /\ sqTail = sqeLocalTail
                        /\ want - got = Minus(sqTail, sqHead)
    /\ Minus(sqeLocalTail, sqHead) <= sqEntries
    /\ spc = "enter" => \A i \in 0 .. Minus(sqTail, sqHead) - 1 :
                            sqArray[SQSlot(sqHead + i)] = SQSlot(sqHead + i)
    /\ cpc \in {"cqe", "read"} => cqHead # cqTail
    /\ cpc = "read" => held = Unseen[1]

(* Each request is in the slots as often as its life says.                 *)
Distinct(s) == \A i, j \in DOMAIN s : s[i] = s[j] => i = j
Contents(s) == {s[i] : i \in DOMAIN s}
InSlots == ~left =>
    /\ \A u \in UserData : life[u] # "twice"
    /\ {u \in UserData : life[u] = "queued"} = Contents(Outstanding)
    /\ {u \in UserData : life[u] = "posted"} = Contents(Unseen)
    /\ Distinct(Outstanding) /\ Distinct(Unseen)

(* Cancel sets the flag before it returns, and a call of WaitCQE that came *)
(* after its return is past the flag only with ErrCancelled.               *)
FlagFirst ==
    /\ kpc # "idle" => cancelled
    /\ late => kpc = "returned" /\ cpc \notin {"load", "epoll", "cqe"}

(* The inductive invariant behind the properties of the ring.              *)
RingInv == TypeOK /\ InOrder /\ InStep /\ InSlots /\ FlagFirst

(* "GetSQE64 returns a zeroed 64-byte SQE, or nil if full": a slot is only *)
(* handed out when fewer than sqEntries SQEs are unconsumed.               *)
NilIfFull == Len(Outstanding) <= sqEntries

(* "Cancel makes all subsequent WaitCQE calls return ErrCancelled": a call *)
(* made after Cancel returned never yields a CQE, even with one ready.     *)
CancelSticks == late => cpc \notin {"load", "epoll", "cqe"}

(* A goroutine blocked in WaitCQE when Cancel is called gets out of it.    *)
CancelWakes == (cancelled /\ cpc \in {"wait", "load", "epoll"})
               ~> (cpc \notin {"wait", "load", "epoll"})

(* Index by index, the ring is the queue of module RingFifo.               *)
Fifo == INSTANCE RingFifo WITH
    SQEntries <- sqEntries,
    sq <- Outstanding,
    unflushed <- Minus(sqeLocalTail, sqeLocalHead)

ImplementsFifo ==
    Fifo!FifoInit /\ [][Fifo!FifoNext(UserData)]_(Fifo!sqVars)
=============================================================================
