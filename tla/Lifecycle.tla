----------------------------- MODULE Lifecycle -----------------------------
(***************************************************************************)
(* A device from the call of New to the return of Close: the options,      *)
(* openDevice, addDev, openCharDev, setParams, worker.init, startDev, and  *)
(* shutdown, as New's cleanup and behind Close's sync.Once, with every     *)
(* error path of them, and with the setup of the two rings handle by       *)
(* handle.  Control commands go through the control ring (ctrlCommand),    *)
(* which is the queue of module RingFifo with four entries; the worker     *)
(* goroutine is only started, armed, cancelled and ended here, its loop is *)
(* module UblkQueue.  The arithmetic is module Sizes.  The kernel is       *)
(* external.                                                               *)
(***************************************************************************)
EXTENDS RingFifo, Sizes, FiniteSets

CONSTANTS
    Calls,          \* the arguments New may be called with
    Sectors,        \* positions and lengths of requests looked at, in sectors
    DevIds,         \* device numbers the kernel can assign, 0 .. n
    Closers,        \* goroutines that may call Close
    MaxTries,       \* attempts of openCharDev (50 in the code)
    KernelTakes,    \* command encodings of the kernel: "ioctl", "legacy"
    CommandsFail,   \* the kernel may refuse any control command
    OpensFail,      \* open, io_uring_setup and mmap may fail, and the
                    \* FETCHes, as a whole or some of them
    SubmitFails,    \* io_uring_enter on the control ring may fail
    WaitFails       \* epoll_wait on the control ring may fail

ASSUME LifecycleAssumption ==
    /\ {MaxTries, SQEntries} \subseteq Nat \ {0} /\ Sectors \subseteq Nat
    /\ DevIds \subseteq Nat
    /\ KernelTakes \in SUBSET {"ioctl", "legacy"}
    /\ \A a \in Calls : /\ a.backend \in {"nil", "set"}
                        /\ a.caps \subseteq {"discard", "zeroes"}
                        /\ a.size \in Nat
                        /\ \A f \in DOMAIN a.opts : a.opts[f] \in Nat
    /\ {CommandsFail, OpensFail, SubmitFails, WaitFails} \subseteq BOOLEAN

VARIABLES
    call,       \* the arguments of New
    at,         \* the step New or shutdown is at
    phase,      \* inside ctrlCommand: issue, submit, enter, wait
    ccq,        \* CQEs of the control ring not seen
    running,    \* kernel: control commands being executed
    handles,    \* what is open or mapped
    id,         \* Device.id
    info,       \* info.DevID and info.MaxIOBufBytes, which the kernel writes
    bufSize,    \* New's bufSize, later worker.bufSize
    useIoctl,   \* Device.useIoctl
    tries,      \* failed attempts of openCharDev
    workers,    \* Device.workers is not empty
    worker,     \* the goroutine of worker.run
    ready,      \* the channel ready
    armed,      \* kernel: it has the FETCHes of all tags
    cancelled,  \* the worker's ring has been cancelled
    kdev,       \* kernel: per device number, its state
    params,     \* kernel: what the last SET_PARAMS set
    node,       \* kernel: the character device nodes in /dev
    opener,     \* somebody has the block device open
    caller,     \* per goroutine: its call of Close
    once,       \* Device.closeOnce
    delErr      \* what delDev returned

ring == sqVars
callVars == <<caller, once>>
devVars == <<call, id, info, useIoctl, bufSize, tries>>
workVars == <<workers, worker, ready, armed, cancelled>>
kernVars == <<kdev, params, node, opener>>
vars == <<at, phase, ring, ccq, running, handles, devVars, workVars, kernVars,
          callVars, delErr>>

(* What can be open or mapped: the parts of a ring, in the order of setup, *)
(* the control and the character device, the io descriptors.               *)
Order == [fd |-> 1, mmapSQ |-> 2, mmapCQ |-> 3, mmapSQEs |-> 4, cancelFD |-> 5,
          epollFD |-> 6]
RingParts == DOMAIN Order
CtrlFD == <<"ctrl", "dev">>
CharFD == <<"io", "dev">>
Descs  == <<"io", "descs">>

Unset == -1                 \* id before addDev, and DevID ^uint32(0)
CtrlSteps == {"add", "addLegacy", "params", "start", "stop", "del"}
Op(step) == IF step = "addLegacy" THEN "add" ELSE step

(* ctrlOp, and the two fixed encodings of addDev.                          *)
Encoding(step) ==
    CASE step = "add"       -> "ioctl"
      [] step = "addLegacy" -> "legacy"
      [] OTHER              -> IF useIoctl THEN "ioctl" ELSE "legacy"

(* The SQE a step submits.                                                 *)
Command(step) ==
    [op |-> Op(step), enc |-> Encoding(step),
     id |-> IF Op(step) = "add" THEN Unset ELSE id]
Commands == [op : {"add", "params", "start", "stop", "del"},
             enc : {"ioctl", "legacy"}, id : DevIds \cup {Unset}]

cfg == Config(call.opts)
NoParams == Params(Defaults, 0, 0, {})

Init ==
    /\ call \in Calls
    /\ at = "validate" /\ phase = "issue"
    /\ FifoInit
    /\ ccq = <<>> /\ running = {}
    /\ handles = {}
    /\ id = Unset /\ info = [id |-> Unset, buf |-> 0] /\ useIoctl = FALSE
    /\ bufSize = 0 /\ tries = 0
    /\ workers = FALSE /\ worker = "none" /\ ready = "empty"
    /\ armed = FALSE /\ cancelled = FALSE
    /\ kdev = [d \in DevIds |-> "none"] /\ params = NoParams /\ node = {} /\ opener = FALSE
    /\ caller = [c \in Closers |-> "out"] /\ once = "new"
    /\ delErr = FALSE

-----------------------------------------------------------------------------
(***************************************************************************)
(* ctrlCommand                                                             *)
(***************************************************************************)

MutStopErrorIsFatal(step) ==
    CASE step = "add" -> "addLegacy"
      [] step \in {"stop", "del"} -> "ctrlclose"
      [] OTHER -> "cancel"

(* Where an error and a success of the command of a step lead.             *)
AfterError(step) ==
    CASE step = "add"  -> "addLegacy"
      [] step = "stop" -> IF id # Unset THEN "del" ELSE "ctrlclose"
      [] step = "del"  -> "ctrlclose"
      [] OTHER         -> "cancel"
AfterSuccess(step) ==
    CASE Op(step) = "add"  -> "char"
      [] step = "params"   -> "init"
      [] step = "start"    -> "live"
      [] OTHER             -> AfterError(step)

MutAlwaysIoctl(ok) ==
    /\ at' = IF ok THEN AfterSuccess(at) ELSE AfterError(at)
    /\ phase' = "issue"
    /\ IF ok /\ Op(at) = "add"
       THEN /\ id' = info.id /\ useIoctl' = TRUE
            /\ bufSize' = BufSize(cfg, info.buf)
       ELSE UNCHANGED <<id, useIoctl, bufSize>>
    /\ delErr' = IF at = "del" THEN ~ok ELSE delErr

(* ctrlCommand returns: addDev takes the device number the kernel wrote    *)
(* and remembers the encoding, New the size of the buffers, shutdown keeps *)
(* delDev's error.                                                         *)
Returns(ok) ==
    /\ at' = IF ok THEN AfterSuccess(at) ELSE AfterError(at)
    /\ phase' = "issue"
    /\ IF ok /\ Op(at) = "add"
       THEN /\ id' = info.id /\ useIoctl' = (at = "add")
            /\ bufSize' = BufSize(cfg, info.buf)
       ELSE UNCHANGED <<id, useIoctl, bufSize>>
    /\ delErr' = IF at = "del" THEN ~ok ELSE delErr

CtrlFrame == UNCHANGED <<call, handles, info, tries, workVars, kernVars, callVars>>

(* GetSQE128, and the command copied into it; a nil SQE is the error       *)
(* "control ring SQ full".                                                 *)
IssueCommand ==
    /\ at \in CtrlSteps /\ phase = "issue"
    /\ IF SQFull THEN NilSQE /\ Returns(FALSE)
       ELSE /\ PushSQE(Command(at))
            /\ phase' = "submit"
            /\ UNCHANGED <<at, id, useIoctl, bufSize, delErr>>
    /\ UNCHANGED <<ccq, running>> /\ CtrlFrame

(* Submit: flushSQ, io_uring_enter.                                        *)
SubmitCommand ==
    /\ phase = "submit"
    /\ FlushSQ
    /\ phase' = "enter"
    /\ UNCHANGED <<at, ccq, running, id, useIoctl, bufSize, delErr>> /\ CtrlFrame

(* The kernel consumes an SQE and starts to execute it (external).         *)
KTake ==
    /\ phase = "enter"
    /\ ConsumeSQE
    /\ running' = running \cup {Head(sq)}
    /\ UNCHANGED <<at, phase, ccq, id, useIoctl, bufSize, delErr>> /\ CtrlFrame

(* Submit returns.                                                         *)
Submitted ==
    /\ phase = "enter" /\ got = want
    /\ EnterReturns
    /\ phase' = "wait"
    /\ UNCHANGED <<at, ccq, running, id, useIoctl, bufSize, delErr>> /\ CtrlFrame

(* Submit fails, and so does ctrlCommand: the SQE stays in the ring.       *)
SubmitError ==
    /\ SubmitFails
    /\ phase = "enter" /\ got = 0
    /\ EnterReturns
    /\ Returns(FALSE)
    /\ UNCHANGED <<ccq, running>> /\ CtrlFrame

MutNotSeen ==
    /\ phase = "wait" /\ ccq # <<>>
    /\ Returns(Head(ccq).ok)
    /\ UNCHANGED <<ring, ccq, running>> /\ CtrlFrame

(* WaitCQE returns the oldest CQE, whatever command it belongs to, and     *)
(* SeenCQE drops it.                                                       *)
TakeAnswer ==
    /\ phase = "wait" /\ ccq # <<>>
    /\ ccq' = Tail(ccq)
    /\ Returns(Head(ccq).ok)
    /\ UNCHANGED <<ring, running>> /\ CtrlFrame

(* WaitCQE fails in epoll_wait, and so does ctrlCommand: the answer will   *)
(* find nobody waiting for it.                                             *)
WaitError ==
    /\ WaitFails
    /\ phase = "wait" /\ ccq = <<>>
    /\ Returns(FALSE)
    /\ UNCHANGED <<ring, ccq, running>> /\ CtrlFrame

-----------------------------------------------------------------------------
(***************************************************************************)
(* The kernel's side of the control commands (external).                   *)
(***************************************************************************)
PageSize == 4096

MutUnclamped == Params(cfg, call.size, cfg.maxIOSize \div SectorSize, call.caps)

(* What the params struct of setParams holds.                              *)
setParams == Params(cfg, call.size, bufSize \div SectorSize, call.caps)

Existing == {d \in DevIds : kdev[d] \notin {"none", "gone"}}

KAnswer(c, ok) ==
    /\ running' = running \ {c}
    /\ ccq' = Append(ccq, [cmd |-> c, ok |-> ok])
    /\ UNCHANGED <<call, at, phase, ring, handles, id, useIoctl, bufSize, tries,
                   workVars, opener, callVars, delErr>>

(* A command that cannot succeed; the kernel may refuse others as well.    *)
Hopeless(c) ==
    \/ c.enc \notin KernelTakes
    \/ c.op = "add" /\ \A d \in DevIds : kdev[d] # "none"
    \/ c.op # "add" /\ c.id \notin Existing
    \/ c.op = "start" /\ c.id \notin {d \in DevIds : kdev[d] = "params"}
KRefuse(c) ==
    /\ c \in running
    /\ CommandsFail \/ Hopeless(c)
    /\ KAnswer(c, FALSE)
    /\ UNCHANGED <<info, kdev, params, node>>

(* ADD_DEV: a new device, its number written to info, and the size of the  *)
(* buffers, which may come back smaller or, from a kernel that does not    *)
(* know the field, as 0.                                                   *)
KAdd(c, d) ==
    /\ c \in running /\ c.op = "add" /\ c.enc \in KernelTakes
    /\ kdev[d] = "none"
    /\ kdev' = [kdev EXCEPT ![d] = "added"]
    /\ \E buf \in {0, cfg.maxIOSize, (cfg.maxIOSize \div PageSize) * PageSize} :
            info' = [id |-> d, buf |-> buf]
    /\ KAnswer(c, TRUE)
    /\ UNCHANGED <<params, node>>

(* SET_PARAMS, STOP_DEV at once; START_DEV once the FETCHes of all tags    *)
(* are in, which it waits for; DEL_DEV when the block device is closed     *)
(* everywhere.                                                             *)
KRun(c) ==
    /\ c \in running /\ c.op # "add" /\ c.enc \in KernelTakes
    /\ c.id \in Existing
    /\ c.op = "start" => armed /\ kdev[c.id] = "params"
    /\ c.op = "del" => ~opener
    /\ kdev' = [kdev EXCEPT ![c.id] =
                  CASE c.op = "params" -> "params"
                    [] c.op = "start"  -> "live"
                    [] c.op = "del"    -> "gone"
                    [] OTHER           -> IF @ = "live" THEN "dead" ELSE @]
    /\ params' = IF c.op = "params" THEN setParams ELSE params
    /\ node' = IF c.op = "del" THEN node \ {c.id} ELSE node
    /\ KAnswer(c, TRUE)
    /\ UNCHANGED info

(* The character device node appears some time after ADD_DEV.              *)
KMakeNode(d) ==
    /\ d \in Existing \ node
    /\ node' = node \cup {d}
    /\ UNCHANGED <<at, phase, ring, ccq, running, handles, devVars, workVars,
                   kdev, params, opener, callVars, delErr>>

UserOpen ==
    /\ ~opener /\ \E d \in DevIds : kdev[d] = "live"
    /\ opener' = TRUE
    /\ UNCHANGED <<at, phase, ring, ccq, running, handles, devVars, workVars,
                   kdev, params, node, callVars, delErr>>

UserClose ==
    /\ opener
    /\ opener' = FALSE
    /\ UNCHANGED <<at, phase, ring, ccq, running, handles, devVars, workVars,
                   kdev, params, node, callVars, delErr>>

-----------------------------------------------------------------------------
(***************************************************************************)
(* The other steps of New.                                                 *)
(***************************************************************************)
NewFrame == UNCHANGED <<call, phase, ring, ccq, running, id, info, useIoctl,
                        bufSize, kernVars, callVars, delErr>>

(* New: the backend and the options are looked at before anything is done. *)
Validate ==
    /\ at = "validate"
    /\ at' = IF call.backend # "nil" /\ validate(cfg, call.size)
             THEN "open" ELSE "failed"
    /\ UNCHANGED <<handles, tries, workVars>> /\ NewFrame

(* openDevice: /dev/ublk-control.                                          *)
OpenControl ==
    /\ at = "open"
    /\ \/ handles' = {CtrlFD} /\ at' = "ctrlring"
       \/ OpensFail /\ handles' = handles /\ at' = "failed"
    /\ UNCHANGED <<tries, workVars>> /\ NewFrame

MutForgetsEventFD(r) == handles \ {<<r, p>> : p \in RingParts \ {"cancelFD"}}

(* Ring.Close: every mapping and fd the ring has got so far.               *)
WithoutRing(r) == handles \ {<<r, p>> : p \in RingParts}

(* uring.setup of a ring: io_uring_setup, mmapRings, setupCancel.  Each    *)
(* part is acquired in its turn; with all of them the epoll_ctl calls end  *)
(* the setup, and an error of any call closes the ring again.              *)
Acquire(r) ==
    /\ \E p \in RingParts :
        /\ <<r, p>> \notin handles
        /\ \A q \in RingParts : Order[q] < Order[p] => <<r, q>> \in handles
        /\ handles' = handles \cup {<<r, p>>}
    /\ UNCHANGED at
Complete(r) == \A p \in RingParts : <<r, p>> \in handles

(* openDevice: the control ring; without it the fd is closed again.        *)
OpenControlRing ==
    /\ at = "ctrlring"
    /\ \/ Acquire("ctrl")
       \/ Complete("ctrl") /\ UNCHANGED handles /\ at' = "add"
       \/ OpensFail /\ handles' = WithoutRing("ctrl") \ {CtrlFD} /\ at' = "failed"
    /\ UNCHANGED <<tries, workVars>> /\ NewFrame

(* openCharDev: one attempt.  A missing node is waited for, any other      *)
(* error ends the attempts, and so does the last of them.                  *)
OpenChar ==
    /\ at = "char"
    /\ \/ /\ id \in node
          /\ handles' = handles \cup {CharFD}
          /\ at' = "params"
          /\ UNCHANGED tries
       \/ /\ id \notin node
          /\ tries' = tries + 1
          /\ at' = IF tries' = MaxTries THEN "cancel" ELSE "char"
          /\ UNCHANGED handles
       \/ /\ OpensFail
          /\ at' = "cancel"
          /\ UNCHANGED <<handles, tries>>
    /\ UNCHANGED workVars /\ NewFrame

(* newWorker and worker.init: the ring of the worker ...                   *)
OpenWorkerRing ==
    /\ at = "init"
    /\ \/ Acquire("io")
       \/ Complete("io") /\ UNCHANGED handles /\ at' = "descs"
       \/ OpensFail /\ handles' = WithoutRing("io") /\ at' = "cancel"
    /\ UNCHANGED <<tries, workVars>> /\ NewFrame

(* ... and mmapDescs, whose error has cleanup close the ring.  Only then   *)
(* is the worker listed and launched.                                      *)
InitWorker ==
    /\ at = "descs"
    /\ \/ /\ handles' = handles \cup {Descs}
          /\ workers' = TRUE /\ worker' = "running"
          /\ at' = "ready"
       \/ /\ OpensFail
          /\ handles' = WithoutRing("io")
          /\ at' = "cancel"
          /\ UNCHANGED <<workers, worker>>
    /\ UNCHANGED <<tries, ready, armed, cancelled>> /\ NewFrame

MutErrorNotSent ==
    /\ worker = "running" /\ ready = "empty"
    /\ \/ /\ ready' = "nil" /\ UNCHANGED worker
          /\ \/ armed' = TRUE
             \/ OpensFail /\ UNCHANGED armed
       \/ OpensFail /\ worker' = "done" /\ UNCHANGED <<ready, armed>>
    /\ UNCHANGED <<at, handles, tries, workers, cancelled>> /\ NewFrame

(* run submits the FETCHes and signals ready, or the error.  It does not   *)
(* look at how many of them the kernel took.                               *)
WorkerArms ==
    /\ worker = "running" /\ ready = "empty"
    /\ \/ /\ ready' = "nil" /\ UNCHANGED worker
          /\ \/ armed' = TRUE
             \/ OpensFail /\ UNCHANGED armed
       \/ OpensFail /\ ready' = "err" /\ worker' = "done" /\ UNCHANGED armed
    /\ UNCHANGED <<at, handles, tries, workers, cancelled>> /\ NewFrame

(* run returns because its ring is cancelled.                              *)
WorkerStops ==
    /\ worker = "running" /\ ready = "nil" /\ cancelled
    /\ worker' = "done"
    /\ UNCHANGED <<at, handles, tries, workers, ready, armed, cancelled>> /\ NewFrame

(* run returns on its own, after a failed Submit or a negative CQE.        *)
WorkerDies ==
    /\ OpensFail
    /\ worker = "running" /\ ready = "nil"
    /\ worker' = "done"
    /\ UNCHANGED <<at, handles, tries, workers, ready, armed, cancelled>> /\ NewFrame

(* New receives from ready.                                                *)
AwaitReady ==
    /\ at = "ready" /\ ready # "empty"
    /\ at' = IF ready = "nil" THEN "start" ELSE "cancel"
    /\ UNCHANGED <<handles, tries, workVars>> /\ NewFrame

-----------------------------------------------------------------------------
(***************************************************************************)
(* Close and shutdown.                                                     *)
(***************************************************************************)
CloseFrame == UNCHANGED <<phase, ring, ccq, running, devVars, kernVars, delErr>>

MutCloseFlag(c) ==
    /\ caller[c] = "out"
    /\ at = "live" \/ once # "new"
    /\ caller' = [caller EXCEPT ![c] = IF once = "new" THEN "in" ELSE "back"]
    /\ IF once = "new" THEN once' = "running" /\ at' = "cancel"
                       ELSE UNCHANGED <<once, at>>
    /\ UNCHANGED <<handles, workVars>> /\ CloseFrame

MutCloseReruns(c) ==
    /\ caller[c] = "out"
    /\ at \in {"live", "closed"}
    /\ caller' = [caller EXCEPT ![c] = "in"]
    /\ once' = "running" /\ at' = "cancel"
    /\ UNCHANGED <<handles, workVars>> /\ CloseFrame

(* Close: the first caller of closeOnce.Do runs shutdown, the others wait  *)
(* for it.                                                                 *)
CallClose(c) ==
    /\ caller[c] = "out"
    /\ at = "live" \/ once # "new"
    /\ caller' = [caller EXCEPT ![c] = "in"]
    /\ IF once = "new" THEN once' = "running" /\ at' = "cancel"
                       ELSE UNCHANGED <<once, at>>
    /\ UNCHANGED <<handles, workVars>> /\ CloseFrame

CloseReturns(c) ==
    /\ caller[c] = "in" /\ once = "done"
    /\ caller' = [caller EXCEPT ![c] = "back"]
    /\ UNCHANGED <<at, handles, workVars, once>> /\ CloseFrame

MutNoCancel ==
    /\ at = "cancel"
    /\ at' = "join"
    /\ UNCHANGED <<handles, workVars, callVars>> /\ CloseFrame

(* shutdown: Cancel for every worker.                                      *)
CancelWorkers ==
    /\ at = "cancel"
    /\ cancelled' = workers
    /\ at' = "join"
    /\ UNCHANGED <<handles, workers, worker, ready, armed, callVars>> /\ CloseFrame

(* shutdown: wg.Wait.                                                      *)
Join ==
    /\ at = "join" /\ worker # "running"
    /\ at' = "release"
    /\ UNCHANGED <<handles, workVars, callVars>> /\ CloseFrame

MutCharStaysOpen ==
    /\ at = "release"
    /\ handles' = IF workers THEN WithoutRing("io") \ {Descs} ELSE handles
    /\ at' = "stop"
    /\ UNCHANGED <<workVars, callVars>> /\ CloseFrame

(* shutdown: cleanup for every worker, then the character device.          *)
Release ==
    /\ at = "release"
    /\ handles' = (IF workers THEN WithoutRing("io") \ {Descs} ELSE handles)
                  \ {CharFD}
    /\ at' = "stop"
    /\ UNCHANGED <<workVars, callVars>> /\ CloseFrame

(* shutdown: the control ring and the control fd.                          *)
CloseControl ==
    /\ at = "ctrlclose"
    /\ handles' = WithoutRing("ctrl") \ {CtrlFD}
    /\ IF once = "running" THEN at' = "closed" /\ once' = "done"
                           ELSE at' = "failed" /\ UNCHANGED once
    /\ UNCHANGED <<workVars, caller>> /\ CloseFrame

-----------------------------------------------------------------------------
CtrlCommand == IssueCommand \/ SubmitCommand \/ Submitted \/ TakeAnswer
Steps ==
    \/ CtrlCommand \/ Validate \/ OpenControl \/ OpenControlRing \/ OpenChar
    \/ OpenWorkerRing \/ InitWorker \/ AwaitReady \/ CancelWorkers \/ Join \/ Release \/ CloseControl
Worker == WorkerArms \/ WorkerStops
Kernel ==
    \/ KTake \/ \E d \in DevIds : KMakeNode(d)
    \/ \E c \in running : KRun(c) \/ KRefuse(c) \/ \E d \in DevIds : KAdd(c, d)
Callers == \E c \in Closers : CallClose(c) \/ CloseReturns(c)

(* New has failed, or every caller of Close is back.                       *)
Finished ==
    /\ at \in {"failed", "closed"}
    /\ \A c \in Closers : caller[c] # "in"
    /\ UNCHANGED vars

Next == Steps \/ SubmitError \/ WaitError \/ Worker \/ WorkerDies \/ Kernel \/ Callers
        \/ UserOpen \/ UserClose \/ Finished

Spec == Init /\ [][Next]_vars

(* The goroutines and the kernel keep running, and users do close the      *)
(* block device, as Close requires of its caller; if they keep opening it  *)
(* again DEL_DEV finds it closed some time.  The kernel need not refuse a  *)
(* command it could execute, or one that waits.                            *)
FairSpec ==
    /\ Spec
    /\ WF_vars(Steps) /\ WF_vars(Worker) /\ WF_vars(KTake)
    /\ WF_vars(\E c \in running :
                 \/ KRun(c) \/ \E d \in DevIds : KAdd(c, d)
                 \/ Hopeless(c) /\ KRefuse(c))
    /\ SF_vars(\E c \in running : c.op = "del" /\ KRun(c))
    /\ \A c \in Closers : WF_vars(CloseReturns(c))
    /\ WF_vars(UserClose)

-----------------------------------------------------------------------------
(* Types: what ctrlCommand has flushed is among the SQEs of the control   *)
(* ring, and every handle New opens is open or closed.                     *)
TypeOK ==
    /\ at \in CtrlSteps \cup {"validate", "open", "ctrlring", "char", "init",
                              "descs", "ready", "live", "cancel", "join", "release", "ctrlclose",
                              "failed", "closed"}
    /\ phase \in {"issue", "submit", "enter", "wait"}
    /\ sq \in Seq(Commands) /\ unflushed \in 0 .. Len(sq)
    /\ want \in Nat /\ got \in 0 .. want
    /\ ccq \in Seq([cmd : Commands, ok : BOOLEAN]) /\ running \subseteq Commands
    /\ handles \subseteq ({"ctrl", "io"} \X RingParts) \cup {CtrlFD, CharFD, Descs}
    /\ call \in Calls /\ bufSize \in Nat
    /\ id \in DevIds \cup {Unset}
    /\ info \in [id : DevIds \cup {Unset}, buf : Nat]
    /\ useIoctl \in BOOLEAN /\ tries \in 0 .. MaxTries
    /\ workers \in BOOLEAN /\ cancelled \in BOOLEAN /\ armed \in BOOLEAN
    /\ worker \in {"none", "running", "done"} /\ ready \in {"empty", "nil", "err"}
    /\ kdev \in [DevIds -> {"none", "added", "params", "live", "dead", "gone"}]
    /\ node \subseteq DevIds /\ opener \in BOOLEAN
    /\ caller \in [Closers -> {"out", "in", "back"}]
    /\ once \in {"new", "running", "done"}
    /\ delErr \in BOOLEAN

(* What New and shutdown may have open at each step: shutdown finds the    *)
(* worker's ring and descriptors only where the worker is listed.          *)
CtrlHandles == {CtrlFD} \cup ({"ctrl"} \X RingParts)
WorkerRing == {"io"} \X RingParts
MayHold ==
    CASE at \in {"validate", "open", "failed", "closed"} -> {}
      [] at \in {"ctrlring", "add", "addLegacy", "char", "stop", "del", "ctrlclose"}
                                -> CtrlHandles
      [] at = "params"          -> CtrlHandles \cup {CharFD}
      [] at \in {"init", "descs"} -> CtrlHandles \cup {CharFD} \cup WorkerRing
      [] OTHER -> CtrlHandles \cup {CharFD}
                  \cup IF workers THEN WorkerRing \cup {Descs} ELSE {}
Before == {"validate", "open", "ctrlring", "add", "addLegacy"}
HandleInv ==
    /\ handles \subseteq MayHold
    /\ at \in Before \cup {"char", "params", "init", "descs"} => ~workers
    /\ at \in {"ready", "start", "live"} => workers
    /\ worker = "running" => workers /\ at \notin {"release", "stop", "del", "ctrlclose",
                                                   "failed", "closed"}
    /\ (at \in Before => tries = 0) /\ (at = "char" => tries < MaxTries)
    /\ phase # "issue" => at \in CtrlSteps
    /\ phase = "enter" => unflushed = 0

(* closeOnce is taken by a caller that finds the device live, and done     *)
(* exactly when shutdown has returned.                                     *)
CloseInv ==
    /\ once = "running" => at \in {"cancel", "join", "release", "stop", "del", "ctrlclose"}
    /\ once = "done" <=> at = "closed"
    /\ \A c \in Closers : caller[c] = "back" => once = "done"

(* Commands in the control ring or in the kernel, also the ones left there *)
(* by a failed call, are of steps New and shutdown have reached.           *)
Queued == {sq[i] : i \in DOMAIN sq} \cup running
Bufs == {0, cfg.maxIOSize, (cfg.maxIOSize \div PageSize) * PageSize}
Settled == validate(cfg, call.size) /\ \E b \in Bufs : bufSize = BufSize(cfg, b)
ReachedInv ==
    /\ \A c \in Queued : /\ c.op = "del" => at \in {"del", "ctrlclose", "failed", "closed"}
                         /\ c.op = "params" => at \notin Before /\ Settled
    /\ at \in Before \ {"validate"} => validate(cfg, call.size)
    /\ at \in {"char", "params", "init", "descs", "ready", "start", "live"} => Settled
    /\ info.buf \in Bufs
    /\ (\E d \in DevIds : kdev[d] \in {"params", "live"})
           => at \notin Before /\ Settled /\ params = setParams

(* As long as io_uring_enter and epoll_wait do not fail, the command of    *)
(* the step is the only one there is, and in one place.                    *)
Answer(ok) == [cmd |-> Command(at), ok |-> ok]
Executing == \/ running = {Command(at)} /\ ccq = <<>>
             \/ running = {} /\ \E ok \in BOOLEAN : ccq = <<Answer(ok)>>
CommandInv ==
    \/ /\ phase = "issue" /\ sq = <<>> /\ unflushed = 0
       /\ running = {} /\ ccq = <<>>
    \/ /\ phase = "submit" /\ sq = <<Command(at)>> /\ unflushed = 1
       /\ running = {} /\ ccq = <<>>
    \/ /\ phase = "enter" /\ sq = <<Command(at)>> /\ unflushed = 0 /\ want = 1 /\ got = 0
       /\ running = {} /\ ccq = <<>>
    \/ /\ phase = "enter" /\ sq = <<>> /\ unflushed = 0 /\ want = 1 /\ got = 1 /\ Executing
    \/ /\ phase = "wait" /\ sq = <<>> /\ unflushed = 0 /\ Executing

(* ... and the device the kernel keeps is the one New knows of, or is      *)
(* about to hear of, and as far as the commands for it have succeeded.     *)
Succeeded == ccq = <<Answer(TRUE)>>
Owned == IF Op(at) = "add" /\ Succeeded THEN info.id ELSE id
StateOfOwned ==
    CASE at \in {"add", "addLegacy", "char"} -> {"added"}
      [] at = "params" -> IF Succeeded THEN {"params"} ELSE {"added"}
      [] at \in {"init", "descs", "ready"} -> {"params"}
      [] at = "start"  -> IF Succeeded THEN {"live"} ELSE {"params"}
      [] at = "live"   -> {"live"}
      [] at \in {"cancel", "join", "release"} ->
             IF once = "new" THEN {"added", "params"} ELSE {"live"}
      [] at = "stop" -> IF once = "new" THEN {"added", "params"} ELSE {"live", "dead"}
      [] at = "del" -> IF Succeeded THEN {"gone"}
                       ELSE IF once = "new" THEN {"added", "params"} ELSE {"live", "dead"}
      [] OTHER -> IF ~delErr THEN {"gone"}
                  ELSE IF once = "new" THEN {"added", "params"} ELSE {"live", "dead"}
OwnedInv ==
    /\ \A d \in DevIds : d # Owned => kdev[d] = "none"
    /\ Owned # Unset => kdev[Owned] \in StateOfOwned
    /\ at \in Before => id = Unset
    /\ at \in {"char", "params", "init", "descs", "ready", "start", "live", "del"} => id # Unset
    /\ once # "new" => id # Unset
    /\ Op(at) = "add" /\ Succeeded => Encoding(at) \in KernelTakes /\ info.id # Unset
    /\ id # Unset => Encoding("del") \in KernelTakes
    /\ at \notin {"ctrlclose", "failed", "closed"} => ~delErr

(* The inductive invariant behind the properties of this module.           *)
LifeInv ==
    /\ TypeOK /\ HandleInv /\ CloseInv /\ ReachedInv
    /\ ~SubmitFails /\ ~WaitFails => CommandInv /\ OwnedInv

(* However New fails and whenever Close is called, the process keeps       *)
(* nothing: no fd, no mapping, no goroutine, even if control commands      *)
(* could not be submitted.                                                 *)
NoHandleLeaks ==
    at \in {"failed", "closed"} => handles = {} /\ worker # "running"

(* ... and the kernel keeps no device, unless it refused DEL_DEV itself.   *)
NoDeviceLeaks ==
    at \in {"failed", "closed"} => delErr \/ Existing = {}

(* No goroutine comes back from Close before the device is released, also  *)
(* when another one does the work (closeOnce).                             *)
CloseMeansReleased ==
    \A c \in Closers : caller[c] = "back" => at = "closed" /\ handles = {}

(* ctrlCommand returns the answer to its own command, although it never    *)
(* looks at the user data of the CQE.                                      *)
OwnAnswers ==
    phase = "wait" /\ ccq # <<>> => Head(ccq).cmd = Command(at)

(* "The kernel reads from this address between Submit and the CQE          *)
(* returning": an ADD_DEV or SET_PARAMS is executed only while the call    *)
(* that pinned its argument is still running.                              *)
PinnedReads ==
    \A c \in running : /\ c.op = "add" => Op(at) = "add"
                       /\ c.op = "params" => at = "params"

(* A device is deleted only after its worker is gone and its character     *)
(* device closed: ublk_ch_release has then aborted what was in flight.     *)
DeletedLast ==
    \A c \in running : c.op = "del" =>
        /\ worker # "running"
        /\ \A h \in handles : h[1] = "ctrl"

(* Every command for an existing device is in an encoding the kernel took  *)
(* ADD_DEV in (addDev's fallback and ctrlOp).                              *)
EncodingAgrees ==
    \A c \in running : c.id # Unset => c.enc \in KernelTakes

(* Every request the kernel may send under the parameters it was given is  *)
(* one handleIO serves from the buffers the worker really has, inside the  *)
(* device and with a result that fits an int32, whatever the kernel made   *)
(* of the buffer size New asked for; and no tag is without a slot in the   *)
(* worker's ring, where prepareFetch would silently drop its FETCH.        *)
ServesWhatItAdvertised ==
    \A d \in DevIds : kdev[d] \in {"params", "live"} =>
        /\ \A op \in DOMAIN params.limit : \A start, nr \in Sectors :
              MayIssue(params, op, start, nr)
                  => Served(call.size, bufSize, op, start, nr)
        /\ cfg.queueDepth <= roundUp2(cfg.queueDepth)
        /\ 2^params.bsShift = cfg.blockSize

(* Seen by the program, a device is created, held and removed as module    *)
(* Devices says: in particular DEL_DEV takes effect only with nobody       *)
(* holding the block device, and nothing happens to a device after Close   *)
(* has given it up.                                                        *)
Abstract == INSTANCE Devices WITH
    Devs <- {"dev"}, Holders <- {"user"},
    holds <- [d \in {"dev"} |-> IF opener THEN {"user"} ELSE {}],
    state <- [d \in {"dev"} |->
                IF once = "new"
                THEN IF \E i \in DevIds : kdev[i] = "live" THEN "live" ELSE "none"
                ELSE IF kdev[id] = "gone" THEN "gone"
                ELSE IF at \in {"ctrlclose", "closed"} THEN "left" ELSE "closing"]

ImplementsDevices == Abstract!DevSpec

(* New returns, with a device or an error, whichever of its steps fails:   *)
(* an error of the worker comes through the channel, a node that never     *)
(* appears ends openCharDev's attempts.  The one exception is what         *)
(* worker.go:66-76 leaves open: run has discarded the count of a short     *)
(* SubmitAndWait, and START_DEV waits for the FETCHes it never sent.       *)
Stranded == at = "start" /\ ready = "nil" /\ ~armed
NewReturns == <>(at \in {"live", "failed"} \/ Stranded)

(* Every call of Close returns, DEL_DEV's wait for the users of the block  *)
(* device included, if they close it.                                      *)
ClosesReturn == \A c \in Closers : (caller[c] = "in") ~> (caller[c] = "back")
=============================================================================
