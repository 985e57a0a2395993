--------------------------- MODULE LifecycleSteps ---------------------------
(***************************************************************************)
(* What every step of Lifecycle keeps, whatever fails: the types, the      *)
(* handles each place of New and shutdown may hold, closeOnce, and the     *)
(* places commands and sizes are bound to.  Module LifecycleProofs has the *)
(* rest of LifeInv and the theorems.                                       *)
(***************************************************************************)
EXTENDS Lifecycle, TLAPS

-----------------------------------------------------------------------------
(***************************************************************************)
(* Types.                                                                  *)
(***************************************************************************)

(* nextSQE and the slot filled: one SQE more, and none that was not there. *)
LEMMA FillFacts ==
    ASSUME NEW S, sq \in Seq(S), NEW s \in S
    PROVE  /\ Fill(s) \in Seq(S) /\ Len(Fill(s)) = Len(sq) + 1
           /\ \A i \in DOMAIN Fill(s) : Fill(s)[i] = s \/ \E j \in DOMAIN sq : Fill(s)[i] = sq[j]
           /\ SQEntries > Len(sq) => Fill(s) = Append(sq, s)
  <1> DEFINE o == IF Len(sq) < SQEntries THEN sq
                  ELSE [i \in DOMAIN sq |->
                          IF (Len(sq) + 1 - i) % SQEntries = 0 THEN s ELSE sq[i]]
  <1>1. /\ o \in Seq(S) /\ Len(o) = Len(sq)
        /\ \A i \in 1 .. Len(sq) : o[i] = s \/ o[i] = sq[i]
    <2>1. CASE Len(sq) < SQEntries
      BY <2>1
    <2>2. CASE ~(Len(sq) < SQEntries)
      <3>1. o = [i \in 1 .. Len(sq) |-> IF (Len(sq) + 1 - i) % SQEntries = 0 THEN s ELSE sq[i]]
        BY <2>2
      <3>2. o \in [1 .. Len(sq) -> S] /\ Len(sq) \in Nat
        BY <3>1
      <3>3. o \in Seq(S) /\ Len(o) = Len(sq)
        BY <3>2
      <3> QED
        BY Zenon, <3>1, <3>3
    <2> QED
      BY Zenon, <2>1, <2>2
  <1>2. Fill(s) = Append(o, s)
    BY DEF Fill
  <1>3. SQEntries > Len(sq) => o = sq
    BY LifecycleAssumption
  <1> HIDE DEF o
  <1>4. /\ Append(o, s) \in Seq(S) /\ Len(Append(o, s)) = Len(sq) + 1
        /\ \A i \in 1 .. Len(sq) : Append(o, s)[i] = o[i]
        /\ Append(o, s)[Len(sq) + 1] = s
    BY <1>1
  <1>5. \A i \in DOMAIN Append(o, s) : \/ Append(o, s)[i] = s
                                       \/ \E j \in DOMAIN sq : Append(o, s)[i] = sq[j]
    BY <1>1, <1>4
  <1> QED
    BY <1>2, <1>3, <1>4, <1>5

(* SeenCQE leaves a queue.                                                 *)
LEMMA TailType ==
    ASSUME NEW S, NEW s \in Seq(S), s # <<>>
    PROVE  Tail(s) \in Seq(S)
  OBVIOUS

(* Options are numbers, and so are the sizes made of them.                 *)
LEMMA ConfigType ==
    ASSUME call \in Calls
    PROVE  /\ cfg.maxIOSize \in Nat /\ cfg.blockSize \in Nat /\ cfg.queueDepth \in Nat
           /\ call.size \in Nat /\ call.caps \subseteq {"discard", "zeroes"}
           /\ Bufs \subseteq Nat
           /\ \A b \in Nat : BufSize(cfg, b) \in Nat
  <1>1. /\ call.size \in Nat /\ call.caps \subseteq {"discard", "zeroes"}
        /\ \A f \in DOMAIN call.opts : call.opts[f] \in Nat
    BY LifecycleAssumption
  <1>2. \A f \in {"maxIOSize", "blockSize", "queueDepth"} :
           cfg[f] = IF f \in DOMAIN call.opts THEN call.opts[f] ELSE Defaults[f]
    BY DEF cfg, Config, Defaults
  <1>3. \A f \in {"maxIOSize", "blockSize", "queueDepth"} : Defaults[f] \in Nat
    BY SMT DEF Defaults
  <1>4. cfg.maxIOSize \in Nat /\ cfg.blockSize \in Nat /\ cfg.queueDepth \in Nat
    BY <1>1, <1>2, <1>3
  <1>5. Bufs \subseteq Nat
    <2>1. ASSUME NEW m \in Nat PROVE (m \div 4096) * 4096 \in Nat
      BY <2>1, SMT
    <2>2. (cfg.maxIOSize \div PageSize) * PageSize \in Nat
      BY <1>4, <2>1 DEF PageSize
    <2> QED
      BY <1>4, <2>2 DEF Bufs
  <1>6. \A b \in Nat : BufSize(cfg, b) \in Nat
    BY <1>4 DEF BufSize
  <1> QED
    BY <1>1, <1>4, <1>5, <1>6

(* What ctrlCommand is given is a command.                                 *)
LEMMA CommandType ==
    ASSUME id \in DevIds \cup {Unset}, at \in CtrlSteps
    PROVE  /\ Command(at) \in Commands
           /\ Command(at).op = Op(at) /\ Command(at).enc = Encoding(at)
           /\ Command(at).id = IF Op(at) = "add" THEN Unset ELSE id
           /\ Op(at) = "del" <=> at = "del"
           /\ Op(at) = "params" <=> at = "params"
  <1>1. /\ Op(at) \in {"add", "params", "start", "stop", "del"}
        /\ Encoding(at) \in {"ioctl", "legacy"}
        /\ Op(at) = "del" <=> at = "del"
        /\ Op(at) = "params" <=> at = "params"
    BY DEF Op, Encoding, CtrlSteps
  <1> QED
    BY <1>1 DEF Command, Commands

-----------------------------------------------------------------------------
(***************************************************************************)
(* What the steps leave alone.                                             *)
(***************************************************************************)
Command1 == IssueCommand \/ SubmitCommand \/ KTake \/ Submitted \/ SubmitError \/ TakeAnswer
            \/ WaitError
Opening == Validate \/ OpenControl \/ OpenControlRing \/ OpenChar \/ OpenWorkerRing
           \/ InitWorker \/ AwaitReady
Running == WorkerArms \/ WorkerStops \/ WorkerDies
Closing == \/ CancelWorkers \/ Join \/ Release \/ CloseControl
           \/ \E c \in Closers : CallClose(c) \/ CloseReturns(c)
Executed == \E c \in running : KRun(c) \/ KRefuse(c) \/ \E d \in DevIds : KAdd(c, d)
Users == UserOpen \/ UserClose \/ \E d \in DevIds : KMakeNode(d)

(* Every step is one of these.                                             *)
LEMMA StepKinds ==
    ASSUME [Next]_vars
    PROVE  Command1 \/ Opening \/ Running \/ Closing \/ Executed \/ Users \/ UNCHANGED vars
  BY DEF Next, Steps, CtrlCommand, Worker, Kernel, Callers, Finished, Command1, Opening, Running,
         Closing, Executed, Users

(* A step of ctrlCommand stays in it or returns from it.                   *)
LEMMA CommandFrame ==
    ASSUME Command1, phase # "issue" => at \in CtrlSteps
    PROVE  /\ at \in CtrlSteps
           /\ UNCHANGED <<call, handles, info, tries, workers, worker, ready, armed, cancelled, kdev,
                          params, node, opener, caller, once>>
           /\ \/ UNCHANGED <<at, id, useIoctl, bufSize, delErr>>
              \/ phase' = "issue" /\ \E ok \in {TRUE, FALSE, Head(ccq).ok} : Returns(ok)
           /\ phase' \in {"issue", "submit", "enter", "wait"}
  BY DEF Command1, IssueCommand, SubmitCommand, KTake, Submitted, SubmitError, TakeAnswer,
         WaitError, CtrlFrame, workVars, kernVars, callVars, Returns

(* ... and leads to a step of New or shutdown.                             *)
LEMMA Successors ==
    ASSUME at \in CtrlSteps
    PROVE  /\ AfterError(at) \in {"addLegacy", "del", "ctrlclose", "cancel"}
           /\ AfterSuccess(at) \in {"char", "init", "live", "del", "ctrlclose"}
           /\ AfterError(at) = "addLegacy" <=> at = "add"
           /\ AfterError(at) = "cancel" <=> at \in {"addLegacy", "params", "start"}
           /\ AfterSuccess(at) = "char" <=> at \in {"add", "addLegacy"}
           /\ AfterSuccess(at) = "init" <=> at = "params"
           /\ AfterSuccess(at) = "live" <=> at = "start"
           /\ AfterError(at) = "del" <=> at = "stop" /\ id # Unset
           /\ at \in {"stop", "del"} => AfterSuccess(at) = AfterError(at)
           /\ Op(at) = "add" <=> at \in {"add", "addLegacy"}
           /\ at = "del" => AfterError(at) = "ctrlclose"
  BY DEF AfterError, AfterSuccess, Op, CtrlSteps

(* New's own steps, between its control commands.                          *)
LEMMA OpeningFrame ==
    ASSUME Opening
    PROVE  /\ UNCHANGED <<call, phase, sq, unflushed, want, got, ccq, running, id, info,
                          useIoctl, bufSize, kdev, params, node, opener, caller, once, delErr>>
           /\ UNCHANGED <<ready, armed, cancelled>>
           /\ at \in {"validate", "open", "ctrlring", "char", "init", "descs", "ready"}
           /\ at' \in {"open", "failed", "ctrlring", "add", "char", "cancel", "params", "init",
                       "descs", "ready", "start"}
  BY Zenon DEF Opening, Validate, OpenControl, OpenControlRing, OpenChar, OpenWorkerRing, InitWorker,
         AwaitReady, NewFrame, Acquire, ring, sqVars, kernVars, callVars, workVars

(* The worker goroutine touches only itself and the channel ready.         *)
LEMMA RunningFrame ==
    ASSUME Running
    PROVE  /\ UNCHANGED <<call, at, phase, sq, unflushed, want, got, ccq, running, id, info,
                          useIoctl, bufSize, kdev, params, node, opener, caller, once, delErr,
                          handles, tries, workers, cancelled>>
           /\ worker = "running" /\ worker' \in {"running", "done"}
           /\ ready' \in {ready, "nil", "err"} /\ armed' \in {armed, TRUE}
  BY DEF Running, WorkerArms, WorkerStops, WorkerDies, NewFrame, ring, sqVars, kernVars, callVars

(* Close and shutdown, between their control commands.                     *)
LEMMA ClosingFrame ==
    ASSUME Closing
    PROVE  /\ UNCHANGED <<call, phase, sq, unflushed, want, got, ccq, running, id, info,
                          useIoctl, bufSize, tries, kdev, params, node, opener, delErr>>
           /\ UNCHANGED <<workers, worker, ready, armed>>
  BY DEF Closing, CancelWorkers, Join, Release, CloseControl, CallClose, CloseReturns,
         CloseFrame, ring, sqVars, kernVars, devVars, workVars

(* The kernel's execution of a command does not touch the process.         *)
LEMMA ExecutedFrame ==
    ASSUME Executed
    PROVE  UNCHANGED <<call, at, phase, sq, unflushed, want, got, handles, id, useIoctl, bufSize,
                       tries, workers, worker, ready, armed, cancelled, opener, caller, once, delErr>>
  BY DEF Executed, KRun, KRefuse, KAdd, KAnswer, ring, sqVars, workVars, callVars

(* Nor does anything users of the block device or udev do.                 *)
LEMMA UsersFrame ==
    ASSUME Users
    PROVE  UNCHANGED <<call, at, phase, sq, unflushed, want, got, ccq, running, handles, id, info,
                       useIoctl, bufSize, tries, workers, worker, ready, armed, cancelled, kdev, params,
                       caller, once, delErr>>
  BY DEF Users, UserOpen, UserClose, KMakeNode, ring, sqVars, workVars, callVars, devVars

(* A step of somebody else changes nothing.                                *)
LEMMA StutterFrame ==
    ASSUME UNCHANGED vars
    PROVE  UNCHANGED <<call, at, phase, sq, unflushed, want, got, ccq, running, handles, id, info,
                       useIoctl, bufSize, tries, workers, worker, ready, armed, cancelled, kdev, params,
                       node, opener, caller, once, delErr>>
  BY DEF vars, ring, sqVars, workVars, callVars, devVars, kernVars

-----------------------------------------------------------------------------
(***************************************************************************)
(* Each conjunct of the invariant is kept.                                 *)
(***************************************************************************)
NewSteps == {"validate", "open", "ctrlring", "char", "init", "descs", "ready", "live", "cancel",
             "join", "release", "ctrlclose", "failed", "closed"}
AllHandles == ({"ctrl", "io"} \X RingParts) \cup {CtrlFD, CharFD, Descs}

(* The control ring: what a step of ctrlCommand does to its queues.        *)
LEMMA CommandQueues ==
    ASSUME TypeOK, HandleInv, Command1
    PROVE  /\ sq' \in Seq(Commands) /\ unflushed' \in 0 .. Len(sq')
           /\ want' \in Nat /\ got' \in 0 .. want'
           /\ ccq' \in Seq([cmd : Commands, ok : BOOLEAN]) /\ running' \subseteq Commands
           /\ phase' = "enter" => unflushed' = 0
           /\ \A c \in Queued' : c \in Queued \/ c = Command(at)
  <1>1. /\ sq \in Seq(Commands) /\ unflushed \in Nat /\ unflushed <= Len(sq)
        /\ want \in Nat /\ got \in Nat /\ got <= want /\ Len(sq) \in Nat
        /\ ccq \in Seq([cmd : Commands, ok : BOOLEAN]) /\ running \subseteq Commands
        /\ phase = "enter" => unflushed = 0
    BY DEF TypeOK, HandleInv
  <1>2. at \in CtrlSteps /\ Command(at) \in Commands
    BY Zenon, CommandFrame, CommandType DEF TypeOK, HandleInv
  <1>3. CASE IssueCommand /\ ~SQFull
    <2>1. /\ sq' = Fill(Command(at)) /\ UNCHANGED <<want, got, ccq, running>>
          /\ unflushed' = 1 + (IF unflushed >= SQEntries THEN Len(sq) ELSE unflushed)
          /\ phase' = "submit"
      BY <1>3 DEF IssueCommand, PushSQE
    <2>2. /\ Fill(Command(at)) \in Seq(Commands) /\ Len(Fill(Command(at))) = Len(sq) + 1
          /\ \A i \in DOMAIN Fill(Command(at)) :
                \/ Fill(Command(at))[i] = Command(at)
                \/ \E j \in DOMAIN sq : Fill(Command(at))[i] = sq[j]
      BY <1>1, <1>2, FillFacts
    <2>3. unflushed' \in 0 .. Len(sq')
      BY <1>1, <2>1, <2>2
    <2>4. \A c \in Queued' : c \in Queued \/ c = Command(at)
      BY <2>1, <2>2 DEF Queued
    <2> QED
      BY <1>1, <2>1, <2>2, <2>3, <2>4
  <1>4. CASE IssueCommand /\ SQFull
    <2>1. UNCHANGED <<sq, want, got, ccq, running>> /\ unflushed' = Len(sq) /\ phase' = "issue"
      BY <1>4 DEF IssueCommand, NilSQE, Returns
    <2> QED
      BY <1>1, <2>1 DEF Queued
  <1>5. CASE SubmitCommand
    <2>1. UNCHANGED <<sq, ccq, running>> /\ unflushed' = 0 /\ want' = unflushed /\ got' = 0
      BY <1>5 DEF SubmitCommand, FlushSQ
    <2> QED
      BY <1>1, <2>1 DEF Queued
  <1>6. CASE KTake
    <2>1. /\ sq # <<>> /\ sq' = Tail(sq) /\ got < want /\ got' = got + 1
          /\ UNCHANGED <<unflushed, want, ccq, phase>> /\ phase = "enter"
          /\ running' = running \cup {Head(sq)}
      BY <1>6 DEF KTake, ConsumeSQE
    <2>2. /\ Tail(sq) \in Seq(Commands) /\ Head(sq) \in Commands /\ Len(Tail(sq)) \in Nat
          /\ Head(sq) = sq[1] /\ 1 \in DOMAIN sq
          /\ \A i \in DOMAIN Tail(sq) : i + 1 \in DOMAIN sq /\ Tail(sq)[i] = sq[i + 1]
      <3>1. Len(sq) > 0
        BY <1>1, <2>1
      <3>2. DOMAIN sq = 1 .. Len(sq) /\ DOMAIN Tail(sq) = 1 .. Len(sq) - 1
        BY <1>1, <3>1
      <3>3. /\ Tail(sq) \in Seq(Commands) /\ Head(sq) = sq[1] /\ Len(Tail(sq)) = Len(sq) - 1
            /\ \A i \in 1 .. Len(sq) - 1 : Tail(sq)[i] = sq[i + 1]
        BY <1>1, <3>1
      <3>4. Head(sq) \in Commands
        BY <1>1, <3>1, <3>2, <3>3
      <3> QED
        BY <1>1, <3>1, <3>2, <3>3, <3>4
    <2>3. unflushed' \in 0 .. Len(sq') /\ want' \in Nat /\ got' \in 0 .. want'
      BY <1>1, <2>1, <2>2
    <2>4. \A c \in Queued' : c \in Queued
      BY <2>1, <2>2 DEF Queued
    <2> QED
      BY <1>1, <2>1, <2>2, <2>3, <2>4
  <1>7. CASE Submitted \/ SubmitError
    <2>1. UNCHANGED <<sq, unflushed, ccq, running>> /\ want' = 0 /\ got' = 0 /\ phase' # "enter"
      BY <1>7 DEF Submitted, SubmitError, EnterReturns, Returns
    <2> QED
      BY <1>1, <2>1 DEF Queued
  <1>8. CASE TakeAnswer \/ WaitError
    <2>1. UNCHANGED <<sq, unflushed, want, got, running>> /\ phase' = "issue"
      BY <1>8 DEF TakeAnswer, WaitError, Returns, ring, sqVars
    <2>2. ccq' \in Seq([cmd : Commands, ok : BOOLEAN])
      BY Zenon, <1>1, <1>8, TailType DEF TakeAnswer, WaitError
    <2> QED
      BY <1>1, <2>1, <2>2 DEF Queued
  <1> QED
    BY <1>3, <1>4, <1>5, <1>6, <1>7, <1>8 DEF Command1

(* Types of a step of ctrlCommand.                                         *)
LEMMA CommandTypes ==
    ASSUME TypeOK, HandleInv, Command1
    PROVE  TypeOK'
  <1>1. /\ at \in CtrlSteps
        /\ UNCHANGED <<call, handles, info, tries, workers, worker, ready, armed, cancelled, kdev,
                       params, node, opener, caller, once>>
        /\ \/ UNCHANGED <<at, id, useIoctl, bufSize, delErr>>
           \/ phase' = "issue" /\ \E ok \in {TRUE, FALSE, Head(ccq).ok} : Returns(ok)
        /\ phase' \in {"issue", "submit", "enter", "wait"}
    BY Zenon, CommandFrame DEF HandleInv
  <1>2. /\ at' \in CtrlSteps \cup NewSteps /\ bufSize' \in Nat /\ id' \in DevIds \cup {Unset}
        /\ useIoctl' \in BOOLEAN /\ delErr' \in BOOLEAN
    <2>1. CASE UNCHANGED <<at, id, useIoctl, bufSize, delErr>>
      BY <2>1 DEF TypeOK, NewSteps
    <2>2. ASSUME NEW ok, Returns(ok)
          PROVE  /\ at' \in CtrlSteps \cup NewSteps /\ bufSize' \in Nat
                 /\ id' \in DevIds \cup {Unset} /\ useIoctl' \in BOOLEAN /\ delErr' \in BOOLEAN
      <3>1. AfterSuccess(at) \in CtrlSteps \cup NewSteps /\ AfterError(at) \in CtrlSteps \cup NewSteps
        BY <1>1, Successors DEF CtrlSteps, NewSteps
      <3>2. info.id \in DevIds \cup {Unset} /\ info.buf \in Nat /\ BufSize(cfg, info.buf) \in Nat
        BY ConfigType DEF TypeOK
      <3>3. at' \in CtrlSteps \cup NewSteps
        BY <2>2, <3>1 DEF Returns
      <3>4. bufSize' \in Nat /\ id' \in DevIds \cup {Unset}
        BY <2>2, <3>2 DEF Returns, TypeOK
      <3>5. useIoctl' \in BOOLEAN /\ delErr' \in BOOLEAN
        BY Zenon, <2>2 DEF Returns, TypeOK
      <3> QED
        BY <3>3, <3>4, <3>5
    <2> QED
      BY Zenon, <1>1, <2>1, <2>2
  <1>3. /\ sq' \in Seq(Commands) /\ unflushed' \in 0 .. Len(sq')
        /\ want' \in Nat /\ got' \in 0 .. want'
        /\ ccq' \in Seq([cmd : Commands, ok : BOOLEAN]) /\ running' \subseteq Commands
    BY CommandQueues
  <1> QED
    BY ZenonT(60), <1>1, <1>2, <1>3 DEF TypeOK, NewSteps

(* What is closed with a ring, and what is not.                            *)
LEMMA HandleSets ==
    /\ \A r : {<<r, p>> : p \in RingParts} = {r} \X RingParts
    /\ CharFD \notin CtrlHandles \cup WorkerRing
    /\ Descs \notin CtrlHandles \cup WorkerRing
    /\ CharFD # Descs /\ CtrlFD \notin {"ctrl"} \X RingParts
    /\ CtrlHandles \cap WorkerRing = {}
    /\ AllHandles = CtrlHandles \cup WorkerRing \cup {CharFD, Descs}
    /\ \A h \in CtrlHandles : h[1] = "ctrl"
  <1>1. RingParts = {"fd", "mmapSQ", "mmapCQ", "mmapSQEs", "cancelFD", "epollFD"}
    BY DEF RingParts, Order
  <1> QED
    BY <1>1 DEF CharFD, Descs, CtrlFD, CtrlHandles, WorkerRing, AllHandles

Holding ==
    /\ at \in {"validate", "open", "failed", "closed"} => MayHold = {}
    /\ at \in {"ctrlring", "add", "addLegacy", "char", "stop", "del", "ctrlclose"}
           => MayHold = CtrlHandles
    /\ at = "params" => MayHold = CtrlHandles \cup {CharFD}
    /\ at \in {"init", "descs"} => MayHold = CtrlHandles \cup {CharFD} \cup WorkerRing
    /\ at \in {"ready", "start", "live", "cancel", "join", "release"}
           => MayHold = CtrlHandles \cup {CharFD}
                        \cup IF workers THEN WorkerRing \cup {Descs} ELSE {}

(* MayHold, step by step.                                                  *)
LEMMA HoldingNow == Holding
  BY DEF Holding, MayHold

(* ... in the next state as well.                                          *)
LEMMA HoldingNext == Holding'
  BY HoldingNow, PTL

(* New opens and closes what it says.                                      *)
LEMMA OpeningHandles ==
    ASSUME TypeOK, HandleInv, Opening
    PROVE  HandleInv' /\ handles' \subseteq AllHandles /\ tries' \in 0 .. MaxTries
           /\ workers' \in BOOLEAN /\ worker' \in {"none", "running", "done"}
  <1> USE HandleSets
  <1>1. /\ handles \subseteq MayHold /\ handles \subseteq AllHandles
        /\ at \in Before \cup {"char", "params", "init", "descs"} => ~workers
        /\ at \in {"ready", "start", "live"} => workers
        /\ worker = "running" => workers
        /\ (at \in Before => tries = 0) /\ (at = "char" => tries < MaxTries)
        /\ phase # "issue" => at \in CtrlSteps
        /\ phase = "enter" => unflushed = 0
        /\ workers \in BOOLEAN /\ worker \in {"none", "running", "done"}
        /\ tries \in Nat /\ MaxTries \in Nat /\ tries <= MaxTries
        /\ UNCHANGED <<phase, unflushed>>
    BY SMTT(30), LifecycleAssumption, OpeningFrame DEF HandleInv, TypeOK, AllHandles
  <1>2. /\ MaxTries > 0 /\ phase = "issue"
    BY <1>1, LifecycleAssumption, OpeningFrame DEF CtrlSteps
  <1>3. CASE Validate
    <2>1. /\ at = "validate" /\ at' \in {"open", "failed"}
          /\ UNCHANGED <<handles, tries, workers, worker>>
      BY <1>3 DEF Validate, workVars
    <2> QED
      BY <1>1, <1>2, <2>1, HoldingNow, HoldingNext DEF HandleInv, Holding, Before
  <1>4. CASE OpenControl
    <2>1. /\ at = "open" /\ UNCHANGED <<tries, workers, worker>>
          /\ \/ handles' = {CtrlFD} /\ at' = "ctrlring"
             \/ handles' = handles /\ at' = "failed"
      BY <1>4 DEF OpenControl, workVars
    <2>2. CtrlFD \in CtrlHandles
      BY DEF CtrlHandles
    <2> QED
      BY <1>1, <1>2, <2>1, <2>2, HoldingNow, HoldingNext DEF HandleInv, Holding, Before
  <1>5. CASE OpenControlRing
    <2>1. /\ at = "ctrlring" /\ UNCHANGED <<tries, workers, worker>>
          /\ \/ handles' = handles /\ at' = "add"
             \/ at' = "ctrlring" /\ \E p \in RingParts : handles' = handles \cup {<<"ctrl", p>>}
             \/ at' = "failed" /\ handles' = (handles \ ({"ctrl"} \X RingParts)) \ {CtrlFD}
      BY <1>5 DEF OpenControlRing, workVars, Acquire, WithoutRing
    <2>2. \A p \in RingParts : <<"ctrl", p>> \in CtrlHandles
      BY DEF CtrlHandles
    <2>3. CASE at' = "failed"
      BY <1>1, <1>2, <2>1, <2>3, HoldingNow, HoldingNext DEF HandleInv, Holding, Before, CtrlHandles
    <2>4. CASE at' # "failed"
      BY <1>1, <1>2, <2>1, <2>2, <2>4, HoldingNow, HoldingNext DEF HandleInv, Holding, Before
    <2> QED
      BY <2>3, <2>4
  <1>6. CASE OpenChar
    <2>1. /\ at = "char" /\ UNCHANGED <<workers, worker>>
          /\ \/ handles' = handles \cup {CharFD} /\ at' = "params" /\ tries' = tries
             \/ handles' = handles /\ tries' = tries + 1
                /\ at' = IF tries' = MaxTries THEN "cancel" ELSE "char"
             \/ handles' = handles /\ at' = "cancel" /\ tries' = tries
      BY <1>6 DEF OpenChar, workVars
    <2>2. tries' \in 0 .. MaxTries /\ (at' = "char" => tries' < MaxTries)
      BY <1>1, <2>1
    <2>3. handles' \subseteq CtrlHandles \cup {CharFD} /\ (at' = "char" => handles' \subseteq CtrlHandles)
      BY <1>1, <2>1, HoldingNow DEF Holding
    <2>4. at' \in {"char", "params", "cancel"} /\ ~workers'
      BY <1>1, <2>1
    <2>5. handles' \subseteq MayHold'
      BY <1>1, <2>1, <2>3, <2>4, HoldingNext DEF Holding
    <2> QED
      BY <1>1, <1>2, <2>1, <2>2, <2>4, <2>5 DEF HandleInv, Before
  <1>7. CASE OpenWorkerRing
    <2>1. /\ at = "init" /\ UNCHANGED <<tries, workers, worker>>
          /\ \/ handles' = handles /\ at' = "descs"
             \/ at' = "init" /\ \E p \in RingParts : handles' = handles \cup {<<"io", p>>}
             \/ at' = "cancel" /\ handles' = handles \ WorkerRing
      BY <1>7 DEF OpenWorkerRing, workVars, Acquire, WithoutRing, WorkerRing
    <2>2. \A p \in RingParts : <<"io", p>> \in WorkerRing
      BY DEF WorkerRing
    <2> QED
      BY <1>1, <1>2, <2>1, <2>2, HoldingNow, HoldingNext DEF HandleInv, Holding, Before
  <1>8. CASE InitWorker
    <2>1. /\ at = "descs" /\ UNCHANGED tries
          /\ \/ handles' = handles \cup {Descs} /\ workers' = TRUE /\ worker' = "running"
                /\ at' = "ready"
             \/ handles' = handles \ WorkerRing /\ at' = "cancel" /\ UNCHANGED <<workers, worker>>
      BY <1>8 DEF InitWorker, WithoutRing, WorkerRing
    <2>2. handles \subseteq CtrlHandles \cup {CharFD} \cup WorkerRing /\ ~workers
      BY <1>1, <2>1, HoldingNow DEF Holding
    <2>3. CASE at' = "ready"
      <3>1. workers' /\ worker' = "running" /\ handles' = handles \cup {Descs}
        BY <2>1, <2>3
      <3>2. MayHold' = CtrlHandles \cup {CharFD} \cup (WorkerRing \cup {Descs})
        BY <2>3, <3>1, HoldingNext DEF Holding
      <3>3. handles' \subseteq MayHold' /\ handles' \subseteq AllHandles
        BY <2>2, <3>1, <3>2
      <3> QED
        BY <1>1, <1>2, <2>1, <2>3, <3>1, <3>3 DEF HandleInv, Before
    <2>4. CASE at' = "cancel"
      <3>1. UNCHANGED <<workers, worker>> /\ handles' = handles \ WorkerRing
        BY <2>1, <2>4
      <3>2. handles' \subseteq MayHold' /\ handles' \subseteq AllHandles
        BY <2>2, <2>4, <3>1, HoldingNext DEF Holding
      <3> QED
        BY <1>1, <1>2, <2>1, <2>2, <2>4, <3>1, <3>2 DEF HandleInv, Before
    <2> QED
      BY <2>1, <2>3, <2>4
  <1>9. CASE AwaitReady
    <2>1. /\ at = "ready" /\ at' \in {"start", "cancel"}
          /\ UNCHANGED <<handles, tries, workers, worker>>
      BY <1>9 DEF AwaitReady, workVars
    <2> QED
      BY <1>1, <1>2, <2>1, HoldingNow, HoldingNext DEF HandleInv, Holding, Before
  <1> QED
    BY <1>3, <1>4, <1>5, <1>6, <1>7, <1>8, <1>9 DEF Opening

(* shutdown and Close: what is released, and in which order.               *)
LEMMA ClosingHandles ==
    ASSUME TypeOK, HandleInv, CloseInv, Closing
    PROVE  /\ HandleInv' /\ CloseInv' /\ handles' \subseteq AllHandles
           /\ at' \in NewSteps \cup CtrlSteps /\ cancelled' \in BOOLEAN
           /\ caller' \in [Closers -> {"out", "in", "back"}] /\ once' \in {"new", "running", "done"}
           /\ at' \in {at, "cancel", "join", "release", "stop", "failed", "closed"}
           /\ at' # at => /\ at \in {"live", "cancel", "join", "release", "ctrlclose"}
                          /\ at \in {"live", "ctrlclose"} \/ once' = once
                          /\ at' \in {"failed", "closed"} <=> at = "ctrlclose"
  <1> USE HandleSets
  <1>1. /\ handles \subseteq MayHold /\ handles \subseteq AllHandles
        /\ at \in Before \cup {"char", "params", "init", "descs"} => ~workers
        /\ at \in {"ready", "start", "live"} => workers
        /\ worker = "running" => workers /\ at \notin {"release", "stop", "del", "ctrlclose",
                                                       "failed", "closed"}
        /\ (at \in Before => tries = 0) /\ (at = "char" => tries < MaxTries)
        /\ phase # "issue" => at \in CtrlSteps
        /\ phase = "enter" => unflushed = 0
        /\ workers \in BOOLEAN /\ cancelled \in BOOLEAN
        /\ caller \in [Closers -> {"out", "in", "back"}] /\ once \in {"new", "running", "done"}
        /\ at \in NewSteps \cup CtrlSteps
        /\ UNCHANGED <<phase, unflushed, tries, workers, worker>>
    BY ClosingFrame DEF HandleInv, TypeOK, AllHandles, NewSteps
  <1>2. /\ once = "running" => at \in {"cancel", "join", "release", "stop", "del", "ctrlclose"}
        /\ once = "done" <=> at = "closed"
        /\ \A c \in Closers : caller[c] = "back" => once = "done"
    BY DEF CloseInv
  <1>3. CASE CancelWorkers \/ Join
    <2>1. /\ at \in {"cancel", "join"} /\ at' \in {"join", "release"} /\ handles' = handles
          /\ at' = "release" => worker # "running"
          /\ UNCHANGED <<caller, once>> /\ cancelled' \in BOOLEAN
      BY <1>1, <1>3 DEF CancelWorkers, Join, workVars, callVars
    <2>2. handles' \subseteq MayHold'
      BY <1>1, <2>1, HoldingNow, HoldingNext DEF Holding
    <2>3. HandleInv' /\ CloseInv'
      BY <1>1, <1>2, <2>1, <2>2 DEF HandleInv, CloseInv, Before, CtrlSteps
    <2> QED
      BY <1>1, <2>1, <2>3 DEF NewSteps
  <1>4. CASE Release
    <2>1. /\ at = "release" /\ at' = "stop" /\ UNCHANGED <<caller, once, cancelled>>
          /\ handles' = (IF workers THEN (handles \ WorkerRing) \ {Descs} ELSE handles) \ {CharFD}
      BY <1>4 DEF Release, WithoutRing, workVars, callVars, WorkerRing
    <2>2. handles' \subseteq MayHold' /\ handles' \subseteq AllHandles
      BY <1>1, <2>1, HoldingNow, HoldingNext DEF Holding
    <2>3. HandleInv' /\ CloseInv'
      BY <1>1, <1>2, <2>1, <2>2 DEF HandleInv, CloseInv, Before, CtrlSteps
    <2> QED
      BY <1>1, <2>1, <2>2, <2>3 DEF CtrlSteps
  <1>5. CASE CloseControl
    <2>1. /\ at = "ctrlclose" /\ UNCHANGED <<caller, cancelled>>
          /\ \/ once = "running" /\ at' = "closed" /\ once' = "done"
             \/ once # "running" /\ at' = "failed" /\ once' = once
          /\ handles' = (handles \ ({"ctrl"} \X RingParts)) \ {CtrlFD}
      BY <1>5 DEF CloseControl, WithoutRing, workVars
    <2>2. handles' = {}
      BY <1>1, <2>1, HoldingNow DEF Holding, CtrlHandles
    <2>3. HandleInv' /\ CloseInv'
      BY <1>1, <1>2, <2>1, <2>2 DEF HandleInv, CloseInv, Before, CtrlSteps
    <2> QED
      BY <1>1, <2>1, <2>2, <2>3 DEF NewSteps
  <1>6. ASSUME NEW c \in Closers, CallClose(c)
        PROVE  /\ HandleInv' /\ CloseInv' /\ handles' \subseteq AllHandles
               /\ at' \in NewSteps \cup CtrlSteps /\ cancelled' \in BOOLEAN
               /\ caller' \in [Closers -> {"out", "in", "back"}]
               /\ once' \in {"new", "running", "done"}
               /\ at' = at \/ (at = "live" /\ at' = "cancel")
    <2>1. /\ caller' = [caller EXCEPT ![c] = "in"] /\ UNCHANGED <<handles, cancelled>>
          /\ \/ once = "new" /\ at = "live" /\ once' = "running" /\ at' = "cancel"
             \/ once # "new" /\ once' = once /\ at' = at
      BY <1>6 DEF CallClose, workVars
    <2>2. \A b \in Closers : caller'[b] = "back" => caller[b] = "back"
      BY <1>1, <2>1
    <2>3. handles' \subseteq MayHold'
      BY <1>1, <2>1, HoldingNow, HoldingNext DEF Holding, NewSteps, CtrlSteps
    <2>4. HandleInv'
      BY <1>1, <2>1, <2>3 DEF HandleInv, Before, CtrlSteps
    <2>5. CloseInv'
      BY <1>2, <2>1, <2>2 DEF CloseInv
    <2>6. caller' \in [Closers -> {"out", "in", "back"}]
      BY <1>1, <2>1
    <2> QED
      BY <1>1, <2>1, <2>4, <2>5, <2>6 DEF NewSteps
  <1>7. ASSUME NEW c \in Closers, CloseReturns(c)
        PROVE  /\ HandleInv' /\ CloseInv' /\ UNCHANGED <<at, handles, cancelled, once>>
               /\ caller' \in [Closers -> {"out", "in", "back"}]
    <2>1. /\ once = "done" /\ caller' = [caller EXCEPT ![c] = "back"]
          /\ UNCHANGED <<at, handles, cancelled, once>>
      BY <1>7 DEF CloseReturns, workVars
    <2>2. handles' \subseteq MayHold'
      BY <1>1, <2>1 DEF MayHold
    <2>3. HandleInv'
      BY <1>1, <2>1, <2>2 DEF HandleInv
    <2>4. CloseInv'
      BY <1>2, <2>1 DEF CloseInv
    <2> QED
      BY <1>1, <2>1, <2>3, <2>4
  <1> QED
    BY <1>1, <1>3, <1>4, <1>5, <1>6, <1>7 DEF Closing

(* The kernel executes a command, or refuses it, and answers it.           *)
LEMMA ExecutedTypes ==
    ASSUME TypeOK, Executed
    PROVE  /\ TypeOK' /\ running' \subseteq running
           /\ info' = info \/ info'.buf \in Bufs
  <1>1. /\ running \subseteq Commands /\ ccq \in Seq([cmd : Commands, ok : BOOLEAN])
        /\ kdev \in [DevIds -> {"none", "added", "params", "live", "dead", "gone"}]
        /\ node \subseteq DevIds /\ Bufs \subseteq Nat
        /\ info \in [id : DevIds \cup {Unset}, buf : Nat]
    BY Zenon, ConfigType DEF TypeOK
  <1>2. ASSUME NEW c \in running, NEW ok \in BOOLEAN, KAnswer(c, ok)
        PROVE  ccq' \in Seq([cmd : Commands, ok : BOOLEAN]) /\ running' \subseteq running
    <2>1. [cmd |-> c, ok |-> ok] \in [cmd : Commands, ok : BOOLEAN]
      BY <1>1
    <2> QED
      BY <1>1, <1>2, <2>1 DEF KAnswer
  <1>3. ASSUME NEW c \in running, KRun(c)
        PROVE  /\ kdev' \in [DevIds -> {"none", "added", "params", "live", "dead", "gone"}]
               /\ node' \subseteq DevIds /\ info' = info
               /\ ccq' \in Seq([cmd : Commands, ok : BOOLEAN]) /\ running' \subseteq running
    <2>1. PICK s : /\ kdev' = [kdev EXCEPT ![c.id] = s]
                   /\ s \in {"params", "live", "gone", "dead", kdev[c.id]}
      BY <1>3, Zenon DEF KRun
    <2>2. c.id \in DevIds /\ KAnswer(c, TRUE) /\ info' = info
          /\ node' = IF c.op = "del" THEN node \ {c.id} ELSE node
      BY Zenon, <1>3 DEF KRun, Existing
    <2>3. kdev[c.id] \in {"none", "added", "params", "live", "dead", "gone"}
      BY <1>1, <2>2
    <2>4. kdev' \in [DevIds -> {"none", "added", "params", "live", "dead", "gone"}]
      BY <1>1, <2>1, <2>2, <2>3
    <2> QED
      BY Zenon, <1>1, <1>2, <2>2, <2>4
  <1>4. ASSUME NEW c \in running, KRefuse(c)
        PROVE  /\ kdev' = kdev /\ node' = node /\ info' = info
               /\ ccq' \in Seq([cmd : Commands, ok : BOOLEAN]) /\ running' \subseteq running
    BY Zenon, <1>2, <1>4 DEF KRefuse
  <1>5. ASSUME NEW c \in running, NEW d \in DevIds, KAdd(c, d)
        PROVE  /\ kdev' \in [DevIds -> {"none", "added", "params", "live", "dead", "gone"}]
               /\ node' \subseteq DevIds
               /\ info'.buf \in Bufs /\ info' \in [id : DevIds \cup {Unset}, buf : Nat]
               /\ ccq' \in Seq([cmd : Commands, ok : BOOLEAN]) /\ running' \subseteq running
    <2>1. PICK buf \in Bufs : info' = [id |-> d, buf |-> buf]
      BY <1>5 DEF KAdd, Bufs
    <2>2. kdev' = [kdev EXCEPT ![d] = "added"] /\ node' = node /\ KAnswer(c, TRUE)
      BY Zenon, <1>5 DEF KAdd
    <2> QED
      BY Zenon, <1>1, <1>2, <2>1, <2>2
  <1>6. /\ kdev' \in [DevIds -> {"none", "added", "params", "live", "dead", "gone"}]
        /\ node' \subseteq DevIds
        /\ info' = info \/ info'.buf \in Bufs
        /\ info' \in [id : DevIds \cup {Unset}, buf : Nat]
        /\ ccq' \in Seq([cmd : Commands, ok : BOOLEAN]) /\ running' \subseteq running
    BY Zenon, <1>1, <1>3, <1>4, <1>5 DEF Executed
  <1>7. UNCHANGED <<call, at, phase, sq, unflushed, want, got, handles, id, useIoctl, bufSize,
                    tries, workers, worker, ready, armed, cancelled, opener, caller, once, delErr>>
    BY ExecutedFrame
  <1>8. running' \subseteq Commands
    BY <1>1, <1>6
  <1>9. /\ at' \in CtrlSteps \cup NewSteps
        /\ phase' \in {"issue", "submit", "enter", "wait"}
        /\ sq' \in Seq(Commands) /\ unflushed' \in 0 .. Len(sq')
        /\ want' \in Nat /\ got' \in 0 .. want'
        /\ handles' \subseteq AllHandles /\ call' \in Calls /\ bufSize' \in Nat
        /\ id' \in DevIds \cup {Unset} /\ useIoctl' \in BOOLEAN /\ tries' \in 0 .. MaxTries
    BY <1>7 DEF TypeOK, NewSteps, AllHandles
  <1>10. /\ workers' \in BOOLEAN /\ cancelled' \in BOOLEAN /\ armed' \in BOOLEAN
         /\ worker' \in {"none", "running", "done"} /\ ready' \in {"empty", "nil", "err"}
         /\ opener' \in BOOLEAN /\ caller' \in [Closers -> {"out", "in", "back"}]
         /\ once' \in {"new", "running", "done"} /\ delErr' \in BOOLEAN
    BY <1>7 DEF TypeOK
  <1>11. TypeOK'
    BY Zenon, <1>6, <1>8, <1>9, <1>10 DEF TypeOK, NewSteps, AllHandles
  <1> QED
    BY <1>6, <1>11

(* Every step keeps the types.                                             *)
LEMMA Types ==
    ASSUME TypeOK, HandleInv, CloseInv, [Next]_vars
    PROVE  TypeOK'
  <1>1. CASE Opening
    <2>1. handles' \subseteq AllHandles /\ tries' \in 0 .. MaxTries
          /\ workers' \in BOOLEAN /\ worker' \in {"none", "running", "done"}
      BY <1>1, OpeningHandles
    <2> QED
      BY <1>1, <2>1, OpeningFrame DEF TypeOK, AllHandles, CtrlSteps
  <1>2. CASE Running
    <2>1. /\ at' \in CtrlSteps \cup NewSteps
          /\ phase' \in {"issue", "submit", "enter", "wait"}
          /\ sq' \in Seq(Commands) /\ unflushed' \in 0 .. Len(sq')
          /\ want' \in Nat /\ got' \in 0 .. want'
          /\ ccq' \in Seq([cmd : Commands, ok : BOOLEAN]) /\ running' \subseteq Commands
          /\ handles' \subseteq AllHandles /\ call' \in Calls /\ bufSize' \in Nat
          /\ id' \in DevIds \cup {Unset} /\ info' \in [id : DevIds \cup {Unset}, buf : Nat]
          /\ useIoctl' \in BOOLEAN /\ tries' \in 0 .. MaxTries
      BY Zenon, <1>2, RunningFrame DEF TypeOK, NewSteps, AllHandles
    <2>2. /\ workers' \in BOOLEAN /\ cancelled' \in BOOLEAN
          /\ kdev' \in [DevIds -> {"none", "added", "params", "live", "dead", "gone"}]
          /\ node' \subseteq DevIds /\ opener' \in BOOLEAN
          /\ caller' \in [Closers -> {"out", "in", "back"}]
          /\ once' \in {"new", "running", "done"} /\ delErr' \in BOOLEAN
      BY Zenon, <1>2, RunningFrame DEF TypeOK
    <2>3. /\ worker' \in {"none", "running", "done"} /\ ready' \in {"empty", "nil", "err"}
          /\ armed' \in BOOLEAN
      BY Zenon, <1>2, RunningFrame DEF TypeOK
    <2> QED
      BY Zenon, <2>1, <2>2, <2>3 DEF TypeOK, NewSteps, AllHandles
  <1>3. CASE Closing
    BY SMTT(30), <1>3, ClosingFrame, ClosingHandles DEF TypeOK, AllHandles, NewSteps
  <1>4. CASE Users
    <2>1. node' \subseteq DevIds /\ opener' \in BOOLEAN
      BY Zenon, <1>4 DEF Users, UserOpen, UserClose, KMakeNode, Existing, TypeOK
    <2> QED
      BY SMTT(30), <1>4, <2>1, UsersFrame DEF TypeOK
  <1>5. CASE UNCHANGED vars
    BY SMTT(30), <1>5, StutterFrame DEF TypeOK
  <1> QED
    BY <1>1, <1>2, <1>3, <1>4, <1>5, StepKinds, CommandTypes, ExecutedTypes

(* Where ctrlCommand may return to, the open handles may be open too.      *)
LEMMA CommandHandles ==
    ASSUME TypeOK, HandleInv, CloseInv, Command1
    PROVE  HandleInv' /\ CloseInv'
  <1>1. /\ handles \subseteq MayHold
        /\ at \in Before \cup {"char", "params", "init", "descs"} => ~workers
        /\ at \in {"ready", "start", "live"} => workers
        /\ worker = "running" => workers /\ at \notin {"release", "stop", "del", "ctrlclose",
                                                       "failed", "closed"}
        /\ (at \in Before => tries = 0) /\ (at = "char" => tries < MaxTries)
        /\ phase # "issue" => at \in CtrlSteps
    BY DEF HandleInv
  <1>2. /\ once = "running" => at \in {"cancel", "join", "release", "stop", "del", "ctrlclose"}
        /\ once = "done" <=> at = "closed"
        /\ \A c \in Closers : caller[c] = "back" => once = "done"
    BY DEF CloseInv
  <1>3. /\ at \in CtrlSteps
        /\ UNCHANGED <<handles, tries, workers, worker, caller, once>>
        /\ phase' # "issue" => at' = at
        /\ phase' = "enter" => unflushed' = 0
        /\ at' \in {at, AfterError(at), AfterSuccess(at)}
    BY <1>1, CommandFrame, CommandQueues DEF Returns
  <1>4. /\ at' \in {at, "addLegacy", "del", "ctrlclose", "cancel", "char", "init", "live"}
        /\ at' = "addLegacy" => at = "add" \/ at = "addLegacy"
        /\ at' = "cancel" => at \in {"addLegacy", "params", "start"}
        /\ at' = "char" => at \in {"add", "addLegacy"}
        /\ at' = "init" => at = "params"
        /\ at' = "live" => at = "start"
        /\ at' \in {"del", "ctrlclose"} => at \in {"stop", "del"}
    BY <1>3, Successors DEF CtrlSteps
  <1>5. handles' \subseteq MayHold'
    <2>1. CASE at' = at
      BY <1>1, <1>3, <2>1 DEF MayHold
    <2>2. CASE at' # at
      BY <1>1, <1>3, <1>4, <2>2, HoldingNow, HoldingNext DEF Holding, CtrlSteps
    <2> QED
      BY <2>1, <2>2
  <1>6. /\ at' \in Before \cup {"char", "params", "init", "descs"} => ~workers'
        /\ at' \in {"ready", "start", "live"} => workers'
        /\ worker' = "running" => workers' /\ at' \notin {"release", "stop", "del", "ctrlclose",
                                                          "failed", "closed"}
    BY <1>1, <1>3, <1>4 DEF Before
  <1>7. (at' \in Before => tries' = 0) /\ (at' = "char" => tries' < MaxTries)
    BY <1>1, <1>3, <1>4, LifecycleAssumption DEF Before
  <1>8. HandleInv'
    BY <1>3, <1>5, <1>6, <1>7 DEF HandleInv
  <1>9. CloseInv'
    BY <1>2, <1>3, <1>4 DEF CloseInv, CtrlSteps
  <1> QED
    BY <1>8, <1>9

(* Every step keeps to the handles of its place, and closeOnce to its.     *)
LEMMA Handles ==
    ASSUME TypeOK, HandleInv, CloseInv, [Next]_vars
    PROVE  HandleInv' /\ CloseInv'
  <1>1. CASE Opening
    <2>1. CloseInv'
      BY <1>1, OpeningFrame DEF CloseInv
    <2> QED
      BY <1>1, <2>1, OpeningHandles
  <1>2. CASE Running
    <2>1. MayHold' = MayHold
      BY <1>2, RunningFrame DEF MayHold
    <2> QED
      BY <1>2, <2>1, RunningFrame DEF HandleInv, CloseInv
  <1>3. ASSUME UNCHANGED <<at, phase, unflushed, handles, tries, workers, worker, caller, once>>
        PROVE  HandleInv' /\ CloseInv'
    <2>1. MayHold' = MayHold
      BY <1>3 DEF MayHold
    <2> QED
      BY <1>3, <2>1 DEF HandleInv, CloseInv
  <1> QED
    BY Zenon, <1>1, <1>2, <1>3, StepKinds, CommandHandles, ClosingHandles, ExecutedFrame, UsersFrame,
       StutterFrame

(* The arguments of New never change, and the size of the buffers only     *)
(* when addDev returns.                                                    *)
LEMMA SameConfig ==
    ASSUME call' = call
    PROVE  /\ cfg' = cfg /\ Bufs' = Bufs /\ validate(cfg, call.size)' = validate(cfg, call.size)
           /\ \A b : BufSize(cfg, b)' = BufSize(cfg, b)
           /\ bufSize' = bufSize => setParams' = setParams /\ Settled' = Settled
  BY DEF cfg, Bufs, Settled, setParams

(* The order of New's own steps.                                           *)
LEMMA OpeningMoves ==
    ASSUME Opening
    PROVE  \/ at = "validate" /\ at' \in {"open", "failed"} /\ (at' = "open" => validate(cfg, call.size))
           \/ at = "open" /\ at' \in {"ctrlring", "failed"}
           \/ at = "ctrlring" /\ at' \in {"ctrlring", "add", "failed"}
           \/ at = "char" /\ at' \in {"char", "params", "cancel"}
           \/ at = "init" /\ at' \in {"init", "descs", "cancel"}
           \/ at = "descs" /\ at' \in {"ready", "cancel"}
           \/ at = "ready" /\ at' \in {"start", "cancel"}
  BY DEF Opening, Validate, OpenControl, OpenControlRing, OpenChar, OpenWorkerRing, InitWorker,
         AwaitReady, Acquire

(* What ctrlCommand's return does to the place and the sizes.              *)
LEMMA ReturnMoves ==
    ASSUME TypeOK, HandleInv, Command1
    PROVE  /\ at \in CtrlSteps /\ at' \in {at, "addLegacy", "del", "ctrlclose", "cancel", "char",
                                           "init", "live"}
           /\ at' = "addLegacy" => at \in {"add", "addLegacy"}
           /\ at' = "cancel" => at \in {"addLegacy", "params", "start"}
           /\ at' = "char" => at \in {"add", "addLegacy"} /\ bufSize' = BufSize(cfg, info.buf)
           /\ at' = "init" => at = "params"
           /\ at' = "live" => at = "start"
           /\ at' \in {"del", "ctrlclose"} => at \in {"stop", "del"}
           /\ at = "del" => at' \in {"del", "ctrlclose"}
           /\ at \notin {"add", "addLegacy"} => UNCHANGED <<bufSize, id, useIoctl>>
  <1>1. phase # "issue" => at \in CtrlSteps
    BY DEF HandleInv
  <1>2. at \in CtrlSteps
    BY Zenon, <1>1, CommandFrame
  <1>3. CASE UNCHANGED <<at, id, useIoctl, bufSize, delErr>>
    BY <1>2, <1>3 DEF CtrlSteps
  <1>4. ASSUME NEW ok, Returns(ok)
        PROVE  /\ at' = IF ok THEN AfterSuccess(at) ELSE AfterError(at)
               /\ ok /\ Op(at) = "add" => bufSize' = BufSize(cfg, info.buf)
               /\ Op(at) # "add" => UNCHANGED <<bufSize, id, useIoctl>>
    BY <1>4 DEF Returns
  <1> QED
    BY Zenon, <1>1, <1>2, <1>3, <1>4, CommandFrame, Successors DEF CtrlSteps

(* Every step keeps the commands and the sizes to the places reached.      *)
LEMMA Reached ==
    ASSUME TypeOK, HandleInv, CloseInv, ReachedInv, [Next]_vars
    PROVE  ReachedInv'
  <1>1. /\ \A c \in Queued : /\ c.op = "del" => at \in {"del", "ctrlclose", "failed", "closed"}
                             /\ c.op = "params" => at \notin Before /\ Settled
        /\ at \in Before \ {"validate"} => validate(cfg, call.size)
        /\ at \in {"char", "params", "init", "descs", "ready", "start", "live"} => Settled
        /\ info.buf \in Bufs
        /\ (\E d \in DevIds : kdev[d] \in {"params", "live"})
               => at \notin Before /\ Settled /\ params = setParams
        /\ id \in DevIds \cup {Unset}
        /\ kdev \in [DevIds -> {"none", "added", "params", "live", "dead", "gone"}]
    BY DEF ReachedInv, TypeOK
  <1>2. CASE Command1
    <2>1. UNCHANGED <<call, info, kdev, params>>
      BY Zenon, <1>2, CommandFrame DEF HandleInv
    <2>2. \A c \in Queued' : c \in Queued \/ c = Command(at)
      BY <1>2, CommandQueues
    <2>3. /\ Command(at).op = "del" => at = "del"
          /\ Command(at).op = "params" => at = "params"
      BY Zenon, <1>1, <1>2, CommandType, ReturnMoves
    <2>4. (at' \in Before => at \in Before) /\ (at' \in Before \ {"validate"} => at \in Before \ {"validate"})
      BY <1>2, ReturnMoves DEF Before, CtrlSteps
    <2>5. at \notin Before => Settled' = Settled /\ setParams' = setParams
      BY <1>2, <2>1, ReturnMoves, SameConfig DEF Before
    <2>6. at' = "char" => Settled'
      <3> SUFFICES ASSUME at' = "char" PROVE Settled'
        OBVIOUS
      <3>1. at \in Before \ {"validate"} /\ bufSize' = BufSize(cfg, info.buf)
        BY <1>2, ReturnMoves DEF Before
      <3>2. validate(cfg, call.size)' /\ bufSize' = BufSize(cfg, info.buf)' /\ info.buf \in Bufs'
        BY <1>1, <2>1, <3>1, SameConfig
      <3> QED
        BY <2>1, <3>2 DEF Settled
    <2>7. ASSUME NEW c \in Queued'
          PROVE  /\ c.op = "del" => at' \in {"del", "ctrlclose", "failed", "closed"}
                 /\ c.op = "params" => at' \notin Before /\ Settled'
      <3>1. /\ c.op = "del" => at = "del"
            /\ c.op = "params" => at \notin Before /\ Settled
        BY <1>1, <1>2, <2>2, <2>3, ReturnMoves DEF CtrlSteps, Before
      <3> QED
        BY <1>2, <2>4, <2>5, <3>1, ReturnMoves
    <2>8. at' \in {"char", "params", "init", "descs", "ready", "start", "live"} => Settled'
      BY <1>1, <1>2, <2>5, <2>6, ReturnMoves DEF CtrlSteps, Before
    <2> QED
      BY <1>1, <2>1, <2>4, <2>5, <2>7, <2>8, SameConfig DEF ReachedInv
  <1>3. CASE Opening
    <2>1. UNCHANGED <<call, info, kdev, params, sq, running, bufSize>>
      BY <1>3, OpeningFrame
    <2>2. /\ Queued' = Queued /\ Settled' = Settled /\ setParams' = setParams /\ Bufs' = Bufs
          /\ validate(cfg, call.size)' = validate(cfg, call.size)
      BY Zenon, <2>1, SameConfig DEF Queued
    <2>3. /\ at \notin {"del", "ctrlclose", "failed", "closed"}
          /\ at \notin Before => at' \notin Before
          /\ at' \in Before \ {"validate"} => validate(cfg, call.size)
          /\ at' \in {"char", "params", "init", "descs", "ready", "start", "live"} => Settled
      BY <1>1, <1>3, OpeningMoves DEF Before
    <2> QED
      BY <1>1, <2>1, <2>2, <2>3 DEF ReachedInv
  <1>4. CASE Closing
    <2>1. UNCHANGED <<call, info, kdev, params, sq, running, bufSize>>
      BY <1>4, ClosingFrame
    <2>2. /\ Queued' = Queued /\ Settled' = Settled /\ setParams' = setParams /\ Bufs' = Bufs
          /\ validate(cfg, call.size)' = validate(cfg, call.size)
      BY Zenon, <2>1, SameConfig DEF Queued
    <2>3. /\ at' \in {at, "cancel", "join", "release", "stop", "failed", "closed"}
          /\ at' # at => /\ at \in {"live", "cancel", "join", "release", "ctrlclose"}
                         /\ at' \in {"failed", "closed"} <=> at = "ctrlclose"
      BY <1>4, ClosingHandles
    <2>4. /\ at \in {"del", "ctrlclose", "failed", "closed"}
                 => at' \in {"del", "ctrlclose", "failed", "closed"}
          /\ at' \in Before => at' = at
          /\ at' \in {"char", "params", "init", "descs", "ready", "start", "live"} => at' = at
      BY <2>3 DEF Before
    <2> QED
      BY Zenon, <1>1, <2>1, <2>2, <2>4 DEF ReachedInv
  <1>5. CASE Executed
    <2>1. UNCHANGED <<call, at, sq, bufSize>>
      BY <1>5, ExecutedFrame
    <2>2. Queued' \subseteq Queued
      BY <1>5, <2>1, ExecutedTypes DEF Queued
    <2>3. /\ Settled' = Settled /\ setParams' = setParams /\ Bufs' = Bufs
          /\ validate(cfg, call.size)' = validate(cfg, call.size)
      BY <2>1, SameConfig
    <2>4. info'.buf \in Bufs
      BY <1>1, <1>5, ExecutedTypes
    <2>5. (\E d \in DevIds : kdev'[d] \in {"params", "live"})
               => at \notin Before /\ Settled /\ params' = setParams
      <3>1. ASSUME NEW c \in running, KRun(c), c.op = "params"
            PROVE  at \notin Before /\ Settled /\ params' = setParams
        BY <1>1, <3>1 DEF KRun, Queued
      <3>2. ASSUME NEW c \in running, KRun(c), c.op # "params",
                   NEW d \in DevIds, kdev'[d] \in {"params", "live"}
            PROVE  at \notin Before /\ Settled /\ params' = setParams
        <4>1. params' = params
          BY <3>2 DEF KRun
        <4>2. PICK s : /\ kdev' = [kdev EXCEPT ![c.id] = s]
                       /\ s \in {"gone", "dead", kdev[c.id]} \/ c.op = "start"
          BY <3>2, Zenon DEF KRun
        <4>3. c.op = "start" => c.id \in DevIds /\ kdev[c.id] = "params"
          BY <3>2 DEF KRun, Existing
        <4>4. \E e \in DevIds : kdev[e] \in {"params", "live"}
          BY <1>1, <3>2, <4>2, <4>3
        <4> QED
          BY <1>1, <4>1, <4>4
      <3>3. ASSUME NEW c \in running, KRefuse(c)
            PROVE  UNCHANGED <<kdev, params>>
        BY <3>3 DEF KRefuse
      <3>4. ASSUME NEW c \in running, NEW e \in DevIds, KAdd(c, e)
            PROVE  params' = params /\ \A d \in DevIds : kdev'[d] \in {"params", "live"} => kdev'[d] = kdev[d]
        BY <1>1, <3>4 DEF KAdd
      <3> QED
        BY <1>1, <1>5, <3>1, <3>2, <3>3, <3>4 DEF Executed
    <2> QED
      BY Zenon, <1>1, <2>1, <2>2, <2>3, <2>4, <2>5 DEF ReachedInv
  <1>6. ASSUME UNCHANGED <<call, at, sq, running, bufSize, info, kdev, params>>
        PROVE  ReachedInv'
    <2>1. /\ Queued' = Queued /\ Settled' = Settled /\ setParams' = setParams /\ Bufs' = Bufs
          /\ validate(cfg, call.size)' = validate(cfg, call.size)
      BY Zenon, <1>6, SameConfig DEF Queued
    <2> QED
      BY Zenon, <1>1, <1>6, <2>1 DEF ReachedInv
  <1> QED
    BY Zenon, <1>2, <1>3, <1>4, <1>5, <1>6, StepKinds, RunningFrame, UsersFrame, StutterFrame
=============================================================================
