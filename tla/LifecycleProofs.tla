-------------------------- MODULE LifecycleProofs --------------------------
(***************************************************************************)
(* Theorems about Lifecycle, for every set of calls of New, device         *)
(* numbers and callers of Close.  The inductive invariant is LifeInv; the  *)
(* part of it that holds whatever fails is kept by the lemmas of module    *)
(* LifecycleSteps.                                                         *)
(***************************************************************************)
EXTENDS LifecycleSteps

-----------------------------------------------------------------------------
(***************************************************************************)
(* The arithmetic: for every size and configuration that New accepts, and  *)
(* every buffer size ADD_DEV may answer with, each request that respects   *)
(* the parameters sent with SET_PARAMS is one the worker serves.           *)
(***************************************************************************)

(* A count of sectors that fits in b bytes, as setParams computes it, is   *)
(* at most b bytes long.                                                   *)
LEMMA SectorsFit ==
    ASSUME NEW b \in Nat, NEW n \in Nat, n <= b \div SectorSize
    PROVE  n * SectorSize <= b
BY SMT DEF SectorSize

(* The limits setParams sends leave the byte count within an int32.        *)
LEMMA CountsFit ==
    ASSUME NEW n \in Nat, n * SectorSize <= maxMaxIOSize \/ n <= maxSect
    PROVE  n <= MaxInt32 \div SectorSize
BY SMT DEF SectorSize, maxMaxIOSize, maxSect, MaxInt32

(* What handleIO serves covers what setParams advertises: a read or write  *)
(* fits the tag's buffer (worker.go:148, :162), every request lies inside  *)
(* the backend, and the byte count survives its conversion to int32.       *)
THEOREM AdvertisedIsServed ==
    ASSUME NEW opts, NEW size \in Nat,
           NEW maxIOBufBytes \in Nat, maxIOBufBytes <= maxMaxIOSize,
           NEW caps \in SUBSET {"discard", "zeroes"},
           NEW op \in {"read", "write", "discard", "zeroes"},
           NEW start \in Nat, NEW nr \in Nat,
           Config(opts).maxIOSize \in Nat,
           validate(Config(opts), size),
           MayIssue(Params(Config(opts), size,
                           BufSize(Config(opts), maxIOBufBytes) \div SectorSize,
                           caps), op, start, nr)
    PROVE  Served(size, BufSize(Config(opts), maxIOBufBytes), op, start, nr)
<1> DEFINE buf == BufSize(Config(opts), maxIOBufBytes)
           limit == IF op \in {"read", "write"} THEN buf \div SectorSize
                    ELSE IF op \in caps THEN maxSect ELSE 0
<1>1. buf \in Nat /\ buf <= maxMaxIOSize
  <2>1. Config(opts).maxIOSize <= maxMaxIOSize
    BY Zenon DEF validate
  <2> QED
    BY Zenon, <2>1 DEF BufSize
<1>2. start + nr <= size \div SectorSize /\ nr <= limit
  BY SMT DEF MayIssue, Params
<1> HIDE DEF buf
<1>3. Offset(start) + Length(nr) <= size
  <2>1. (start + nr) * SectorSize <= size
    BY SMT, <1>2, SectorsFit
  <2> QED
    BY SMT, <2>1 DEF Offset, Length, SectorSize
<1>4. CASE op \in {"read", "write"}
  <2>1. nr <= buf \div SectorSize
    BY SMT, <1>2, <1>4
  <2>2. nr * SectorSize <= buf
    BY Zenon, <1>1, <2>1, SectorsFit
  <2>3. nr <= MaxInt32 \div SectorSize
    <3>1. nr * SectorSize <= maxMaxIOSize
      BY SMT, <1>1, <2>2 DEF maxMaxIOSize, SectorSize
    <3> QED
      BY Zenon, <3>1, CountsFit
  <2> QED
    BY SMT, <1>3, <2>2, <2>3 DEF Served, Length, buf
<1>5. CASE op \notin {"read", "write"}
  <2>1. nr <= maxSect
    BY SMT, <1>2, <1>5 DEF maxSect
  <2>2. nr <= MaxInt32 \div SectorSize
    BY Zenon, <2>1, CountsFit
  <2> QED
    BY SMT, <1>3, <1>5, <2>2 DEF Served
<1> QED
  BY <1>4, <1>5

(* The powers of two that Powers and Len32 look at are positive, and one   *)
(* between two consecutive ones is the lower of them.                      *)
LEMMA PowersOfTwo ==
    /\ \A k \in 0 .. 30 : 2^k \in Int /\ 2^k > 0
    /\ \A k \in 0 .. 30 : \A n \in 1 .. 30 : 2^k < 2^n /\ 2^k >= 2^(n - 1) => 2^(n - 1) = 2^k
BY SMT

(* bits.Len32, for what New applies it to: the CHOOSE has something to     *)
(* choose.                                                                 *)
LEMMA Len32Facts ==
    ASSUME NEW v \in Nat, v <= maxMaxIOSize
    PROVE  /\ Len32(v) \in 0 .. 30 /\ v < 2^Len32(v)
           /\ Len32(v) = 0 \/ v >= 2^(Len32(v) - 1)
<1>1. \E n \in 0 .. 30 : v < 2^n /\ (n = 0 \/ v >= 2^(n - 1))
  BY SMT DEF maxMaxIOSize
<1> QED
  BY <1>1, Zenon DEF Len32

(* worker.init: the ring has an SQE for every tag.                         *)
LEMMA RingHoldsDepth ==
    ASSUME NEW depth \in Nat, 1 <= depth, depth <= maxQueueDepth
    PROVE  depth <= roundUp2(depth)
<1>1. CASE depth <= 1
  BY <1>1, SMT DEF roundUp2
<1>2. CASE ~(depth <= 1)
  <2>1. depth - 1 \in Nat /\ depth - 1 <= maxMaxIOSize
    BY <1>2, SMT DEF maxQueueDepth, maxMaxIOSize
  <2>2. Len32(depth - 1) \in 0 .. 30 /\ depth - 1 < 2^Len32(depth - 1)
    BY <2>1, Len32Facts
  <2>3. roundUp2(depth) = 2^Len32(depth - 1)
    BY <1>2, Zenon DEF roundUp2
  <2> DEFINE l == Len32(depth - 1)
  <2> HIDE DEF l
  <2>4. l \in 0 .. 30 /\ depth - 1 < 2^l
    BY <2>2 DEF l
  <2>5. 2^l \in Int
    BY <2>4, PowersOfTwo, Zenon
  <2>6. depth <= 2^l
    BY <2>4, <2>5, SMT
  <2> QED
    BY <2>3, <2>6 DEF l
<1> QED
  BY <1>1, <1>2

(* setParams: the shift of the logical block size gives it back.           *)
LEMMA ShiftIsBlockSize ==
    ASSUME NEW b \in Nat, NEW m \in Nat, b \in Powers, m # 0, m % b = 0, m <= maxMaxIOSize
    PROVE  2^(Len32(b) - 1) = b
<1>1. PICK k \in 0 .. 30 : b = 2^k
  BY DEF Powers
<1>2. b > 0
  BY <1>1, PowersOfTwo, Zenon
<1>3. b <= m
  <2>1. m < b => m % b = m
    BY <1>2, SMT
  <2> QED
    BY <1>2, <2>1, SMT
<1>4. b <= maxMaxIOSize
  BY <1>3, SMT DEF maxMaxIOSize
<1>5. Len32(b) \in 0 .. 30 /\ b < 2^Len32(b) /\ (Len32(b) = 0 \/ b >= 2^(Len32(b) - 1))
  BY <1>4, Len32Facts
<1> DEFINE l == Len32(b)
<1> HIDE DEF l
<1>6. l \in 0 .. 30 /\ 2^k < 2^l /\ (l = 0 \/ 2^k >= 2^(l - 1))
  BY <1>1, <1>5 DEF l
<1>7. l # 0
  <2>1. 2^k \in Int /\ 2^k > 0
    BY PowersOfTwo, Zenon
  <2>2. l = 0 => 2^k < 2^0
    BY <1>6, Zenon
  <2> QED
    BY <2>1, <2>2, SMT
<1>8. l \in 1 .. 30
  BY <1>6, <1>7, SMT
<1>9. 2^(l - 1) = 2^k
  BY <1>6, <1>7, <1>8, PowersOfTwo, Zenon
<1> QED
  BY <1>1, <1>9 DEF l

-----------------------------------------------------------------------------
(***************************************************************************)
(* As long as the control ring's system calls do not fail.                 *)
(***************************************************************************)

(* ctrlOp, step by step.                                                   *)
Encodings ==
    /\ Encoding("add") = "ioctl" /\ Encoding("addLegacy") = "legacy"
    /\ at \in {"params", "start", "stop", "del"} => Encoding(at) = Encoding("del")
    /\ Encoding("del") = IF useIoctl THEN "ioctl" ELSE "legacy"

(* addDev fixes its encodings; everything after it uses the one it found.  *)
LEMMA EncodingsNow == Encodings
  BY DEF Encodings, Encoding

(* ... in the next state as well.                                          *)
LEMMA EncodingsNext == Encodings'
  BY EncodingsNow, PTL

(* StateOfOwned, step by step.                                             *)
OwnedStates ==
    /\ at \in {"add", "addLegacy", "char"} => StateOfOwned = {"added"}
    /\ at = "params" => StateOfOwned = IF Succeeded THEN {"params"} ELSE {"added"}
    /\ at \in {"init", "descs", "ready"} => StateOfOwned = {"params"}
    /\ at = "start" => StateOfOwned = IF Succeeded THEN {"live"} ELSE {"params"}
    /\ at = "live" => StateOfOwned = {"live"}
    /\ at \in {"cancel", "join", "release"}
           => StateOfOwned = IF once = "new" THEN {"added", "params"} ELSE {"live"}
    /\ at = "stop" => StateOfOwned = IF once = "new" THEN {"added", "params"} ELSE {"live", "dead"}
    /\ at = "del" => StateOfOwned = IF Succeeded THEN {"gone"}
                                    ELSE IF once = "new" THEN {"added", "params"}
                                    ELSE {"live", "dead"}
    /\ at \in {"ctrlclose", "failed", "closed"}
           => StateOfOwned = IF ~delErr THEN {"gone"}
                             ELSE IF once = "new" THEN {"added", "params"}
                             ELSE {"live", "dead"}

(* How far the kernel's device has got at each step.                       *)
LEMMA OwnedStatesNow == OwnedStates
  BY DEF OwnedStates, StateOfOwned

(* ... in the next state as well.                                          *)
LEMMA OwnedStatesNext == OwnedStates'
  BY OwnedStatesNow, PTL

(* The command of a step is the same as long as the step is.               *)
LEMMA SameCommand ==
    ASSUME UNCHANGED <<at, id, useIoctl>>
    PROVE  /\ Command(at)' = Command(at) /\ Op(at)' = Op(at)
           /\ Encoding(at)' = Encoding(at)
           /\ \A ok : Answer(ok)' = Answer(ok)
  <1>1. Encoding(at)' = Encoding(at)
    BY DEF Encoding
  <1>2. Op(at)' = Op(at)
    BY DEF Op
  <1>3. Command(at)' = Command(at)
    BY <1>1, <1>2 DEF Command
  <1> QED
    BY <1>1, <1>2, <1>3 DEF Answer

(* Nobody else touches the control ring or what its command is made of.    *)
LEMMA Undisturbed ==
    ASSUME CommandInv, UNCHANGED <<phase, sq, unflushed, want, got, running, ccq, id, useIoctl>>,
           at' = at \/ phase = "issue"
    PROVE  CommandInv'
  <1>1. CASE phase = "issue"
    BY <1>1 DEF CommandInv
  <1>2. CASE at' = at
    <2>1. Command(at)' = Command(at) /\ \A ok : Answer(ok)' = Answer(ok)
      BY <1>2, SameCommand
    <2>2. Executing' = Executing
      BY <2>1 DEF Executing
    <2> QED
      BY <2>1, <2>2 DEF CommandInv
  <1> QED
    BY <1>1, <1>2

(* ctrlCommand: one command, in the ring, in the kernel, or answered.      *)
LEMMA CommandAlone ==
    ASSUME TypeOK, HandleInv, CommandInv, ~SubmitFails, ~WaitFails, Command1
    PROVE  CommandInv'
  <1>1. at \in CtrlSteps /\ Command(at) \in Commands
    BY Zenon, CommandFrame, CommandType DEF TypeOK, HandleInv
  <1>2. CASE IssueCommand
    <2>1. /\ phase = "issue" /\ sq = <<>> /\ unflushed = 0 /\ running = {} /\ ccq = <<>>
      BY <1>2 DEF IssueCommand, CommandInv
    <2>2. SQEntries \in Nat /\ SQEntries > 0 /\ Len(sq) = 0 /\ sq \in Seq(Commands)
      BY <2>1, LifecycleAssumption
    <2>3. ~SQFull
      BY <2>1, <2>2 DEF SQFull
    <2>4. /\ UNCHANGED <<at, id, useIoctl, ccq, running>> /\ phase' = "submit"
          /\ sq' = Fill(Command(at))
          /\ unflushed' = 1 + (IF unflushed >= SQEntries THEN Len(sq) ELSE unflushed)
      BY <1>2, <2>3 DEF IssueCommand, PushSQE
    <2>5. unflushed' = 1
      BY <2>1, <2>2, <2>4
    <2>6. Fill(Command(at)) = Append(sq, Command(at))
      BY Zenon, <1>1, <2>2, FillFacts
    <2>7. sq' = <<Command(at)>>
      BY <2>1, <2>4, <2>6
    <2>8. Command(at)' = Command(at)
      BY <2>4, SameCommand
    <2> QED
      BY <2>1, <2>4, <2>5, <2>7, <2>8 DEF CommandInv
  <1>3. CASE SubmitCommand
    <2>1. phase = "submit" /\ sq = <<Command(at)>> /\ unflushed = 1 /\ running = {} /\ ccq = <<>>
      BY <1>3 DEF SubmitCommand, CommandInv
    <2>2. /\ UNCHANGED <<at, id, useIoctl, ccq, running, sq>> /\ phase' = "enter"
          /\ want' = 1 /\ got' = 0 /\ unflushed' = 0
      BY <1>3, <2>1 DEF SubmitCommand, FlushSQ
    <2>3. Command(at)' = Command(at)
      BY <2>2, SameCommand
    <2> QED
      BY <2>1, <2>2, <2>3 DEF CommandInv
  <1>4. CASE KTake
    <2>1. phase = "enter" /\ got < want /\ sq # <<>>
      BY <1>4 DEF KTake, ConsumeSQE
    <2>2. /\ sq = <<Command(at)>> /\ unflushed = 0 /\ want = 1 /\ got = 0
          /\ running = {} /\ ccq = <<>>
      BY <2>1 DEF CommandInv
    <2>3. /\ UNCHANGED <<at, id, useIoctl, ccq, phase, unflushed, want>>
          /\ sq' = Tail(sq) /\ got' = 1 /\ running' = {Head(sq)}
      BY <1>4, <2>2 DEF KTake, ConsumeSQE
    <2>4. Tail(sq) = <<>> /\ Head(sq) = Command(at)
      BY <2>2
    <2>5. Command(at)' = Command(at)
      BY <2>3, SameCommand
    <2>6. Executing'
      BY <2>2, <2>3, <2>4, <2>5 DEF Executing
    <2> QED
      BY <2>1, <2>2, <2>3, <2>4, <2>6 DEF CommandInv
  <1>5. CASE Submitted
    <2>1. phase = "enter" /\ got = want
      BY <1>5 DEF Submitted
    <2>2. sq = <<>> /\ unflushed = 0 /\ Executing
      BY <2>1 DEF CommandInv
    <2>3. UNCHANGED <<at, id, useIoctl, ccq, running, sq, unflushed>> /\ phase' = "wait"
      BY <1>5 DEF Submitted, EnterReturns
    <2>4. Executing'
      BY <2>2, <2>3, SameCommand DEF Executing
    <2> QED
      BY <2>2, <2>3, <2>4 DEF CommandInv
  <1>6. CASE TakeAnswer
    <2>1. phase = "wait" /\ ccq # <<>>
      BY <1>6 DEF TakeAnswer
    <2>2. sq = <<>> /\ unflushed = 0 /\ Executing
      BY <2>1 DEF CommandInv
    <2>3. running = {} /\ \E ok \in BOOLEAN : ccq = <<Answer(ok)>>
      BY <2>1, <2>2 DEF Executing
    <2>4. Tail(ccq) = <<>>
      BY <2>3
    <2>5. UNCHANGED <<running, sq, unflushed>> /\ ccq' = Tail(ccq) /\ phase' = "issue"
      BY <1>6 DEF TakeAnswer, Returns, ring, sqVars
    <2> QED
      BY <2>2, <2>3, <2>4, <2>5 DEF CommandInv
  <1> QED
    BY Zenon, <1>2, <1>3, <1>4, <1>5, <1>6 DEF Command1, SubmitError, WaitError

(* The kernel answers the command of the step, which is the only one.      *)
LEMMA ExecutedAlone ==
    ASSUME TypeOK, CommandInv, NEW c \in running, NEW ok \in BOOLEAN, KAnswer(c, ok)
    PROVE  /\ CommandInv' /\ c = Command(at) /\ ccq = <<>> /\ phase # "issue"
           /\ ccq' = <<Answer(ok)>> /\ UNCHANGED <<at, id, useIoctl, once, delErr>>
  <1>1. /\ running' = running \ {c} /\ ccq' = Append(ccq, [cmd |-> c, ok |-> ok])
        /\ UNCHANGED <<at, id, useIoctl, phase, sq, unflushed, want, got, once, delErr>>
    BY DEF KAnswer, ring, sqVars, callVars
  <1>2. running # {} /\ Executing /\ phase \in {"enter", "wait"}
    BY DEF CommandInv
  <1>3. running = {Command(at)} /\ ccq = <<>>
    BY <1>2 DEF Executing
  <1>4. c = Command(at) /\ running' = {}
    BY <1>1, <1>3
  <1>5. ccq' = <<Answer(ok)>>
    BY <1>1, <1>3, <1>4 DEF Answer
  <1>6. Executing'
    BY Zenon, <1>1, <1>4, <1>5, SameCommand DEF Executing
  <1> QED
    BY <1>1, <1>2, <1>3, <1>4, <1>5, <1>6 DEF CommandInv

(* What the device numbers say about the device of New.                    *)
LEMMA OwnedFacts ==
    ASSUME TypeOK, CloseInv, OwnedInv
    PROVE  /\ \A d \in DevIds : d # Owned => kdev[d] = "none"
           /\ Owned # Unset => kdev[Owned] \in StateOfOwned
           /\ at \in Before => id = Unset
           /\ at \in {"char", "params", "init", "descs", "ready", "start", "live", "del"} => id # Unset
           /\ once # "new" => id # Unset
           /\ Op(at) = "add" /\ Succeeded => Encoding(at) \in KernelTakes /\ info.id # Unset
           /\ id # Unset => Encoding("del") \in KernelTakes
           /\ at \notin {"ctrlclose", "failed", "closed"} => ~delErr
           /\ Op(at) = "add" <=> at \in {"add", "addLegacy"}
           /\ at \notin {"cancel", "join", "release", "stop", "del", "ctrlclose", "closed"}
                  => once = "new"
           /\ id \in DevIds \cup {Unset} /\ Unset \notin DevIds
  <1>1. Op(at) = "add" <=> at \in {"add", "addLegacy"}
    BY DEF Op
  <1>2. Unset \notin DevIds
    BY LifecycleAssumption, SMT DEF Unset
  <1>3. at \notin {"cancel", "join", "release", "stop", "del", "ctrlclose", "closed"}
            => once = "new"
    BY DEF CloseInv, TypeOK
  <1> QED
    BY <1>1, <1>2, <1>3 DEF OwnedInv, TypeOK

(* Nothing the device of New is told by changes.                           *)
LEMMA OwnedUndisturbed ==
    ASSUME OwnedInv, UNCHANGED <<at, id, useIoctl, info, kdev, once, delErr>>,
           Succeeded' = Succeeded
    PROVE  OwnedInv'
  <1>1. Op(at)' = Op(at) /\ Encoding(at)' = Encoding(at) /\ Encoding("del")' = Encoding("del")
    BY SameCommand, EncodingsNow, EncodingsNext DEF Encodings
  <1>2. Owned' = Owned
    BY <1>1 DEF Owned
  <1>3. StateOfOwned' = StateOfOwned
    BY DEF StateOfOwned
  <1> QED
    BY <1>1, <1>2, <1>3 DEF OwnedInv

(* New's own steps and shutdown's take the device over as it is.           *)
LEMMA OwnedMoves ==
    ASSUME TypeOK, HandleInv, CloseInv, OwnedInv, CommandInv, Opening \/ Closing
    PROVE  OwnedInv'
  <1>1. /\ UNCHANGED <<id, useIoctl, info, kdev, delErr, ccq, phase>>
        /\ Encoding("del")' = Encoding("del")
    BY OpeningFrame, ClosingFrame, EncodingsNow, EncodingsNext DEF Encodings
  <1>2. CASE at' = at /\ once' = once
    <2>1. Succeeded' = Succeeded
      BY Zenon, <1>1, <1>2, SameCommand DEF Succeeded
    <2> QED
      BY <1>1, <1>2, <2>1, OwnedUndisturbed
  <1>3. CASE at' # at
    <2>1. \/ Opening /\ once' = once /\ at \notin CtrlSteps
          \/ Closing /\ at \in {"live", "cancel", "join", "release", "ctrlclose"}
      BY <1>3, ClosingHandles, OpeningFrame DEF CtrlSteps
    <2>2. phase = "issue"
      BY <2>1 DEF HandleInv, CtrlSteps
    <2>3. ccq = <<>>
      BY <2>2 DEF CommandInv
    <2>4. ~Succeeded /\ ~Succeeded'
      BY <1>1, <2>3 DEF Succeeded
    <2>5. Owned = id /\ Owned' = id
      BY <1>1, <2>4 DEF Owned
    <2>6. /\ \A d \in DevIds : d # id => kdev[d] = "none"
          /\ id # Unset => kdev[id] \in StateOfOwned
      BY <2>5, OwnedFacts
    <2>7. CASE Opening
      <3>1. once = "new" /\ once' = "new" /\ ~delErr
        BY Zenon, <2>7, OpeningFrame, OwnedFacts
      <3>2. id # Unset => kdev[id] \in StateOfOwned'
        BY Zenon, <1>3, <2>4, <2>6, <2>7, <3>1, OpeningMoves, OwnedFacts, OwnedStatesNow, OwnedStatesNext
        DEF OwnedStates, Before
      <3>3. /\ at' \in Before => id = Unset
            /\ at' \in {"char", "params", "init", "descs", "ready", "start", "live", "del"}
                  => id # Unset
        BY <2>7, OpeningMoves, OwnedFacts DEF Before
      <3> QED
        BY Zenon, <1>1, <2>4, <2>5, <2>6, <3>1, <3>2, <3>3, OwnedFacts DEF OwnedInv
    <2>8. CASE Closing
      <3>1. /\ at \in {"live", "cancel", "join", "release", "ctrlclose"}
            /\ at' \in {"cancel", "join", "release", "stop", "failed", "closed"}
            /\ at' \in {"failed", "closed"} <=> at = "ctrlclose"
            /\ at \in {"live", "ctrlclose"} \/ once' = once
        BY <1>3, <2>8, ClosingHandles
      <3>2. /\ at = "live" => at' = "cancel" /\ once' # "new"
            /\ at = "ctrlclose" => (once' = "new" <=> once = "new")
            /\ at \in {"cancel", "join"} => at' \in {"join", "release"}
        BY Zenon, <1>3, <2>8, <3>1 DEF Closing, CancelWorkers, Join, Release, CloseControl, CallClose,
                                CloseReturns
      <3>3. id # Unset => kdev[id] \in StateOfOwned'
        BY ZenonT(60), <1>1, <1>3, <2>4, <2>6, <3>1, <3>2, OwnedFacts, OwnedStatesNow, OwnedStatesNext
        DEF OwnedStates
      <3>4. once' # "new" => id # Unset
        BY Zenon, <3>1, <3>2, OwnedFacts
      <3> QED
        BY Zenon, <1>1, <2>4, <2>5, <2>6, <3>1, <3>3, <3>4, OwnedFacts DEF OwnedInv, Before
    <2> QED
      BY <2>7, <2>8
  <1>4. CASE at' = at /\ once' # once
    <2>1. FALSE
      BY <1>4, OpeningFrame DEF Closing, CancelWorkers, Join, Release, CloseControl, CallClose,
                                CloseReturns, callVars
    <2> QED
      BY <2>1
  <1> QED
    BY <1>2, <1>3, <1>4

(* ctrlCommand returns what the kernel has done.                           *)
LEMMA OwnedAnswer ==
    ASSUME TypeOK, HandleInv, CloseInv, OwnedInv, CommandInv, TakeAnswer
    PROVE  OwnedInv'
  <1>1. phase = "wait" /\ ccq # <<>> /\ Returns(Head(ccq).ok) /\ ccq' = Tail(ccq)
    BY DEF TakeAnswer
  <1>2. Executing
    BY <1>1 DEF CommandInv
  <1>3. PICK ok \in BOOLEAN : ccq = <<Answer(ok)>>
    BY <1>1, <1>2 DEF Executing
  <1>4. Head(ccq).ok = ok /\ ccq' = <<>>
    BY <1>1, <1>3 DEF Answer
  <1>5. (Succeeded <=> ok) /\ ~Succeeded'
    <2>1. Answer(ok) = Answer(TRUE) <=> ok
      BY Zenon, <1>3 DEF Answer
    <2> QED
      BY Zenon, <1>3, <1>4, <2>1 DEF Succeeded
  <1>6. /\ at' = IF ok THEN AfterSuccess(at) ELSE AfterError(at)
        /\ ok /\ at \in {"add", "addLegacy"} => id' = info.id /\ useIoctl' = (at = "add")
        /\ ~(ok /\ at \in {"add", "addLegacy"}) => UNCHANGED <<id, useIoctl>>
        /\ delErr' = IF at = "del" THEN ~ok ELSE delErr
    BY Zenon, <1>1, <1>4, OwnedFacts DEF Returns
  <1>7. at \in CtrlSteps /\ UNCHANGED <<info, kdev, once>>
    BY Zenon, <1>1 DEF HandleInv, TakeAnswer, CtrlFrame, kernVars, callVars
  <1>8. Owned' = id'
    BY <1>5 DEF Owned
  <1>9. id' = Owned
    BY <1>5, <1>6, OwnedFacts DEF Owned
  <1>10. CASE at \in {"add", "addLegacy"} /\ ok
    <2>1. at' = "char" /\ id' # Unset /\ once = "new" /\ ~delErr'
      BY Zenon, <1>5, <1>6, <1>7, <1>10, Successors, OwnedFacts
    <2>2. Encoding("del")' \in KernelTakes
      <3>1. Encoding(at) \in KernelTakes
        BY Zenon, <1>5, <1>10, OwnedFacts
      <3>2. Encoding("del")' = IF useIoctl' THEN "ioctl" ELSE "legacy"
        BY EncodingsNext DEF Encodings
      <3>3. useIoctl' = (at = "add")
        BY <1>6, <1>10
      <3>4. Encoding("del")' = Encoding(at)
        BY Zenon, <1>10, <3>2, <3>3, EncodingsNow DEF Encodings
      <3> QED
        BY <3>1, <3>4
    <2>3. StateOfOwned' = {"added"} /\ StateOfOwned = {"added"}
      BY <1>10, <2>1, OwnedStatesNow, OwnedStatesNext DEF OwnedStates
    <2> QED
      BY Zenon, <1>5, <1>7, <1>8, <1>9, <2>1, <2>2, <2>3, OwnedFacts DEF OwnedInv, Before
  <1>11. CASE ~(at \in {"add", "addLegacy"} /\ ok)
    <2>1. UNCHANGED <<id, useIoctl>> /\ Encoding("del")' = Encoding("del")
      BY <1>6, <1>11, EncodingsNow, EncodingsNext DEF Encodings
    <2>2. /\ at \in {"add", "addLegacy"} => at' \in {"addLegacy", "cancel"} /\ id = Unset
          /\ at = "params" => at' \in {"init", "cancel"} /\ (at' = "init" <=> ok) /\ once = "new"
          /\ at = "start" => at' \in {"live", "cancel"} /\ (at' = "live" <=> ok) /\ once = "new"
          /\ at = "stop" => at' \in {"del", "ctrlclose"} /\ (at' = "del" <=> id # Unset)
          /\ at = "del" => at' = "ctrlclose"
      BY Zenon, <1>6, <1>7, <1>11, Successors, OwnedFacts DEF Before
    <2>3. id # Unset => kdev[id] \in StateOfOwned'
      <3>1. id # Unset => kdev[id] \in StateOfOwned
        BY <1>8, <1>9, <2>1, OwnedFacts
      <3>2. CASE at \in {"params", "start"}
        BY <1>5, <1>7, <2>2, <3>1, <3>2, OwnedStatesNow, OwnedStatesNext DEF OwnedStates
      <3>3. CASE at \in {"stop", "del"}
        BY Zenon, <1>5, <1>6, <1>7, <2>2, <3>1, <3>3, OwnedStatesNow, OwnedStatesNext DEF OwnedStates
      <3> QED
        BY <1>7, <2>2, <3>2, <3>3 DEF CtrlSteps
    <2>4. /\ at' \in Before => id = Unset
          /\ at' \in {"char", "params", "init", "descs", "ready", "start", "live", "del"}
                => id # Unset
          /\ at' \notin {"ctrlclose", "failed", "closed"} => ~delErr'
      BY Zenon, <1>6, <1>7, <2>2, OwnedFacts DEF CtrlSteps, Before
    <2> QED
      BY Zenon, <1>5, <1>7, <1>8, <1>9, <2>1, <2>3, <2>4, OwnedFacts DEF OwnedInv
  <1> QED
    BY <1>10, <1>11

(* The kernel executes the command of the step on the device of New.       *)
LEMMA OwnedExecuted ==
    ASSUME TypeOK, HandleInv, CloseInv, OwnedInv, CommandInv, Executed
    PROVE  OwnedInv' /\ CommandInv'
  <1>1. ASSUME NEW c \in running, NEW ok \in BOOLEAN, KAnswer(c, ok)
        PROVE  /\ CommandInv' /\ c = Command(at) /\ ~Succeeded /\ (Succeeded' <=> ok)
               /\ UNCHANGED <<at, id, useIoctl, once, delErr>> /\ Owned = id
               /\ Encoding("del")' = Encoding("del") /\ Encoding(at)' = Encoding(at)
               /\ Op(at)' = Op(at) /\ at \in CtrlSteps
    <2>1. /\ CommandInv' /\ c = Command(at) /\ ccq = <<>> /\ phase # "issue"
          /\ ccq' = <<Answer(ok)>> /\ UNCHANGED <<at, id, useIoctl, once, delErr>>
      BY <1>1, ExecutedAlone
    <2>2. ~Succeeded
      BY <2>1 DEF Succeeded
    <2>3. Answer(ok) = Answer(TRUE) <=> ok
      BY Zenon, <1>1 DEF Answer
    <2>4. Succeeded' <=> ok
      BY Zenon, <2>1, <2>3, SameCommand DEF Succeeded
    <2> QED
      BY <2>1, <2>2, <2>4, SameCommand, EncodingsNow, EncodingsNext
      DEF Encodings, Owned, HandleInv
  <1>2. ASSUME NEW c \in running, KRefuse(c) PROVE OwnedInv' /\ CommandInv'
    <2>1. KAnswer(c, FALSE) /\ UNCHANGED <<info, kdev>>
      BY Zenon, <1>2 DEF KRefuse
    <2>2. CommandInv' /\ ~Succeeded /\ ~Succeeded' /\ UNCHANGED <<at, id, useIoctl, once, delErr>>
      BY Zenon, <1>1, <2>1
    <2>3. Succeeded' = Succeeded
      BY Zenon, <2>2 DEF Succeeded
    <2> QED
      BY <2>1, <2>2, <2>3, OwnedUndisturbed
  <1>3. ASSUME NEW c \in running, NEW d \in DevIds, KAdd(c, d) PROVE OwnedInv' /\ CommandInv'
    <2>1. /\ KAnswer(c, TRUE) /\ c.op = "add" /\ c.enc \in KernelTakes /\ info'.id = d
          /\ kdev' = [kdev EXCEPT ![d] = "added"]
      <3>1. PICK buf : info' = [id |-> d, buf |-> buf]
        BY <1>3, Zenon DEF KAdd
      <3>2. info'.id = d
        BY <3>1
      <3>3. /\ KAnswer(c, TRUE) /\ c.op = "add" /\ c.enc \in KernelTakes
            /\ kdev' = [kdev EXCEPT ![d] = "added"]
        BY <1>3, Zenon DEF KAdd
      <3> QED
        BY Zenon, <3>2, <3>3
    <2>2. /\ CommandInv' /\ c = Command(at) /\ Succeeded'
          /\ UNCHANGED <<at, id, useIoctl, once, delErr>> /\ Owned = id
          /\ Encoding("del")' = Encoding("del") /\ Encoding(at)' = Encoding(at)
          /\ Op(at)' = Op(at) /\ at \in CtrlSteps
      BY Zenon, <1>1, <2>1
    <2>3. at \in {"add", "addLegacy"} /\ id = Unset /\ Encoding(at) \in KernelTakes /\ Op(at) = "add"
      BY Zenon, <2>1, <2>2, OwnedFacts, CommandType DEF TypeOK, Before
    <2>4. Owned' = d /\ d # Unset
      BY Zenon, <2>1, <2>2, <2>3, OwnedFacts DEF Owned
    <2>5. StateOfOwned' = {"added"}
      BY <2>2, <2>3, OwnedStatesNext DEF OwnedStates
    <2>6. \A e \in DevIds : kdev[e] = "none"
      BY <2>2, <2>3, OwnedFacts
    <2>7. kdev'[d] = "added" /\ \A e \in DevIds : e # d => kdev'[e] = "none"
      BY <2>1, <2>6 DEF TypeOK
    <2>8. Owned' \in DevIds /\ kdev'[Owned'] \in StateOfOwned'
          /\ \A e \in DevIds : e # Owned' => kdev'[e] = "none"
      BY <2>4, <2>5, <2>7
    <2>9. /\ at' \in Before /\ id' = Unset /\ once' = "new" /\ ~delErr'
          /\ Encoding(at)' \in KernelTakes /\ info'.id # Unset
      BY <2>1, <2>2, <2>3, <2>4, OwnedFacts DEF Before
    <2>10. at' \notin {"char", "params", "init", "descs", "ready", "start", "live", "del"}
      BY <2>2, <2>3
    <2> QED
      BY <2>2, <2>8, <2>9, <2>10 DEF OwnedInv
  <1>4. ASSUME NEW c \in running, KRun(c) PROVE OwnedInv' /\ CommandInv'
    <2>1. /\ KAnswer(c, TRUE) /\ c.op # "add" /\ c.id \in DevIds /\ UNCHANGED info
          /\ \E s : kdev' = [kdev EXCEPT ![c.id] = s]
      BY Zenon, <1>4 DEF KRun, Existing
    <2>2. /\ CommandInv' /\ c = Command(at) /\ Succeeded' /\ ~Succeeded
          /\ UNCHANGED <<at, id, useIoctl, once, delErr>> /\ Owned = id
          /\ Encoding("del")' = Encoding("del") /\ Encoding(at)' = Encoding(at)
          /\ Op(at)' = Op(at) /\ at \in CtrlSteps
      BY Zenon, <1>1, <2>1
    <2>3. /\ at \in {"params", "start", "stop", "del"} /\ id \in DevIds /\ c.op = at /\ c.id = id
          /\ Op(at) # "add"
      BY Zenon, <2>1, <2>2, OwnedFacts, CommandType DEF TypeOK, CtrlSteps, Op
    <2>4. Owned' = id
      BY <2>2, <2>3 DEF Owned
    <2>5. /\ at = "params" => kdev'[id] = "params"
          /\ at = "start" => kdev'[id] = "live"
          /\ at = "del" => kdev'[id] = "gone"
          /\ at = "stop" => kdev'[id] = IF kdev[id] = "live" THEN "dead" ELSE kdev[id]
      <3>1. PICK s : /\ kdev' = [kdev EXCEPT ![c.id] = s]
                     /\ c.op = "params" => s = "params"
                     /\ c.op = "start" => s = "live"
                     /\ c.op = "del" => s = "gone"
                     /\ c.op = "stop" => s = IF kdev[c.id] = "live" THEN "dead" ELSE kdev[c.id]
        BY <1>4, Zenon DEF KRun
      <3> QED
        BY <2>3, <3>1 DEF TypeOK
    <2>6. \A e \in DevIds : e # id => kdev'[e] = "none"
      BY Zenon, <2>1, <2>2, <2>3, OwnedFacts DEF TypeOK
    <2>7. kdev[id] \in StateOfOwned
      BY Zenon, <2>2, <2>3, OwnedFacts
    <2>8. kdev'[id] \in StateOfOwned'
      <3>1. CASE at \in {"params", "start", "del"}
        BY Zenon, <2>2, <2>5, <3>1, OwnedStatesNext DEF OwnedStates
      <3>2. CASE at = "stop"
        <4>1. StateOfOwned' = StateOfOwned
              /\ StateOfOwned = IF once = "new" THEN {"added", "params"} ELSE {"live", "dead"}
          BY <2>2, <3>2, OwnedStatesNow, OwnedStatesNext DEF OwnedStates
        <4> QED
          BY <2>5, <2>7, <3>2, <4>1
      <3> QED
        BY <2>3, <3>1, <3>2
    <2> QED
      BY Zenon, <2>2, <2>3, <2>4, <2>6, <2>8, OwnedFacts DEF OwnedInv
  <1> QED
    BY <1>2, <1>3, <1>4 DEF Executed

(* Every step keeps the device of New the only one there is.               *)
LEMMA OwnedStep ==
    ASSUME TypeOK, HandleInv, CloseInv, OwnedInv, CommandInv, ~SubmitFails, ~WaitFails, [Next]_vars
    PROVE  OwnedInv' /\ CommandInv'
  <1>1. CASE Command1 /\ ~TakeAnswer
    <2>1. CommandInv'
      BY <1>1, CommandAlone
    <2>2. /\ UNCHANGED <<info, kdev, once>> /\ ccq' = ccq
      BY Zenon, <1>1, CommandFrame DEF HandleInv, Command1, IssueCommand, SubmitCommand, KTake, Submitted,
                                SubmitError, WaitError
    <2>3. ~(IssueCommand /\ SQFull)
      <3>1. IssueCommand => unflushed = 0
        BY DEF IssueCommand, CommandInv
      <3>2. SQEntries \in Nat /\ SQEntries > 0
        BY LifecycleAssumption
      <3> QED
        BY <3>1, <3>2 DEF SQFull
    <2>4. UNCHANGED <<at, id, useIoctl, delErr>>
      BY Zenon, <1>1, <2>3 DEF Command1, IssueCommand, SubmitCommand, KTake, Submitted, SubmitError,
                        WaitError
    <2>5. Succeeded' = Succeeded
      BY Zenon, <2>2, <2>4, SameCommand DEF Succeeded
    <2> QED
      BY <2>1, <2>2, <2>4, <2>5, OwnedUndisturbed
  <1>2. CASE TakeAnswer
    <2>1. Command1
      BY <1>2 DEF Command1
    <2> QED
      BY <1>2, <2>1, OwnedAnswer, CommandAlone
  <1>3. CASE Opening \/ Closing
    <2>1. /\ UNCHANGED <<phase, sq, unflushed, want, got, running, ccq, id, useIoctl>>
          /\ at' = at \/ at \notin CtrlSteps
      BY <1>3, OpeningFrame, ClosingFrame, ClosingHandles DEF CtrlSteps
    <2>2. at' = at \/ phase = "issue"
      BY <2>1 DEF HandleInv
    <2> QED
      BY <1>3, <2>1, <2>2, OwnedMoves, Undisturbed
  <1>4. ASSUME UNCHANGED <<at, phase, sq, unflushed, want, got, running, ccq, id, useIoctl, info,
                           kdev, once, delErr>>
        PROVE  OwnedInv' /\ CommandInv'
    <2>1. Succeeded' = Succeeded
      BY Zenon, <1>4, SameCommand DEF Succeeded
    <2> QED
      BY <1>4, <2>1, OwnedUndisturbed, Undisturbed
  <1> QED
    BY Zenon, <1>1, <1>2, <1>3, <1>4, StepKinds, OwnedExecuted, RunningFrame, UsersFrame, StutterFrame

-----------------------------------------------------------------------------
(***************************************************************************)
(* The theorems.                                                           *)
(***************************************************************************)

(* New is called with nothing open and nothing in the kernel.              *)
LEMMA Initially ==
    ASSUME Init
    PROVE  LifeInv
  <1> USE DEF Init
  <1>1. TypeOK
    <2>1. /\ sq = <<>> /\ unflushed = 0 /\ want = 0 /\ got = 0
      BY DEF FifoInit
    <2>2. sq \in Seq(Commands) /\ unflushed \in 0 .. Len(sq) /\ want \in Nat /\ got \in 0 .. want
      BY <2>1
    <2>3. info \in [id : DevIds \cup {Unset}, buf : Nat] /\ tries \in 0 .. MaxTries
      BY LifecycleAssumption
    <2>4. ccq \in Seq([cmd : Commands, ok : BOOLEAN])
      OBVIOUS
    <2>5. /\ kdev \in [DevIds -> {"none", "added", "params", "live", "dead", "gone"}]
          /\ caller \in [Closers -> {"out", "in", "back"}]
      OBVIOUS
    <2> QED
      BY Zenon, <2>2, <2>3, <2>4, <2>5 DEF TypeOK
  <1>2. HandleInv
    BY DEF HandleInv, CtrlSteps
  <1>3. CloseInv
    BY DEF CloseInv
  <1>4. ReachedInv
    <2>1. sq = <<>>
      BY DEF FifoInit
    <2>2. Queued = {}
      BY <2>1 DEF Queued
    <2>3. 0 \in Bufs
      BY DEF Bufs
    <2> QED
      BY <2>2, <2>3 DEF ReachedInv, Before
  <1>5. CommandInv
    BY DEF CommandInv, FifoInit
  <1>6. OwnedInv
    <2>1. ~Succeeded
      BY DEF Succeeded
    <2>2. Owned = id
      BY <2>1 DEF Owned
    <2> QED
      BY <2>1, <2>2 DEF OwnedInv, Before
  <1> QED
    BY <1>1, <1>2, <1>3, <1>4, <1>5, <1>6 DEF LifeInv

(* LifeInv is inductive: what New and shutdown hold, what is in the        *)
(* control ring and what the kernel keeps agree with the step they are at, *)
(* on every error path of them and with any number of callers of Close.    *)
THEOREM LifeInvHolds == Spec => []LifeInv
  <1>1. ASSUME LifeInv, [Next]_vars
        PROVE  LifeInv'
    <2>1. TypeOK /\ HandleInv /\ CloseInv /\ ReachedInv
      BY <1>1 DEF LifeInv
    <2>2. TypeOK' /\ HandleInv' /\ CloseInv' /\ ReachedInv'
      BY <1>1, <2>1, Types, Handles, Reached
    <2>3. ASSUME ~SubmitFails, ~WaitFails
          PROVE  CommandInv' /\ OwnedInv'
      BY <1>1, <2>1, <2>3, OwnedStep DEF LifeInv
    <2> QED
      BY <2>2, <2>3 DEF LifeInv
  <1> QED
    BY <1>1, Initially, PTL DEF Spec

(* Whatever fails in New, and whenever Close is called, the process keeps  *)
(* no fd, no mapping and no goroutine of a device once New has failed or   *)
(* shutdown has returned (NoHandleLeaks).                                  *)
THEOREM NothingLeaks == Spec => []NoHandleLeaks
  <1>1. LifeInv => NoHandleLeaks
    BY HoldingNow DEF LifeInv, HandleInv, Holding, NoHandleLeaks
  <1> QED
    BY <1>1, LifeInvHolds, PTL

(* No caller returns from Close before the one inside closeOnce.Do has     *)
(* released everything (CloseMeansReleased).                               *)
THEOREM CloseReleases == Spec => []CloseMeansReleased
  <1>1. LifeInv => CloseMeansReleased
    BY HoldingNow DEF LifeInv, HandleInv, CloseInv, Holding, CloseMeansReleased
  <1> QED
    BY <1>1, LifeInvHolds, PTL

(* shutdown's order: DEL_DEV is executed only with the worker gone and its *)
(* ring, the descriptors and the character device released, even when an   *)
(* earlier command was left in the control ring (DeletedLast).             *)
THEOREM DeletesLast == Spec => []DeletedLast
  <1>1. ASSUME LifeInv PROVE DeletedLast
    <2> SUFFICES ASSUME NEW c \in running, c.op = "del"
                 PROVE  worker # "running" /\ \A h \in handles : h[1] = "ctrl"
      BY DEF DeletedLast
    <2>1. at \in {"del", "ctrlclose", "failed", "closed"}
      BY <1>1 DEF LifeInv, ReachedInv, Queued
    <2>2. handles \subseteq CtrlHandles /\ worker # "running"
      BY <1>1, <2>1, HoldingNow DEF LifeInv, HandleInv, Holding
    <2> QED
      BY <2>2, HandleSets
  <1> QED
    BY <1>1, LifeInvHolds, PTL

(* For every option New accepts, every size of device and every buffer     *)
(* size the kernel answers ADD_DEV with: what setParams told the kernel is *)
(* what handleIO serves, the shift it sent is the block size, and the      *)
(* worker's ring has a slot for every tag (ServesWhatItAdvertised).        *)
THEOREM AdvertisesWhatItServes == Spec => []ServesWhatItAdvertised
  <1>1. ASSUME LifeInv PROVE ServesWhatItAdvertised
    <2> SUFFICES ASSUME NEW d \in DevIds, kdev[d] \in {"params", "live"}
                 PROVE  /\ \A op \in DOMAIN params.limit : \A start, nr \in Sectors :
                              MayIssue(params, op, start, nr)
                                  => Served(call.size, bufSize, op, start, nr)
                        /\ cfg.queueDepth <= roundUp2(cfg.queueDepth)
                        /\ 2^params.bsShift = cfg.blockSize
      BY DEF ServesWhatItAdvertised
    <2>1. Settled /\ params = setParams /\ call \in Calls
      BY <1>1 DEF LifeInv, ReachedInv, TypeOK
    <2>2. /\ cfg.maxIOSize \in Nat /\ cfg.blockSize \in Nat /\ cfg.queueDepth \in Nat
          /\ call.size \in Nat /\ call.caps \subseteq {"discard", "zeroes"} /\ Bufs \subseteq Nat
      BY <2>1, ConfigType
    <2>3. validate(cfg, call.size)
      BY <2>1 DEF Settled
    <2>4. PICK b \in Bufs : bufSize = BufSize(cfg, b)
      BY <2>1 DEF Settled
    <2>5. b \in Nat /\ b <= maxMaxIOSize
      <3>1. cfg.maxIOSize <= maxMaxIOSize
        BY <2>3, Zenon DEF validate
      <3>2. ASSUME NEW m \in Nat PROVE (m \div 4096) * 4096 <= m
        BY SMT
      <3>3. b \in {0, cfg.maxIOSize} \/ b = (cfg.maxIOSize \div PageSize) * PageSize
        BY DEF Bufs
      <3>4. b <= cfg.maxIOSize
        BY <2>2, <3>2, <3>3 DEF PageSize
      <3> QED
        BY <2>2, <3>1, <3>4, SMT DEF maxMaxIOSize
    <2>6. ASSUME NEW op \in DOMAIN params.limit, NEW start \in Sectors, NEW nr \in Sectors,
                 MayIssue(params, op, start, nr)
          PROVE  Served(call.size, bufSize, op, start, nr)
      <3>1. op \in {"read", "write", "discard", "zeroes"}
        BY <2>1 DEF setParams, Params
      <3>2. start \in Nat /\ nr \in Nat
        BY LifecycleAssumption
      <3>3. MayIssue(Params(cfg, call.size, BufSize(cfg, b) \div SectorSize, call.caps),
                     op, start, nr)
        BY <2>1, <2>4, <2>6, Zenon DEF setParams
      <3>4. Served(call.size, BufSize(cfg, b), op, start, nr)
        <4>1. /\ Config(call.opts).maxIOSize \in Nat /\ validate(Config(call.opts), call.size)
              /\ MayIssue(Params(Config(call.opts), call.size,
                                 BufSize(Config(call.opts), b) \div SectorSize, call.caps),
                          op, start, nr)
          BY Zenon, <2>2, <2>3, <3>3 DEF cfg
        <4>2. call.size \in Nat /\ call.caps \in SUBSET {"discard", "zeroes"}
          BY <2>2
        <4>3. Served(call.size, BufSize(Config(call.opts), b), op, start, nr)
          BY ZenonT(60), <2>5, <3>1, <3>2, <4>1, <4>2, AdvertisedIsServed
        <4> QED
          BY Zenon, <4>3 DEF cfg
      <3> QED
        BY <2>4, <3>4
    <2>7. cfg.queueDepth <= roundUp2(cfg.queueDepth)
      BY <2>2, <2>3, RingHoldsDepth DEF validate
    <2>8. 2^params.bsShift = cfg.blockSize
      <3>1. params.bsShift = Len32(cfg.blockSize) - 1
        BY Zenon, <2>1 DEF setParams, Params
      <3>2. /\ cfg.blockSize \in Powers /\ cfg.maxIOSize # 0
            /\ cfg.maxIOSize % cfg.blockSize = 0 /\ cfg.maxIOSize <= maxMaxIOSize
        BY <2>3, Zenon DEF validate
      <3>3. 2^(Len32(cfg.blockSize) - 1) = cfg.blockSize
        BY <2>2, <3>2, ShiftIsBlockSize
      <3> QED
        BY <3>1, <3>3
    <2> QED
      BY <2>6, <2>7, <2>8
  <1> QED
    BY <1>1, LifeInvHolds, PTL

-----------------------------------------------------------------------------
(***************************************************************************)
(* What holds as long as io_uring_enter and epoll_wait do not fail on the  *)
(* control ring: then ctrlCommand never leaves a command behind.           *)
(***************************************************************************)

(* What the kernel executes is the command of the step.                    *)
LEMMA Executes ==
    ASSUME TypeOK, HandleInv, CommandInv, NEW c \in running
    PROVE  /\ c = Command(at) /\ at \in CtrlSteps
           /\ c.op = Op(at) /\ c.enc = Encoding(at)
           /\ c.id = IF Op(at) = "add" THEN Unset ELSE id
           /\ Op(at) = "params" <=> at = "params"
  <1>1. Executing /\ phase \in {"enter", "wait"}
    BY DEF CommandInv
  <1>2. c = Command(at) /\ at \in CtrlSteps
    BY <1>1 DEF Executing, HandleInv
  <1> QED
    BY Zenon, <1>2, CommandType DEF TypeOK

(* ctrlCommand takes the oldest CQE without a look at its user data: it is *)
(* the answer to its own command (OwnAnswers).                             *)
THEOREM TakesOwnAnswers ==
    ASSUME ~SubmitFails, ~WaitFails
    PROVE  Spec => []OwnAnswers
  <1>1. ASSUME LifeInv, phase = "wait", ccq # <<>>
        PROVE  Head(ccq).cmd = Command(at)
    <2>1. Executing
      BY <1>1 DEF LifeInv, CommandInv
    <2>2. PICK ok \in BOOLEAN : ccq = <<Answer(ok)>>
      BY <1>1, <2>1 DEF Executing
    <2> QED
      BY <2>2 DEF Answer
  <1>2. LifeInv => OwnAnswers
    BY <1>1 DEF OwnAnswers
  <1> QED
    BY <1>2, LifeInvHolds, PTL

(* The kernel reads the argument of a command only inside the call that    *)
(* pinned it (PinnedReads): what lifecycle_pinned shows needs a failed     *)
(* Submit or WaitCQE.                                                      *)
THEOREM ReadsPinned ==
    ASSUME ~SubmitFails, ~WaitFails
    PROVE  Spec => []PinnedReads
  <1>1. ASSUME LifeInv, NEW c \in running
        PROVE  (c.op = "add" => Op(at) = "add") /\ (c.op = "params" => at = "params")
    BY <1>1, Executes DEF LifeInv
  <1>2. LifeInv => PinnedReads
    BY <1>1 DEF PinnedReads
  <1> QED
    BY <1>2, LifeInvHolds, PTL

(* Every command after ADD_DEV is in the encoding the kernel accepted it   *)
(* in (EncodingAgrees): addDev's fallback, kept in useIoctl, and ctrlOp.   *)
THEOREM EncodingsAgree ==
    ASSUME ~SubmitFails, ~WaitFails
    PROVE  Spec => []EncodingAgrees
  <1>1. ASSUME LifeInv, NEW c \in running, c.id # Unset
        PROVE  c.enc \in KernelTakes
    <2>1. /\ at \in CtrlSteps /\ c.enc = Encoding(at)
          /\ c.id = IF Op(at) = "add" THEN Unset ELSE id
      BY <1>1, Executes DEF LifeInv
    <2>2. at \in {"params", "start", "stop", "del"} /\ id # Unset
      BY <1>1, <2>1, OwnedFacts DEF LifeInv, CtrlSteps
    <2> QED
      BY <1>1, <2>1, <2>2, OwnedFacts, EncodingsNow DEF LifeInv, Encodings
  <1>2. LifeInv => EncodingAgrees
    BY <1>1 DEF EncodingAgrees
  <1> QED
    BY <1>2, LifeInvHolds, PTL

(* When New has failed or shutdown is over the kernel keeps no device, of  *)
(* whatever number, unless it refused DEL_DEV itself (NoDeviceLeaks).      *)
THEOREM NoDeviceStays ==
    ASSUME ~SubmitFails, ~WaitFails
    PROVE  Spec => []NoDeviceLeaks
  <1>1. ASSUME LifeInv, at \in {"failed", "closed"}, ~delErr, NEW d \in Existing
        PROVE  FALSE
    <2>1. d \in DevIds /\ kdev[d] \notin {"none", "gone"}
      BY <1>1 DEF Existing
    <2>2. Owned = id
      BY <1>1, OwnedFacts DEF LifeInv, Owned
    <2>3. d = id /\ id # Unset
      BY <1>1, <2>1, <2>2, OwnedFacts DEF LifeInv
    <2>4. kdev[id] \in StateOfOwned /\ StateOfOwned = {"gone"}
      BY <1>1, <2>2, <2>3, OwnedFacts, OwnedStatesNow DEF LifeInv, OwnedStates
    <2> QED
      BY <2>1, <2>3, <2>4
  <1>2. LifeInv => NoDeviceLeaks
    BY <1>1 DEF NoDeviceLeaks
  <1> QED
    BY <1>2, LifeInvHolds, PTL

(* The state of the device of module Devices, and where it stands in terms *)
(* of New's and shutdown's own steps.                                      *)
DevState ==
    IF once = "new"
    THEN IF \E i \in DevIds : kdev[i] = "live" THEN "live" ELSE "none"
    ELSE IF kdev[id] = "gone" THEN "gone"
    ELSE IF at \in {"ctrlclose", "closed"} THEN "left" ELSE "closing"
DevStates ==
    /\ once = "new" =>
         DevState = IF at = "live" \/ (at = "start" /\ Succeeded) THEN "live" ELSE "none"
    /\ once # "new" =>
         DevState = IF (at = "del" /\ Succeeded) \/ (at \in {"ctrlclose", "closed"} /\ ~delErr)
                    THEN "gone"
                    ELSE IF at \in {"ctrlclose", "closed"} THEN "left" ELSE "closing"

(* The kernel's device is where New and shutdown think it is.              *)
LEMMA DevStatesNow == TypeOK /\ CloseInv /\ OwnedInv => DevStates
  <1> SUFFICES ASSUME TypeOK, CloseInv, OwnedInv PROVE DevStates
    OBVIOUS
  <1>1. kdev \in [DevIds -> {"none", "added", "params", "live", "dead", "gone"}]
        /\ at \in CtrlSteps \cup NewSteps /\ info.id \in DevIds \cup {Unset}
    BY DEF TypeOK, NewSteps
  <1>2. Op(at) # "add" => Owned = id
    BY DEF Owned
  <1>3. CASE once = "new"
    <2>1. (\E i \in DevIds : kdev[i] = "live") => Owned # Unset /\ "live" \in StateOfOwned
      BY OwnedFacts
    <2>2. "live" \in StateOfOwned /\ Owned # Unset => at = "live" \/ (at = "start" /\ Succeeded)
      <3>1. at \in {"validate", "open", "ctrlring"} => Owned = Unset
        BY <1>2, OwnedFacts DEF Before
      <3> QED
        BY <1>1, <1>3, <3>1, OwnedStatesNow DEF OwnedStates, CtrlSteps, NewSteps
    <2>3. at = "live" \/ (at = "start" /\ Succeeded) => id \in DevIds /\ kdev[id] = "live"
      <3>1. at \in {"live", "start"} => Owned = id /\ id # Unset
        BY <1>2, OwnedFacts
      <3> QED
        BY Zenon, <3>1, OwnedFacts, OwnedStatesNow DEF OwnedStates
    <2> QED
      BY <1>3, <2>1, <2>2, <2>3 DEF DevStates, DevState
  <1>4. CASE once # "new"
    <2>1. /\ at \in {"cancel", "join", "release", "stop", "del", "ctrlclose", "closed"}
          /\ id # Unset /\ Owned = id /\ kdev[id] \in StateOfOwned
      BY <1>2, <1>4, OwnedFacts
    <2>2. kdev[id] = "gone"
              <=> (at = "del" /\ Succeeded) \/ (at \in {"ctrlclose", "closed"} /\ ~delErr)
      BY <1>4, <2>1, OwnedStatesNow DEF OwnedStates
    <2> QED
      BY <1>4, <2>2 DEF DevStates, DevState
  <1> QED
    BY <1>3, <1>4

(* ... in the next state as well.                                          *)
LEMMA DevStatesNext == (TypeOK /\ CloseInv /\ OwnedInv => DevStates)'
  BY DevStatesNow, PTL

(* What a step does to the device of module Devices and to its holder.     *)
DevStep ==
    \/ DevState' = DevState /\ opener' = opener
    \/ DevState = "none" /\ DevState' = "live" /\ opener' = opener
    \/ DevState = "live" /\ DevState' = "closing" /\ opener' = opener
    \/ DevState = "closing" /\ DevState' = "gone" /\ ~opener /\ opener' = opener
    \/ DevState = "closing" /\ DevState' = "left" /\ opener' = opener
    \/ DevState' = DevState /\ DevState \in {"live", "closing", "left"} /\ ~opener /\ opener'
    \/ DevState' = DevState /\ opener /\ ~opener'

(* ctrlCommand returning from a refused DEL_DEV gives the device up; its   *)
(* other steps do not show.                                                *)
LEMMA DevCommand ==
    ASSUME TypeOK, HandleInv, CloseInv, OwnedInv, CommandInv, ~SubmitFails, ~WaitFails,
           DevStates, DevStates', Command1
    PROVE  DevStep
  <1>1. UNCHANGED <<kdev, once, opener>> /\ at \in CtrlSteps
    BY Zenon, CommandFrame DEF HandleInv
  <1>2. CASE once = "new"
    BY Zenon, <1>1, <1>2 DEF DevStep, DevState
  <1>3. CASE once # "new"
    <2>1. at \in {"stop", "del"} /\ id # Unset
      BY Zenon, <1>1, <1>3, OwnedFacts DEF CtrlSteps
    <2>2. at' \in {"stop", "del", "ctrlclose"} /\ id' = id
      BY <2>1, ReturnMoves
    <2>3. CASE at' = at \/ kdev[id] = "gone" \/ at' # "ctrlclose"
      BY Zenon, <1>1, <1>3, <2>1, <2>2, <2>3 DEF DevStep, DevState
    <2>4. CASE kdev[id] # "gone" /\ at' = "ctrlclose"
      BY Zenon, <1>1, <1>3, <2>1, <2>2, <2>4 DEF DevStep, DevState
    <2> QED
      BY <2>3, <2>4
  <1> QED
    BY <1>2, <1>3

(* Close begins when its first caller enters closeOnce.Do.                 *)
LEMMA DevMoves ==
    ASSUME TypeOK, HandleInv, CloseInv, OwnedInv, DevStates, DevStates', Opening \/ Closing
    PROVE  DevStep
  <1>1. UNCHANGED <<kdev, id, opener>>
    BY OpeningFrame, ClosingFrame
  <1>2. CASE once' = once /\ (once = "new" \/ at' = at)
    BY Zenon, <1>1, <1>2 DEF DevStep, DevState
  <1>3. CASE Closing /\ once' = once /\ once # "new" /\ at' # at
    <2>1. at \notin {"ctrlclose", "closed"} /\ at' \notin {"ctrlclose", "closed"}
      <3>1. once = "running" \/ at = "closed"
        BY <1>3 DEF CloseInv, TypeOK
      <3>2. ~CloseControl
        BY <1>3, <3>1 DEF CloseControl
      <3>3. CancelWorkers \/ Join \/ Release
        BY <1>3, <3>2 DEF Closing, CallClose, CloseReturns
      <3> QED
        BY <3>3 DEF CancelWorkers, Join, Release
    <2> QED
      BY Zenon, <1>1, <1>3, <2>1 DEF DevStep, DevState
  <1>4. CASE once' # once
    <2>1. \/ once = "new" /\ at = "live" /\ once' = "running" /\ at' = "cancel"
          \/ once = "running" /\ at = "ctrlclose" /\ once' = "done" /\ at' = "closed"
      BY Zenon, <1>4, OpeningFrame
      DEF Closing, CancelWorkers, Join, Release, CloseControl, CallClose, CloseReturns, callVars
    <2>2. CASE once = "new"
      <3>1. DevState = "live" /\ DevState' = "closing"
        BY <2>1, <2>2 DEF DevStates
      <3> QED
        BY <1>1, <3>1 DEF DevStep
    <2>3. CASE once = "running"
      BY Zenon, <1>1, <2>1, <2>3 DEF DevStep, DevState
    <2> QED
      BY <2>1, <2>2, <2>3
  <1>5. once' = once /\ once # "new" => Closing
    BY Zenon, OpeningFrame, OwnedFacts
  <1> QED
    BY <1>2, <1>3, <1>4, <1>5

(* START_DEV creates the device, DEL_DEV removes it, with nobody holding   *)
(* the block device.                                                       *)
LEMMA DevExecuted ==
    ASSUME TypeOK, HandleInv, CloseInv, OwnedInv, CommandInv, DevStates, DevStates', Executed
    PROVE  DevStep
  <1>1. UNCHANGED <<at, id, once, opener, delErr>>
    BY ExecutedFrame
  <1>2. ASSUME NEW c \in running, KRefuse(c) PROVE DevStep
    BY Zenon, <1>1, <1>2 DEF KRefuse, DevStep, DevState
  <1>3. ASSUME NEW c \in running, NEW d \in DevIds, KAdd(c, d) PROVE DevStep
    <2>1. c.op = "add"
      BY <1>3 DEF KAdd
    <2>2. at \in {"add", "addLegacy"} /\ once = "new"
      BY <2>1, Executes, OwnedFacts
    <2> QED
      BY <1>1, <2>2 DEF DevStates, DevStep
  <1>4. ASSUME NEW c \in running, KRun(c) PROVE DevStep
    <2>1. KAnswer(c, TRUE) /\ c.op # "add" /\ (c.op = "del" => ~opener)
      BY Zenon, <1>4 DEF KRun
    <2>2. ccq = <<>> /\ ccq' = <<Answer(TRUE)>>
      BY Zenon, <2>1, ExecutedAlone
    <2>3. ~Succeeded /\ c.op = Op(at) /\ at \in CtrlSteps
      BY <2>2, Executes DEF Succeeded
    <2>4. at \in {"params", "start", "stop", "del"} /\ (at = "del" => ~opener)
      BY <2>1, <2>3, Successors DEF CtrlSteps, Op
    <2>5. CASE once = "new"
      BY <1>1, <2>3, <2>4, <2>5 DEF DevStates, DevStep
    <2>6. CASE once # "new"
      <3>1. at \in {"stop", "del"}
        BY <2>4, <2>6, OwnedFacts
      <3> QED
        BY <1>1, <2>3, <2>4, <2>6, <3>1 DEF DevStates, DevStep
    <2> QED
      BY <2>5, <2>6
  <1> QED
    BY <1>2, <1>3, <1>4 DEF Executed

(* The block device is opened only while the kernel has it.                *)
LEMMA DevUsers ==
    ASSUME TypeOK, CloseInv, OwnedInv, DevStates, Users
    PROVE  DevStep
  <1>1. DevState' = DevState
    BY UsersFrame DEF DevState
  <1>2. CASE UserOpen
    <2>1. PICK d \in DevIds : kdev[d] = "live"
      BY <1>2 DEF UserOpen
    <2>2. ~opener /\ opener'
      BY <1>2 DEF UserOpen
    <2>3. CASE once = "new"
      BY Zenon, <1>1, <2>1, <2>2, <2>3 DEF DevStep, DevState
    <2>4. CASE once # "new"
      <3>1. Owned = id /\ d = id
        BY Zenon, <2>1, <2>4, OwnedFacts DEF Owned
      <3> QED
        BY Zenon, <1>1, <2>1, <2>2, <2>4, <3>1 DEF DevStep, DevState
    <2> QED
      BY <2>3, <2>4
  <1>3. CASE UserClose
    BY Zenon, <1>1, <1>3 DEF UserClose, DevStep
  <1>4. ASSUME NEW d \in DevIds, KMakeNode(d) PROVE DevStep
    BY <1>1, <1>4 DEF KMakeNode, DevStep
  <1> QED
    BY <1>2, <1>3, <1>4 DEF Users

(* Seen by a program, New and Close implement module Devices: New creates  *)
(* the device with START_DEV, Close removes it once and with nobody        *)
(* holding it, or leaves it behind if DEL_DEV is refused, and nothing      *)
(* happens to it afterwards (ImplementsDevices).                           *)
THEOREM LifecycleImplementsDevices ==
    ASSUME ~SubmitFails, ~WaitFails
    PROVE  Spec => ImplementsDevices
  <1>1. Init => Abstract!DevInit
    <2> SUFFICES ASSUME Init PROVE Abstract!DevInit
      OBVIOUS
    <2>1. DevState = "none" /\ ~opener
      BY DEF Init, DevState
    <2> QED
      BY <2>1 DEF Abstract!DevInit, DevState
  <1>2. ASSUME LifeInv, LifeInv', [Next]_vars
        PROVE  [Abstract!DevNext]_(Abstract!devs)
    <2>1. /\ TypeOK /\ HandleInv /\ CloseInv /\ OwnedInv /\ CommandInv
          /\ opener \in BOOLEAN /\ opener' \in BOOLEAN
      BY Zenon, <1>2 DEF LifeInv, TypeOK
    <2>2. DevStates /\ DevStates'
      BY <1>2, <2>1, DevStatesNow, DevStatesNext DEF LifeInv
    <2>3. DevStep
      <3>1. Running \/ UNCHANGED vars => DevStep
        BY Zenon, RunningFrame, StutterFrame DEF DevStep, DevState
      <3> QED
        BY <1>2, <2>1, <2>2, <3>1, StepKinds, DevCommand, DevMoves, DevExecuted, DevUsers
    <2>4. CASE DevState' = DevState /\ opener' = opener
      BY <2>4 DEF Abstract!devs, DevState
    <2>5. CASE DevState = "none" /\ DevState' = "live" /\ opener' = opener
      <3>1. Abstract!Create("dev")
        BY Zenon, <2>5 DEF Abstract!Create, Abstract!Become, DevState
      <3> QED
        BY <3>1 DEF Abstract!DevNext
    <2>6. CASE DevState = "live" /\ DevState' = "closing" /\ opener' = opener
      <3>1. Abstract!BeginClose("dev")
        BY <2>6 DEF Abstract!BeginClose, Abstract!Become, DevState
      <3> QED
        BY <3>1 DEF Abstract!DevNext
    <2>7. CASE DevState = "closing" /\ DevState' = "gone" /\ ~opener /\ opener' = opener
      <3>1. Abstract!Delete("dev")
        BY <2>7 DEF Abstract!Delete, Abstract!Become, DevState
      <3> QED
        BY <3>1 DEF Abstract!DevNext
    <2>8. CASE DevState = "closing" /\ DevState' = "left" /\ opener' = opener
      <3>1. Abstract!DeleteRefused("dev")
        BY <2>8 DEF Abstract!DeleteRefused, Abstract!Become, DevState
      <3> QED
        BY <3>1 DEF Abstract!DevNext
    <2>9. CASE DevState' = DevState /\ DevState \in {"live", "closing", "left"} /\ ~opener /\ opener'
      <3>1. Abstract!Hold("dev", "user")
        BY Zenon, <2>9 DEF Abstract!Hold, DevState
      <3> QED
        BY <3>1 DEF Abstract!DevNext
    <2>10. CASE DevState' = DevState /\ opener /\ ~opener'
      <3>1. Abstract!Unhold("dev", "user")
        BY Zenon, <2>10 DEF Abstract!Unhold, DevState
      <3> QED
        BY <3>1 DEF Abstract!DevNext
    <2> QED
      BY <2>3, <2>4, <2>5, <2>6, <2>7, <2>8, <2>9, <2>10 DEF DevStep
  <1> QED
    BY <1>1, <1>2, LifeInvHolds, PTL DEF Spec, ImplementsDevices, Abstract!DevSpec
=============================================================================
