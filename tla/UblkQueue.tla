----------------------------- MODULE UblkQueue -----------------------------
(***************************************************************************)
(* One ublk queue from the moment New launches the worker goroutine until  *)
(* shutdown has removed the device: the worker loop (worker.run), the      *)
(* part of New that waits for it and starts the device, Device.shutdown,   *)
(* and, as external parties, the kernel driver, the users of the block     *)
(* device and the backend.                                                 *)
(*                                                                         *)
(* The submission ring is the queue of module RingFifo (sq, unflushed,     *)
(* want, got), which module Ring implements; the completion ring is the    *)
(* sequence of the CQEs the worker has not seen.                           *)
(***************************************************************************)
EXTENDS RingFifo, FiniteSets

CONSTANTS
    Depth,          \* w.depth, the number of tags
    CQEntries,      \* p.CQEntries of the worker's ring
    NBlocks,        \* size of the device in blocks
    Values,         \* contents a block can have
    Zero,           \* the contents of a zeroed block
    BufLen,         \* w.bufSize in blocks
    HasDiscarder,   \* backend.(Discarder) succeeded
    HasZeroer,      \* backend.(ZeroWriter) succeeded
    HonourLimits,   \* the kernel only issues what SET_PARAMS advertised
    SyscallsFail,   \* io_uring_enter, epoll_wait and START_DEV may fail
    ShortSubmits,   \* io_uring_enter may consume fewer SQEs than asked
    ExternalStop    \* another process may stop the device

ASSUME QueueAssumption ==
    /\ Depth \in Nat \ {0}
    /\ SQEntries \in Nat /\ SQEntries >= Depth   \* New(depth): roundUp2
    /\ CQEntries \in Nat /\ CQEntries >= Depth
    /\ NBlocks \in Nat \ {0}
    /\ BufLen \in Nat \ {0}
    /\ Zero \in Values
    /\ {HasDiscarder, HasZeroer, HonourLimits} \subseteq BOOLEAN
    /\ {SyscallsFail, ShortSubmits, ExternalStop} \subseteq BOOLEAN

VARIABLES
    pc,         \* where worker.run is
    cur,        \* run's local variable tag
    result,     \* per tag: what handleIO returned for its request, or "none"
    cq,         \* CQEs posted and not seen
    cancelled,  \* Ring.cancelled
    eventfd,    \* the eventfd behind cancelFD is readable (never read back)
    ready,      \* the channel ready, with the goroutine that sends nil on it
    dev,        \* where New, and later shutdown, is
    ringOpen,   \* the ring and the descriptors are mapped
    charOpen,   \* charFD is open
    kio,        \* kernel: per tag, the state of its ublk_io
    desc,       \* shared: per tag, the io descriptor
    bufs,       \* shared: per tag, the data buffer (by absolute block)
    rep,        \* kernel: the answer given last, and to which tag's request
    disk,       \* kernel: the block device
    opener,     \* kernel: the fds open on the block device
    data        \* the backend's storage

workerVars == <<pc, cur, result>>
cancelVars == <<cancelled, eventfd>>
mainVars   == <<dev, ready>>
handles    == <<ringOpen, charOpen>>
ioVars     == <<kio, desc, rep>>
diskVars   == <<disk, opener>>
storage    == <<data, bufs>>
vars == <<workerVars, sqVars, cq, cancelVars, mainVars, handles, ioVars,
          diskVars, storage>>

Tags   == 0 .. (Depth - 1)
Blocks == 0 .. (NBlocks - 1)
Ops    == {"read", "write", "discard", "zeroes", "other"}
Results == {"ok", "EIO", "EOPNOTSUPP"}
Contents == [Blocks -> Values]

Desc == [op : Ops, blk : Blocks, len : 0 .. NBlocks, val : Values]
Extent(d) == {b \in Blocks : d.blk <= b /\ b < d.blk + d.len}
Over(f, S, g) == [b \in Blocks |-> IF b \in S THEN g[b] ELSE f[b]]

SQE == [cmd : {"FETCH", "COMMIT"}, tag : Tags, res : Results]
CQE == [tag : Tags, res : {"ok", "abort"}]
Reply == [tag : Tags, st : {"none"} \cup Results, val : Contents]
Fetch(t) == [cmd |-> "FETCH", tag |-> t, res |-> "ok"]
Commit(t, r) == [cmd |-> "COMMIT", tag |-> t, res |-> r]
Blank == [b \in Blocks |-> Zero]

-----------------------------------------------------------------------------
(***************************************************************************)
(* What setParams tells the kernel, and what handleIO accepts.             *)
(***************************************************************************)

MutEitherMeansBoth ==
    {"read", "write"} \cup (IF HasDiscarder \/ HasZeroer
                            THEN {"discard", "zeroes"} ELSE {})

(* The operations SET_PARAMS advertises (device.go, setParams).            *)
Advertised ==
    {"read", "write"} \cup (IF HasDiscarder THEN {"discard"} ELSE {})
                      \cup (IF HasZeroer THEN {"zeroes"} ELSE {})

(* The largest request SET_PARAMS allows, in blocks: max_sectors for reads *)
(* and writes, 1 GiB (here: the device) for the other two.                 *)
MaxLen(op) == IF op \in {"read", "write"} THEN BufLen ELSE NBlocks

(* The descriptors the kernel can write.                                   *)
Issued ==
    {d \in Desc : /\ d.blk + d.len <= NBlocks
                  /\ d.op # "write" => d.val = Zero
                  /\ HonourLimits => /\ d.op \in Advertised
                                     /\ d.len \in 1 .. MaxLen(d.op)}

MutNoSizeCheck(d) ==
    IF \/ d.op = "discard" /\ ~HasDiscarder
       \/ d.op = "zeroes" /\ ~HasZeroer
       \/ d.op = "other"
      THEN "EOPNOTSUPP"
    ELSE IF d.len = 0 THEN "ok" ELSE "call"

(* handleIO's verdict before it calls the backend: the switch, the nil     *)
(* checks of the two capabilities, the empty and the oversized request.    *)
Verdict(d) ==
    IF \/ d.op = "discard" /\ ~HasDiscarder
       \/ d.op = "zeroes" /\ ~HasZeroer
       \/ d.op = "other"
      THEN "EOPNOTSUPP"
    ELSE IF d.len = 0 THEN "ok"
    ELSE IF d.op \in {"read", "write"} /\ d.len > BufLen THEN "EIO"
    ELSE "call"

-----------------------------------------------------------------------------
(***************************************************************************)
(* The state New leaves when it launches the worker: the device is added,  *)
(* the character device is open, worker.init has mapped the descriptors    *)
(* and prepared a FETCH for every tag that got an SQE.                     *)
(***************************************************************************)
InitialFetches ==
    [i \in 1 .. (IF Depth <= SQEntries THEN Depth ELSE SQEntries)
        |-> Fetch(i - 1)]

Init ==
    /\ pc = "launch" /\ cur = 0
    /\ result = [t \in Tags |-> "none"]
    /\ sq = InitialFetches /\ unflushed = Len(InitialFetches)
    /\ want = 0 /\ got = 0
    /\ cq = <<>>
    /\ cancelled = FALSE /\ eventfd = FALSE
    /\ ready = "empty" /\ dev = "ready"
    /\ ringOpen = TRUE /\ charOpen = TRUE
    /\ kio = [t \in Tags |-> "idle"]
    /\ desc = [t \in Tags |-> [op |-> "read", blk |-> 0, len |-> 0, val |-> Zero]]
    /\ bufs = [t \in Tags |-> Blank]
    /\ rep = [tag |-> 0, st |-> "none", val |-> Blank]
    /\ disk = "absent" /\ opener = "closed"
    /\ data = Blank

-----------------------------------------------------------------------------
(***************************************************************************)
(* worker.run                                                              *)
(***************************************************************************)

(* SubmitAndWait publishes the FETCHes and enters the kernel.              *)
SubmitAndWait ==
    /\ pc = "launch"
    /\ FlushSQ
    /\ pc' = "arm"
    /\ UNCHANGED <<cur, result, cq, cancelVars, mainVars, handles, ioVars,
                   diskVars, storage>>

(* SubmitAndWait returned without error: launch the goroutine that signals *)
(* ready and go on to the event loop.                                      *)
Armed ==
    /\ pc = "arm"
    /\ got > 0
    /\ got = want \/ ShortSubmits
    /\ EnterReturns
    /\ ready' = "sending"
    /\ pc' = "wait"
    /\ UNCHANGED <<cur, result, cq, cancelVars, dev, handles, ioVars,
                   diskVars, storage>>

MutErrorNotSent ==
    /\ SyscallsFail
    /\ pc = "arm" /\ got = 0
    /\ EnterReturns
    /\ pc' = "done"
    /\ UNCHANGED <<cur, result, cq, cancelVars, mainVars, handles, ioVars,
                   diskVars, storage>>

(* SubmitAndWait failed: send the error on ready, return.                  *)
ArmFails ==
    /\ SyscallsFail
    /\ pc = "arm" /\ got = 0
    /\ EnterReturns
    /\ ready' = "err"
    /\ pc' = "done"
    /\ UNCHANGED <<cur, result, cq, cancelVars, dev, handles, ioVars,
                   diskVars, storage>>

MutFlagNotChecked ==
    /\ pc = "wait"
    /\ pc' = "load"
    /\ UNCHANGED <<cur, result, sqVars, cq, cancelVars, mainVars, handles,
                   ioVars, diskVars, storage>>

(* WaitCQE, top of the loop: the cancel flag is looked at first.           *)
CheckCancelled ==
    /\ pc = "wait"
    /\ pc' = IF cancelled THEN "done" ELSE "load"
    /\ UNCHANGED <<cur, result, sqVars, cq, cancelVars, mainVars, handles,
                   ioVars, diskVars, storage>>

(* WaitCQE: compare the head and the tail of the completion ring.          *)
LoadCQ ==
    /\ pc = "load"
    /\ pc' = IF cq # <<>> THEN "cqe" ELSE "epoll"
    /\ UNCHANGED <<cur, result, sqVars, cq, cancelVars, mainVars, handles,
                   ioVars, diskVars, storage>>

(* WaitCQE: epoll_wait returns with the descriptors that are readable; the *)
(* eventfd among them means ErrCancelled, otherwise look again.            *)
EpollWait ==
    /\ pc = "epoll"
    /\ eventfd \/ cq # <<>>
    /\ pc' = IF eventfd THEN "done" ELSE "wait"
    /\ UNCHANGED <<cur, result, sqVars, cq, cancelVars, mainVars, handles,
                   ioVars, diskVars, storage>>

(* WaitCQE: epoll_wait is interrupted by a signal (look again) or fails    *)
(* (run returns).                                                          *)
EpollInterrupted ==
    /\ pc = "epoll"
    /\ pc' \in {"wait"} \cup (IF SyscallsFail THEN {"done"} ELSE {})
    /\ UNCHANGED <<cur, result, sqVars, cq, cancelVars, mainVars, handles,
                   ioVars, diskVars, storage>>

MutNotSeen ==
    /\ pc = "cqe"
    /\ cur' = Head(cq).tag
    /\ pc' = IF Head(cq).res = "abort" THEN "done" ELSE "handle"
    /\ UNCHANGED <<result, sqVars, cq, cancelVars, mainVars, handles, ioVars,
                   diskVars, storage>>

(* The head of the inner loop: copy tag and res out of the CQE, SeenCQE,   *)
(* and return on a negative res.                                           *)
TakeCQE ==
    /\ pc = "cqe"
    /\ cur' = Head(cq).tag
    /\ cq' = Tail(cq)
    /\ pc' = IF Head(cq).res = "abort" THEN "done" ELSE "handle"
    /\ UNCHANGED <<result, sqVars, cancelVars, mainVars, handles, ioVars,
                   diskVars, storage>>

(* handleIO answers without calling the backend.                           *)
RefuseOrEmpty ==
    /\ pc = "handle"
    /\ Verdict(desc[cur]) # "call"
    /\ result' = [result EXCEPT ![cur] = Verdict(desc[cur])]
    /\ pc' = "commit"
    /\ UNCHANGED <<cur, sqVars, cq, cancelVars, mainVars, handles, ioVars,
                   diskVars, storage>>

(* handleIO, opRead: ReadAt fills the tag's buffer; an error or a short    *)
(* count leaves anything in it and becomes EIO.                            *)
BackendRead ==
    /\ pc = "handle"
    /\ desc[cur].op = "read" /\ Verdict(desc[cur]) = "call"
    /\ \/ /\ bufs' = [bufs EXCEPT ![cur] = Over(@, Extent(desc[cur]), data)]
          /\ result' = [result EXCEPT ![cur] = "ok"]
       \/ /\ \E junk \in Contents :
                bufs' = [bufs EXCEPT ![cur] = Over(@, Extent(desc[cur]), junk)]
          /\ result' = [result EXCEPT ![cur] = "EIO"]
    /\ pc' = "commit"
    /\ UNCHANGED <<cur, sqVars, cq, cancelVars, mainVars, handles, ioVars,
                   diskVars, data>>

(* What WriteAt, WriteZeroesAt and DiscardAt may put in the blocks of d.   *)
NewContents(t, d) ==
    CASE d.op = "write"  -> {bufs[t]}
      [] d.op = "zeroes" -> {Blank}
      [] OTHER           -> Contents

MutShortWriteOK ==
    /\ pc = "handle"
    /\ desc[cur].op # "read" /\ Verdict(desc[cur]) = "call"
    /\ \E new \in NewContents(cur, desc[cur]), part \in SUBSET Extent(desc[cur]) :
          data' = Over(data, part, new)
    /\ result' = [result EXCEPT ![cur] = "ok"]
    /\ pc' = "commit"
    /\ UNCHANGED <<cur, sqVars, cq, cancelVars, mainVars, handles, ioVars,
                   diskVars, bufs>>

(* handleIO, opWrite, opWriteZeroes and opDiscard: the backend updates the *)
(* whole extent, or only some of it and the answer is EIO.                 *)
BackendUpdate ==
    /\ pc = "handle"
    /\ desc[cur].op # "read" /\ Verdict(desc[cur]) = "call"
    /\ \E new \in NewContents(cur, desc[cur]) :
          \/ /\ data' = Over(data, Extent(desc[cur]), new)
             /\ result' = [result EXCEPT ![cur] = "ok"]
          \/ /\ \E part \in SUBSET Extent(desc[cur]) : data' = Over(data, part, new)
             /\ result' = [result EXCEPT ![cur] = "EIO"]
    /\ pc' = "commit"
    /\ UNCHANGED <<cur, sqVars, cq, cancelVars, mainVars, handles, ioVars,
                   diskVars, bufs>>

HandleIO == RefuseOrEmpty \/ BackendRead \/ BackendUpdate

MutSeparateFetch ==
    /\ pc = "commit"
    /\ sq' = sq \o <<Commit(cur, result[cur]), Fetch(cur)>>
    /\ unflushed' = unflushed + 2
    /\ pc' = IF cq # <<>> THEN "cqe" ELSE "submit"
    /\ UNCHANGED <<want, got, cur, result, cq, cancelVars, mainVars, handles,
                   ioVars, diskVars, storage>>

MutCommitsOnlySuccess ==
    /\ pc = "commit"
    /\ IF result[cur] = "ok" THEN PushSQE(Commit(cur, "ok")) ELSE UNCHANGED sqVars
    /\ pc' = IF cq # <<>> THEN "cqe" ELSE "submit"
    /\ UNCHANGED <<cur, result, cq, cancelVars, mainVars, handles,
                   ioVars, diskVars, storage>>

MutBatchNotSubmitted ==
    /\ pc = "commit"
    /\ IF SQFull THEN NilSQE ELSE PushSQE(Commit(cur, result[cur]))
    /\ pc' = IF cq # <<>> THEN "cqe" ELSE "wait"
    /\ UNCHANGED <<cur, result, cq, cancelVars, mainVars, handles,
                   ioVars, diskVars, storage>>

(* prepareCommitAndFetch, which returns silently when it gets no SQE, then *)
(* PeekCQE: another CQE continues the inner loop, none ends the batch.     *)
PrepareCommitAndFetch ==
    /\ pc = "commit"
    /\ IF SQFull THEN NilSQE ELSE PushSQE(Commit(cur, result[cur]))
    /\ pc' = IF cq # <<>> THEN "cqe" ELSE "submit"
    /\ UNCHANGED <<cur, result, cq, cancelVars, mainVars, handles,
                   ioVars, diskVars, storage>>

(* Submit: with nothing pending it returns at once, else it enters.        *)
Submit ==
    /\ pc = "submit"
    /\ FlushSQ
    /\ pc' = IF unflushed = 0 THEN "wait" ELSE "enter"
    /\ UNCHANGED <<cur, result, cq, cancelVars, mainVars, handles, ioVars,
                   diskVars, storage>>

(* Submit returned; its count is ignored.                                  *)
Submitted ==
    /\ pc = "enter"
    /\ got > 0
    /\ got = want \/ ShortSubmits
    /\ EnterReturns
    /\ pc' = "wait"
    /\ UNCHANGED <<cur, result, cq, cancelVars, mainVars, handles,
                   ioVars, diskVars, storage>>

(* Submit failed: run returns, the batch stays in the ring.                *)
SubmitFails ==
    /\ SyscallsFail
    /\ pc = "enter" /\ got = 0
    /\ EnterReturns
    /\ pc' = "done"
    /\ UNCHANGED <<cur, result, cq, cancelVars, mainVars, handles,
                   ioVars, diskVars, storage>>

-----------------------------------------------------------------------------
(***************************************************************************)
(* The kernel (external).                                                  *)
(***************************************************************************)

(* The answer the user gets: a successful read returns the buffer.         *)
Answer(t, r) ==
    [tag |-> t, st |-> r,
     val |-> IF r = "ok" /\ desc[t].op = "read"
             THEN Over(Blank, Extent(desc[t]), bufs[t]) ELSE Blank]

(* io_uring_enter consumes the oldest SQE.  A FETCH parks the tag's        *)
(* command in the driver; a COMMIT finishes the tag's request with the     *)
(* result it carries and parks the command again.                          *)
KConsume ==
    /\ pc \in {"arm", "enter"}
    /\ ConsumeSQE
    /\ LET s == Head(sq)
       IN  /\ kio' = [kio EXCEPT ![s.tag] = "parked"]
           /\ rep' = IF s.cmd = "FETCH" THEN rep ELSE Answer(s.tag, s.res)
           /\ result' = [result EXCEPT ![s.tag] = "none"]
    /\ UNCHANGED <<pc, cur, cq, cancelVars, mainVars, handles,
                   desc, diskVars, storage>>

(* START_DEV adds the disk once every tag has been fetched.                *)
KAddDisk ==
    /\ dev = "start" /\ disk = "absent"
    /\ \A t \in Tags : kio[t] = "parked"
    /\ disk' = "up"
    /\ UNCHANGED <<workerVars, sqVars, cq, cancelVars, mainVars, handles,
                   ioVars, opener, storage>>

(* A request arrives on a tag whose command is parked: the driver copies   *)
(* the payload of a write into the buffer, writes the descriptor and       *)
(* completes the command.  The CQE is lost when the ring is gone.          *)
KDispatch(t, d) ==
    /\ disk = "up" /\ opener = "open" /\ charOpen
    /\ kio[t] = "parked"
    /\ kio' = [kio EXCEPT ![t] = "busy"]
    /\ desc' = [desc EXCEPT ![t] = d]
    /\ bufs' = IF d.op = "write" /\ d.len <= BufLen
               THEN [bufs EXCEPT ![t] = Over(@, Extent(d), [b \in Blocks |-> d.val])]
               ELSE bufs
    /\ cq' = IF ringOpen THEN Append(cq, [tag |-> t, res |-> "ok"]) ELSE cq
    /\ UNCHANGED <<workerVars, sqVars, cancelVars, mainVars, handles, rep,
                   diskVars, data>>

(* The device is stopped from outside; parked commands are completed with  *)
(* a negative res, one by one.                                             *)
KStop ==
    /\ ExternalStop
    /\ disk = "up"
    /\ disk' = "dead"
    /\ UNCHANGED <<workerVars, sqVars, cq, cancelVars, mainVars, handles,
                   ioVars, opener, storage>>

KCancelCmd(t) ==
    /\ disk = "dead" /\ ringOpen
    /\ kio[t] = "parked"
    /\ kio' = [kio EXCEPT ![t] = "idle"]
    /\ cq' = Append(cq, [tag |-> t, res |-> "abort"])
    /\ UNCHANGED <<workerVars, sqVars, cancelVars, mainVars, handles, desc,
                   rep, diskVars, storage>>

(* ublk_ch_release: with the character device closed, every request the    *)
(* server still owns is failed.                                            *)
KAbort(t) ==
    /\ ~charOpen
    /\ kio[t] = "busy"
    /\ kio' = [kio EXCEPT ![t] = "idle"]
    /\ rep' = Answer(t, "EIO")
    /\ result' = [result EXCEPT ![t] = "none"]
    /\ UNCHANGED <<pc, cur, sqVars, cq, cancelVars, mainVars, handles, desc,
                   diskVars, storage>>

(* The users of the block device: open it, stop using it; a request in     *)
(* flight keeps the fd referenced.                                         *)
UserOpen ==
    /\ disk = "up" /\ opener = "closed"
    /\ opener' = "open"
    /\ UNCHANGED <<workerVars, sqVars, cq, cancelVars, mainVars, handles,
                   ioVars, disk, storage>>

UserClose ==
    /\ opener = "open"
    /\ opener' = "draining"
    /\ UNCHANGED <<workerVars, sqVars, cq, cancelVars, mainVars, handles,
                   ioVars, disk, storage>>

UserGone ==
    /\ opener = "draining"
    /\ \A t \in Tags : kio[t] # "busy"
    /\ opener' = "closed"
    /\ UNCHANGED <<workerVars, sqVars, cq, cancelVars, mainVars, handles,
                   ioVars, disk, storage>>

-----------------------------------------------------------------------------
(***************************************************************************)
(* New, from the receive on ready, and Device.shutdown.                    *)
(***************************************************************************)

(* The goroutine run launched sends nil on ready.                          *)
SendReady ==
    /\ ready = "sending"
    /\ ready' = "nil"
    /\ UNCHANGED <<workerVars, sqVars, cq, cancelVars, dev, handles, ioVars,
                   diskVars, storage>>

(* New receives from ready and issues START_DEV, or cleans up.             *)
AwaitReady ==
    /\ dev = "ready"
    /\ ready \in {"nil", "err"}
    /\ dev' = IF ready = "nil" THEN "start" ELSE "flag"
    /\ UNCHANGED <<workerVars, sqVars, cq, cancelVars, ready, handles, ioVars,
                   diskVars, storage>>

(* START_DEV completes: New returns the device.                            *)
StartDev ==
    /\ dev = "start"
    /\ disk # "absent"
    /\ dev' = "live"
    /\ UNCHANGED <<workerVars, sqVars, cq, cancelVars, ready, handles, ioVars,
                   diskVars, storage>>

(* START_DEV fails: New cleans up.                                         *)
StartDevFails ==
    /\ SyscallsFail
    /\ dev = "start"
    /\ disk = "absent"
    /\ dev' = "flag"
    /\ UNCHANGED <<workerVars, sqVars, cq, cancelVars, ready, handles, ioVars,
                   diskVars, storage>>

(* The owner calls Close.                                                  *)
Close ==
    /\ dev = "live"
    /\ dev' = "flag"
    /\ UNCHANGED <<workerVars, sqVars, cq, cancelVars, ready, handles, ioVars,
                   diskVars, storage>>

(* Cancel: store the flag ...                                              *)
CancelStore ==
    /\ dev = "flag"
    /\ cancelled' = TRUE
    /\ dev' = "wake"
    /\ UNCHANGED <<workerVars, sqVars, cq, eventfd, ready, handles, ioVars,
                   diskVars, storage>>

MutNoWake ==
    /\ dev = "wake"
    /\ dev' = "join"
    /\ UNCHANGED <<workerVars, sqVars, cq, cancelVars, ready, handles, ioVars,
                   diskVars, storage>>

(* ... then write the eventfd.                                             *)
CancelWake ==
    /\ dev = "wake"
    /\ eventfd' = TRUE
    /\ dev' = "join"
    /\ UNCHANGED <<workerVars, sqVars, cq, cancelled, ready, handles, ioVars,
                   diskVars, storage>>

MutNoJoin ==
    /\ dev = "join"
    /\ dev' = "release"
    /\ UNCHANGED <<workerVars, sqVars, cq, cancelVars, ready, handles, ioVars,
                   diskVars, storage>>

(* wg.Wait.                                                                *)
Join ==
    /\ dev = "join"
    /\ pc = "done"
    /\ dev' = "release"
    /\ UNCHANGED <<workerVars, sqVars, cq, cancelVars, ready, handles, ioVars,
                   diskVars, storage>>

(* worker.cleanup: unmap the descriptors, close the ring.                  *)
Cleanup ==
    /\ dev = "release"
    /\ ringOpen' = FALSE
    /\ sq' = <<>> /\ unflushed' = 0 /\ want' = 0 /\ got' = 0
    /\ cq' = <<>>
    /\ dev' = "chclose"
    /\ UNCHANGED <<workerVars, cancelVars, ready, charOpen, ioVars, diskVars,
                   storage>>

MutCharStaysOpen ==
    /\ dev = "chclose"
    /\ dev' = "stop"
    /\ UNCHANGED <<workerVars, sqVars, cq, cancelVars, ready, handles, ioVars,
                   diskVars, storage>>

(* shutdown: charFD.                                                       *)
CloseChar ==
    /\ dev = "chclose"
    /\ charOpen' = FALSE
    /\ dev' = "stop"
    /\ UNCHANGED <<workerVars, sqVars, cq, cancelVars, ready, ringOpen, ioVars,
                   diskVars, storage>>

(* stopDev, its error ignored.                                             *)
StopDev ==
    /\ dev = "stop"
    /\ disk' = IF disk = "up" THEN "dead" ELSE disk
    /\ dev' = "del"
    /\ UNCHANGED <<workerVars, sqVars, cq, cancelVars, ready, handles, ioVars,
                   opener, storage>>

(* delDev: del_gendisk waits for the last fd; then the control ring and    *)
(* the control fd are closed.                                              *)
DelDev ==
    /\ dev = "del"
    /\ opener = "closed"
    /\ disk' = "gone"
    /\ dev' = "closed"
    /\ UNCHANGED <<workerVars, sqVars, cq, cancelVars, ready, handles, ioVars,
                   opener, storage>>

-----------------------------------------------------------------------------
Worker ==
    \/ SubmitAndWait \/ Armed \/ CheckCancelled \/ LoadCQ \/ EpollWait
    \/ TakeCQE \/ HandleIO \/ PrepareCommitAndFetch \/ Submit \/ Submitted
WorkerFaults == ArmFails \/ EpollInterrupted \/ SubmitFails
Main ==
    \/ AwaitReady \/ StartDev \/ CancelStore \/ CancelWake \/ Join
    \/ Cleanup \/ CloseChar \/ StopDev \/ DelDev
Owner == Close \/ StartDevFails
Users ==
    \/ UserOpen \/ UserClose \/ UserGone
    \/ \E t \in Tags, d \in Issued : KDispatch(t, d)
Kernel ==
    \/ KConsume \/ KAddDisk \/ KStop
    \/ \E t \in Tags : KCancelCmd(t) \/ KAbort(t)

(* The end: nothing is left to do once shutdown has returned.              *)
Finished == dev = "closed" /\ UNCHANGED vars

Next == Worker \/ WorkerFaults \/ SendReady \/ Main \/ Owner \/ Users \/ Kernel \/ Finished

(***************************************************************************)
(* Fairness.  The worker thread, the goroutine in New or shutdown and the  *)
(* kernel keep running; a backend call returns; EINTR, failures, requests, *)
(* opens and the call of Close are nobody's duty.                          *)
(***************************************************************************)
Fairness ==
    /\ WF_vars(Worker)
    /\ WF_vars(SendReady)
    /\ WF_vars(Main)
    /\ WF_vars(KConsume) /\ WF_vars(KAddDisk)
    /\ \A t \in Tags : WF_vars(KCancelCmd(t)) /\ WF_vars(KAbort(t))
    /\ WF_vars(UserGone)

Spec == Init /\ [][Next]_vars
FairSpec == Spec /\ Fairness

-----------------------------------------------------------------------------
(***************************************************************************)
(* Properties.                                                             *)
(***************************************************************************)
TagsIn(s) == {s[i].tag : i \in DOMAIN s}
InHand(t) == pc \in {"handle", "commit"} /\ cur = t

(* Types; the flushed and the entered SQEs are among the outstanding ones. *)
TypeOK ==
    /\ pc \in {"launch", "arm", "wait", "load", "epoll", "cqe", "handle",
              "commit", "submit", "enter", "done"}
    /\ cur \in Tags
    /\ result \in [Tags -> {"none"} \cup Results]
    /\ sq \in Seq(SQE) /\ cq \in Seq(CQE)
    /\ unflushed \in 0 .. Len(sq)
    /\ want \in Nat /\ got \in 0 .. want
    /\ cancelled \in BOOLEAN /\ eventfd \in BOOLEAN
    /\ ready \in {"empty", "sending", "nil", "err"}
    /\ dev \in {"ready", "start", "live", "flag", "wake", "join", "release",
               "chclose", "stop", "del", "closed"}
    /\ ringOpen \in BOOLEAN /\ charOpen \in BOOLEAN
    /\ kio \in [Tags -> {"idle", "parked", "busy"}]
    /\ desc \in [Tags -> Desc]
    /\ bufs \in [Tags -> Contents]
    /\ rep \in Reply
    /\ disk \in {"absent", "up", "dead", "gone"}
    /\ opener \in {"closed", "open", "draining"}
    /\ data \in Contents

(* No tag is in two entries of q.                                           *)
Once(q) == \A i, j \in DOMAIN q : q[i].tag = q[j].tag => i = j

(* No tag is in both rings, or in one of them while run handles it.         *)
Apart ==
    /\ TagsIn(sq) \cap TagsIn(cq) = {}
    /\ \A t \in TagsIn(sq) \cup TagsIn(cq) : ~InHand(t)

(* A FETCH is for a tag the driver has no command of, a COMMIT for one whose *)
(* request the server owns, and carries the result of that request.          *)
SQEsFit ==
    \A i \in DOMAIN sq :
        IF sq[i].cmd = "FETCH"
        THEN kio[sq[i].tag] = "idle"
        ELSE kio[sq[i].tag] = "busy" /\ result[sq[i].tag] = sq[i].res

(* An unseen CQE hands over a request nobody has answered, or returns an    *)
(* aborted command.                                                         *)
CQEsFit ==
    \A i \in DOMAIN cq :
        IF cq[i].res = "ok"
        THEN kio[cq[i].tag] = "busy" /\ result[cq[i].tag] = "none"
        ELSE kio[cq[i].tag] = "idle"

(* The request run handles is the server's, and is answered once.           *)
HandFits ==
    /\ \A t \in Tags : InHand(t) => kio[t] = "busy"
    /\ pc = "handle" => result[cur] = "none"
    /\ pc = "commit" => result[cur] # "none"

(* Every tag has one owner, an SQE, a CQE, run or the driver, and that      *)
(* owner agrees with the driver on the state of the tag (worker.run,        *)
(* SeenCQE before handleIO, one prepareCommitAndFetch per CQE).             *)
TagOwnership == Once(sq) /\ Once(cq) /\ Apart /\ SQEsFit /\ CQEsFit /\ HandFits

(* Neither ring overflows: nextSQE never hands out a slot the kernel has   *)
(* yet to read, no prepare function meets a nil SQE and drops its command  *)
(* silently, and no CQE finds the completion ring full, whatever part of a *)
(* batch the kernel takes.                                                 *)
RingsNeverOverflow ==
    /\ Len(sq) <= SQEntries
    /\ Len(cq) <= CQEntries
    /\ pc = "commit" => Len(sq) < SQEntries

(* A request the driver handed over is not forgotten: as long as the ring  *)
(* exists it is an unseen CQE, in run's hands, or a COMMIT in the ring.    *)
NoRequestForgotten ==
    ringOpen => \A t \in Tags :
        kio[t] = "busy" => t \in TagsIn(cq) \cup TagsIn(sq) \/ InHand(t)

(* shutdown never frees what run still uses: once cleanup has unmapped the *)
(* rings and the descriptors run has returned, and the character device is *)
(* closed only after that (wg.Wait in shutdown).                           *)
NoUseAfterRelease ==
    /\ ~ringOpen => pc = "done"
    /\ ~charOpen => ~ringOpen

(* How the steps of run, of shutdown and of the driver hang together.      *)
Phases ==
    /\ ringOpen <=> dev \notin {"chclose", "stop", "del", "closed"}
    /\ charOpen <=> dev \notin {"stop", "del", "closed"}
    /\ dev \in {"release", "chclose", "stop", "del", "closed"} => pc = "done"
    /\ ~ringOpen => sq = <<>> /\ cq = <<>>
    /\ pc = "cqe" => cq # <<>>
    /\ pc \in {"wait", "load", "epoll", "arm", "enter"} => unflushed = 0
    /\ \A t \in Tags : kio[t] # "busy" => result[t] = "none"

(* The inductive invariant behind the safety properties above: who owns a  *)
(* tag, together with what run and shutdown have done so far.              *)
QueueInv == TypeOK /\ TagOwnership /\ NoRequestForgotten /\ Phases

(* Unless io_uring_enter takes only part of a batch, the ring holds what   *)
(* run has prepared and not flushed, or what an enter is still to consume. *)
Accounted ==
    ~ShortSubmits =>
        /\ pc \in {"wait", "load", "epoll"} => sq = <<>>
        /\ pc \in {"arm", "enter"} => Len(sq) = want - got
        /\ pc \in {"launch", "cqe", "handle", "commit", "submit"}
               => unflushed = Len(sq)

(* A request in the server's hands is one the kernel may issue, and until  *)
(* it is handled its buffer still holds what the user writes.              *)
RequestsIntact ==
    \A t \in Tags : kio[t] = "busy" =>
        /\ desc[t] \in Issued
        /\ result[t] = "none" /\ desc[t].op = "write" /\ desc[t].len <= BufLen
              => \A b \in Extent(desc[t]) : bufs[t][b] = desc[t].val

(* QueueInv and what run knows of the ring and of the requests: the        *)
(* inductive invariant behind the properties below.                        *)
ServiceInv == QueueInv /\ Accounted /\ RequestsIntact

(* run never blocks on answers it has not submitted: the inner loop of run *)
(* ends in Submit before WaitCQE is entered again.                         *)
SleepsOnlyWhenFlushed ==
    pc \in {"wait", "load", "epoll"} =>
        /\ unflushed = 0
        /\ ~ShortSubmits => sq = <<>>

(* A kernel that keeps to what setParams advertised never gets an answer   *)
(* the backend had no part in: every descriptor handleIO looks at is one   *)
(* it passes on.                                                           *)
NeverRefused ==
    HonourLimits /\ pc = "handle" => Verdict(desc[cur]) = "call"

(* How far a tag's request has come, and what a read that has taken effect *)
(* saw, as the users of the device may think of it.                        *)
Progress ==
    [t \in Tags |-> IF kio[t] # "busy" THEN "idle"
                    ELSE IF result[t] = "none" THEN "pending"
                    ELSE IF result[t] = "ok" THEN "ok" ELSE "failed"]
Seen ==
    [t \in Tags |-> IF kio[t] = "busy" /\ result[t] = "ok" /\ desc[t].op = "read"
                    THEN Over(Blank, Extent(desc[t]), bufs[t]) ELSE Blank]

(* Seen by its users the queue is a linearizable block device whose errors *)
(* confine their damage to the request's extent.                           *)
Device == INSTANCE BlockDevice WITH
    Slots <- Tags, mem <- data, phase <- Progress, req <- desc, seen <- Seen, ans <- rep

Linearizable == Device!Spec

(* An SQE of the tag has been flushed and no io_uring_enter asks for it: a *)
(* Submit took only part of its batch.                                     *)
Stranded(t) ==
    \E i \in (want - got) + 1 .. Len(sq) - unflushed : sq[i].tag = t

(* Every request the driver hands over is answered while run runs, unless  *)
(* a short Submit stranded its COMMIT.                                     *)
RequestsAnswered ==
    \A t \in Tags :
        (kio[t] = "busy") ~> (kio[t] # "busy" \/ pc = "done" \/ Stranded(t))

(* shutdown answers what the worker left behind, whatever made it stop.    *)
ShutdownAnswers ==
    \A t \in Tags : (kio[t] = "busy" /\ dev = "flag") ~> (kio[t] # "busy")

(* Cancel always reaches run, idle in epoll_wait or under a continuous     *)
(* stream of requests.                                                     *)
CancelStopsWorker == (dev = "flag") ~> (pc = "done")

(* New does not block for ever on the channel ready or in START_DEV, which *)
(* waits for all FETCHes, unless run declared itself ready after a short   *)
(* Submit that stranded one of them.                                       *)
NewReturns ==
    (dev \in {"ready", "start"})
        ~> \/ dev \notin {"ready", "start"}
           \/ ready \in {"sending", "nil"} /\ \E t \in Tags : Stranded(t)

(* Close returns if the users of the block device close their fds.         *)
CloseReturns == (dev = "flag") ~> (dev = "closed")

UsersLeave == WF_vars(UserClose)
CloseSpec == FairSpec /\ UsersLeave
=============================================================================
