-------------------------- MODULE UblkQueueProofs --------------------------
(***************************************************************************)
(* Theorems about UblkQueue, for every depth, ring size, device size and   *)
(* combination of faults.  The inductive invariant is QueueInv; that the   *)
(* rings never overflow follows from it by counting tags.  What the users  *)
(* of the block device get comes last: run never sleeps on an answer, a    *)
(* kernel that keeps to the advertised limits is never refused, and the    *)
(* queue implements module BlockDevice.                                    *)
(***************************************************************************)
EXTENDS UblkQueueSteps, FiniteSetTheorems

-----------------------------------------------------------------------------
(***************************************************************************)
(* Counting tags.                                                          *)
(***************************************************************************)

(* A queue of entries with pairwise different tags from T is no longer     *)
(* than T has members.                                                     *)
LEMMA DistinctTags ==
    ASSUME NEW S, NEW s \in Seq(S), NEW T, IsFiniteSet(T),
           \A i \in DOMAIN s : s[i].tag \in T,
           Once(s)
    PROVE  Len(s) <= Cardinality(T)
  <1> DEFINE f == [i \in 1 .. Len(s) |-> s[i].tag]
  <1>1. Len(s) \in Nat /\ DOMAIN s = 1 .. Len(s)
    OBVIOUS
  <1>2. f \in [1 .. Len(s) -> T]
    BY <1>1
  <1>3. IsFiniteSet(1 .. Len(s)) /\ Cardinality(1 .. Len(s)) = Len(s)
    <2>1. 1 \in Int /\ Len(s) \in Int
      BY <1>1
    <2>2. /\ IsFiniteSet(1 .. Len(s))
          /\ Cardinality(1 .. Len(s)) = IF 1 > Len(s) THEN 0 ELSE Len(s) - 1 + 1
      BY <2>1, FS_Interval, Zenon
    <2> QED
      BY <1>1, <2>2
  <1>4. Cardinality(T) \in Nat
    BY FS_CardinalityType
  <1>5. ~(Cardinality(T) < Len(s))
    <2>1. SUFFICES ASSUME Cardinality(T) < Len(s) PROVE FALSE
      OBVIOUS
    <2>2. Cardinality(T) < Cardinality(1 .. Len(s))
      BY <1>3, <2>1
    <2>3. \A x \in 1 .. Len(s) : f[x] = s[x].tag
      OBVIOUS
    <2> HIDE DEF f
    <2>4. \E x, y \in 1 .. Len(s) : x # y /\ f[x] = f[y]
      BY <1>2, <1>3, <2>2, FS_PigeonHole
    <2> QED
      BY <2>3, <2>4, <1>1 DEF Once
  <1> QED
    BY <1>1, <1>4, <1>5

(* There are Depth tags.                                                   *)
LEMMA TagCount == IsFiniteSet(Tags) /\ Cardinality(Tags) = Depth
  <1>1. Depth \in Nat \ {0}
    BY QueueAssumption
  <1> QED
    BY <1>1, FS_Interval DEF Tags

(* As every tag has one owner, neither ring holds more entries than there  *)
(* are tags, and run has one tag in its hands when it prepares an answer.  *)
LEMMA TagBound ==
    ASSUME TypeOK, TagOwnership
    PROVE  /\ Len(sq) <= Depth /\ Len(cq) <= Depth
           /\ pc = "commit" => Len(sq) < Depth
  <1>1. Depth \in Nat \ {0}
    BY QueueAssumption
  <1>2. Len(sq) \in Nat /\ \A i \in DOMAIN sq : sq[i].tag \in Tags
    BY QueueTypes
  <1>3. Len(cq) \in Nat /\ \A i \in DOMAIN cq : cq[i].tag \in Tags
    BY QueueTypes
  <1>4. Len(sq) <= Depth
    BY <1>2, TagCount, DistinctTags DEF TypeOK, TagOwnership
  <1>5. Len(cq) <= Depth
    BY <1>3, TagCount, DistinctTags DEF TypeOK, TagOwnership
  <1>6. ASSUME pc = "commit" PROVE Len(sq) < Depth
    <2>1. IsFiniteSet(Tags \ {cur}) /\ Cardinality(Tags \ {cur}) = Depth - 1
      <3>1. cur \in Tags
        BY DEF TypeOK
      <3>2. /\ IsFiniteSet(Tags \ {cur})
            /\ Cardinality(Tags \ {cur}) = Cardinality(Tags) - 1
        BY <3>1, TagCount, FS_RemoveElement, Zenon
      <3> QED
        BY <3>2, TagCount
    <2>2. \A i \in DOMAIN sq : sq[i].tag \in Tags \ {cur}
      BY <1>2, <1>6 DEF TagOwnership, Apart, TagsIn, InHand
    <2>3. Len(sq) <= Depth - 1
      <3>1. sq \in Seq(SQE) /\ Once(sq)
        BY Zenon DEF TypeOK, TagOwnership
      <3>2. Len(sq) <= Cardinality(Tags \ {cur})
        BY Zenon, <2>1, <2>2, <3>1, DistinctTags
      <3> QED
        BY Zenon, <2>1, <3>2
    <2> QED
      BY <1>1, <1>2, <2>3
  <1> QED
    BY <1>4, <1>5, <1>6

(* So the slot prepareCommitAndFetch asks for is there and free.           *)
LEMMA SlotFree ==
    ASSUME TypeOK, TagOwnership, pc = "commit"
    PROVE  Len(sq) < SQEntries /\ ~SQFull
  <1>1. Len(sq) < Depth
    BY TagBound
  <1>2. Len(sq) \in Nat
    BY QueueTypes
  <1> QED
    BY <1>1, <1>2, QueueAssumption DEF SQFull

-----------------------------------------------------------------------------
(***************************************************************************)
(* The initial state.                                                      *)
(***************************************************************************)
LEMMA InitialFetchesFacts ==
    /\ InitialFetches \in Seq(SQE) /\ Len(InitialFetches) = Depth
    /\ DOMAIN InitialFetches = 1 .. Depth
    /\ \A i \in 1 .. Depth : InitialFetches[i] = Fetch(i - 1)
  <1>1. Depth \in Nat \ {0} /\ SQEntries \in Nat /\ Depth <= SQEntries
    BY QueueAssumption
  <1>2. InitialFetches = [i \in 1 .. Depth |-> Fetch(i - 1)]
    BY <1>1 DEF InitialFetches
  <1>3. \A i \in 1 .. Depth : Fetch(i - 1) \in SQE
    BY <1>1 DEF Fetch, SQE, Tags, Results
  <1>4. InitialFetches \in [1 .. Depth -> SQE]
    BY <1>2, <1>3
  <1>5. InitialFetches \in Seq(SQE)
    BY <1>1, <1>4
  <1> QED
    BY <1>1, <1>2, <1>4, <1>5

(* The state in which New launches the worker satisfies the invariant.     *)
LEMMA InitInv == Init => QueueInv
  <1> SUFFICES ASSUME Init PROVE QueueInv
    OBVIOUS
  <1> USE InitialFetchesFacts
  <1>0. Depth \in Nat \ {0} /\ Zero \in Values /\ NBlocks \in Nat \ {0}
    BY QueueAssumption
  <1>1. Blank \in Contents
    BY <1>0 DEF Blank, Contents
  <1>2. TypeOK
    <2>1. sq \in Seq(SQE) /\ unflushed \in 0 .. Len(sq) /\ cq \in Seq(CQE)
      BY <1>0 DEF Init
    <2>2. desc \in [Tags -> Desc]
      BY <1>0 DEF Init, Desc, Ops, Blocks
    <2>3. rep \in Reply
      BY <1>0, <1>1 DEF Init, Reply, Tags
    <2>4. cur \in Tags
      BY <1>0 DEF Init, Tags
    <2>5. bufs \in [Tags -> Contents] /\ data \in Contents
      BY <1>1 DEF Init
    <2>6. /\ result \in [Tags -> {"none"} \cup Results]
          /\ kio \in [Tags -> {"idle", "parked", "busy"}]
      BY DEF Init
    <2>7. want \in Nat /\ got \in 0 .. want
      BY DEF Init
    <2>8. /\ pc = "launch" /\ dev = "ready" /\ ready = "empty"
          /\ disk = "absent" /\ opener = "closed"
      BY DEF Init
    <2>9. /\ cancelled \in BOOLEAN /\ eventfd \in BOOLEAN
          /\ ringOpen \in BOOLEAN /\ charOpen \in BOOLEAN
      BY Zenon DEF Init
    <2> QED
      BY <2>1, <2>2, <2>3, <2>4, <2>5, <2>6, <2>7, <2>8, <2>9 DEF TypeOK
  <1>3. TagOwnership
    <2>1. cq = <<>> /\ sq = InitialFetches /\ pc = "launch"
      BY DEF Init
    <2>2. DOMAIN cq = {} /\ TagsIn(cq) = {}
      BY <2>1 DEF TagsIn
    <2>3. \A i \in DOMAIN sq :
            i \in Int /\ sq[i].tag = i - 1 /\ sq[i].cmd = "FETCH" /\ i - 1 \in Tags
      BY <1>0, <2>1 DEF Fetch, Tags
    <2>4. \A t \in Tags : kio[t] = "idle"
      BY DEF Init
    <2>5. Once(sq) /\ Once(cq) /\ CQEsFit
      BY <2>2, <2>3 DEF Once, CQEsFit
    <2>6. SQEsFit
      BY <2>3, <2>4 DEF SQEsFit
    <2>7. Apart /\ HandFits
      BY <2>1, <2>2 DEF Apart, HandFits, InHand
    <2> QED
      BY <2>5, <2>6, <2>7 DEF TagOwnership
  <1>4. NoRequestForgotten /\ Phases
    BY DEF Init, NoRequestForgotten, Phases
  <1> QED
    BY <1>2, <1>3, <1>4 DEF QueueInv

-----------------------------------------------------------------------------
(***************************************************************************)
(* The theorems.                                                           *)
(***************************************************************************)

(* Every step of worker.run, of New and shutdown, of the driver and of the *)
(* users preserves the invariant.                                          *)
THEOREM QueueInvInductive == QueueInv /\ [Next]_vars => QueueInv'
  <1> SUFFICES ASSUME QueueInv, [Next]_vars PROVE QueueInv'
    OBVIOUS
  <1>1. CASE Worker
    <2>1. PrepareCommitAndFetch => Len(sq) < SQEntries
      BY SlotFree DEF QueueInv, PrepareCommitAndFetch
    <2> QED
      BY <1>1, <2>1, WorkerQuietSteps, TakeCQEStep, HandleIOSteps, PrepareStep
         DEF Worker
  <1>2. CASE WorkerFaults
    BY <1>2, WorkerQuietSteps DEF WorkerFaults
  <1>3. CASE SendReady \/ Main \/ Owner
    BY <1>3, MainQuietSteps, CleanupStep DEF Main, Owner
  <1>4. CASE Users
    BY <1>4, OutsideQuietSteps, KDispatchStep DEF Users
  <1>5. CASE Kernel
    BY <1>5, OutsideQuietSteps, KConsumeStep, KCancelCmdStep, KAbortStep DEF Kernel
  <1>6. CASE Finished \/ UNCHANGED vars
    <2>1. UNCHANGED vars
      BY <1>6 DEF Finished
    <2>2. UNCHANGED <<workerVars, sqVars, cq, cancelVars, mainVars, handles, ioVars,
                      diskVars, storage>>
      BY <2>1 DEF vars
    <2>3. TypeOK' /\ Phases'
      BY <2>2 DEF QueueInv, TypeOK, Phases, workerVars, sqVars, cancelVars, mainVars,
                  handles, ioVars, diskVars, storage
    <2>4. TagOwnership' /\ NoRequestForgotten'
      BY <2>2, QuietStep DEF workerVars, sqVars, handles, ioVars
    <2> QED
      BY <2>3, <2>4 DEF QueueInv
  <1> QED
    BY <1>1, <1>2, <1>3, <1>4, <1>5, <1>6 DEF Next

(* QueueInv holds in every state the program reaches: types, one owner per *)
(* tag, and no request the driver handed over is forgotten.                *)
THEOREM QueueInvHolds == Spec => []QueueInv
  BY InitInv, QueueInvInductive, PTL DEF Spec

(* Types, for every value of the constants.                                *)
THEOREM TypeCorrect == Spec => []TypeOK
  <1>1. QueueInv => TypeOK
    BY DEF QueueInv
  <1> QED
    BY <1>1, QueueInvHolds, PTL

(* One owner per tag: run answers every request once and with its own      *)
(* result, and never hands the driver a command for a tag the driver still *)
(* has (worker.run, prepareCommitAndFetch).                                *)
THEOREM OneOwnerPerTag == Spec => []TagOwnership
  <1>1. QueueInv => TagOwnership
    BY DEF QueueInv
  <1> QED
    BY <1>1, QueueInvHolds, PTL

(* With rings of at least Depth entries, as New and roundUp2 make them,    *)
(* nextSQE never overwrites a slot the kernel has yet to read, no prepared *)
(* answer is dropped for want of an SQE and no CQE for want of room, even  *)
(* if io_uring_enter fails or takes only part of a batch.                  *)
THEOREM NoOverflow == Spec => []RingsNeverOverflow
  <1>1. QueueInv => RingsNeverOverflow
    <2> SUFFICES ASSUME QueueInv PROVE RingsNeverOverflow
      OBVIOUS
    <2>1. /\ Len(sq) <= Depth /\ Len(cq) <= Depth
          /\ pc = "commit" => Len(sq) < Depth
      BY TagBound DEF QueueInv
    <2>2. Len(sq) \in Nat /\ Len(cq) \in Nat
      BY QueueTypes DEF QueueInv
    <2> QED
      BY <2>1, <2>2, QueueAssumption DEF RingsNeverOverflow
  <1> QED
    BY <1>1, QueueInvHolds, PTL

(* A request handed to the server stays with it until it is committed or   *)
(* the ring is closed, whichever way run ends.                             *)
THEOREM NothingForgotten == Spec => []NoRequestForgotten
  <1>1. QueueInv => NoRequestForgotten
    BY DEF QueueInv
  <1> QED
    BY <1>1, QueueInvHolds, PTL

(* shutdown unmaps the rings and the descriptors only after run returned,  *)
(* and closes the character device after that.                             *)
THEOREM ReleasedAfterUse == Spec => []NoUseAfterRelease
  <1>1. QueueInv => NoUseAfterRelease
    BY DEF QueueInv, Phases, NoUseAfterRelease
  <1> QED
    BY <1>1, QueueInvHolds, PTL

-----------------------------------------------------------------------------
(***************************************************************************)
(* The ring holds what run is about to flush, or what it has flushed.      *)
(***************************************************************************)

(* New and shutdown, the users and the driver's other steps touch neither  *)
(* run nor its submission ring, but for cleanup, which comes after run.    *)
LEMMA OthersLeaveRing ==
    ASSUME QueueInv,
           \/ SendReady \/ Main \/ Owner \/ Users \/ KAddDisk \/ KStop
           \/ \E t \in Tags : KCancelCmd(t) \/ KAbort(t)
    PROVE  UNCHANGED <<pc, sqVars>> \/ pc' = "done"
  <1> USE DEF workerVars, sqVars
  <1>1. CASE SendReady
    BY <1>1 DEF SendReady
  <1>2. CASE Main
    <2>1. CASE Cleanup
      BY <2>1 DEF Cleanup, QueueInv, Phases
    <2> QED
      BY Zenon, <1>2, <2>1 DEF Main, AwaitReady, StartDev, CancelStore, CancelWake, Join,
                        CloseChar, StopDev, DelDev
  <1>3. CASE Owner
    BY <1>3 DEF Owner, Close, StartDevFails
  <1>4. CASE Users
    BY Zenon, <1>4 DEF Users, UserOpen, UserClose, UserGone, KDispatch
  <1>5. CASE KAddDisk \/ KStop \/ \E t \in Tags : KCancelCmd(t) \/ KAbort(t)
    BY Zenon, <1>5 DEF KAddDisk, KStop, KCancelCmd, KAbort
  <1> QED
    BY <1>1, <1>2, <1>3, <1>4, <1>5

(* Every SQE run prepares it flushes before it waits, and an enter that    *)
(* takes whole batches leaves nothing behind (run's inner loop, Submit).   *)
LEMMA AccountedStep ==
    ASSUME QueueInv, Accounted, [Next]_vars
    PROVE  Accounted'
  <1> SUFFICES ASSUME ~ShortSubmits PROVE Accounted'
    BY DEF Accounted
  <1> USE DEF Accounted, sqVars, workerVars
  <1>0. Len(sq) \in Nat /\ unflushed \in Nat /\ want \in Nat /\ got \in Nat
    BY QueueTypes DEF QueueInv, TypeOK
  <1>1. CASE SubmitAndWait
    BY <1>1, <1>0 DEF SubmitAndWait, FlushSQ
  <1>2. CASE Armed \/ Submitted
    BY <1>2, <1>0 DEF Armed, Submitted, EnterReturns, QueueInv, TypeOK
  <1>3. CASE CheckCancelled \/ EpollWait \/ EpollInterrupted \/ LoadCQ
    BY <1>3 DEF CheckCancelled, EpollWait, EpollInterrupted, LoadCQ, QueueInv, Phases
  <1>4. CASE TakeCQE \/ HandleIO
    BY <1>4 DEF TakeCQE, HandleIO, RefuseOrEmpty, BackendRead, BackendUpdate
  <1>5. CASE PrepareCommitAndFetch
    <2>1. pc = "commit" /\ Len(sq) < SQEntries /\ ~SQFull
      BY <1>5, SlotFree DEF PrepareCommitAndFetch, QueueInv
    <2>2. sq' = Append(sq, Commit(cur, result[cur])) /\ unflushed' = 1 + unflushed
      BY <1>5, <1>0, <2>1, QueueAssumption DEF PrepareCommitAndFetch, PushSQE, Fill
    <2>3. Len(sq') = Len(sq) + 1
      BY <2>2 DEF QueueInv, TypeOK
    <2>4. pc' \in {"cqe", "submit"}
      BY <1>5 DEF PrepareCommitAndFetch
    <2> QED
      BY <1>0, <2>1, <2>2, <2>3, <2>4
  <1>6. CASE Submit
    BY <1>6, <1>0 DEF Submit, FlushSQ, QueueInv, TypeOK
  <1>7. CASE KConsume
    <2>1. Len(Tail(sq)) = Len(sq) - 1
      BY <1>7 DEF KConsume, ConsumeSQE, QueueInv, TypeOK
    <2>2. /\ pc' = pc /\ pc \in {"arm", "enter"}
          /\ sq' = Tail(sq) /\ got' = got + 1 /\ want' = want
      BY <1>7 DEF KConsume, ConsumeSQE
    <2> QED
      BY <1>0, <2>1, <2>2
  <1>8. CASE ArmFails \/ SubmitFails
    BY <1>8 DEF ArmFails, SubmitFails
  <1>9. CASE Finished \/ UNCHANGED vars
    BY <1>9 DEF Finished, vars
  <1>10. CASE UNCHANGED <<pc, sqVars>> \/ pc' = "done"
    BY <1>10
  <1> QED
    BY <1>1, <1>2, <1>3, <1>4, <1>5, <1>6, <1>7, <1>8, <1>9, <1>10, OthersLeaveRing
       DEF Next, Worker, WorkerFaults, Kernel

-----------------------------------------------------------------------------
(***************************************************************************)
(* What a request and its buffer hold until the request is handled.        *)
(***************************************************************************)

(* The steps that neither take a request, handle one nor answer one.       *)
LEMMA OthersLeaveRequests ==
    ASSUME [Next]_vars,
           ~HandleIO, ~KConsume,
           \A t \in Tags, d \in Issued : ~KDispatch(t, d),
           \A t \in Tags : ~KCancelCmd(t) /\ ~KAbort(t)
    PROVE  UNCHANGED <<data, kio, result, desc, bufs, rep>>
  <1> USE DEF workerVars, ioVars, storage
  <1>1. CASE Worker \/ WorkerFaults
    BY Zenon, <1>1 DEF Worker, WorkerFaults, SubmitAndWait, Armed, CheckCancelled, LoadCQ,
                EpollWait, TakeCQE, PrepareCommitAndFetch, Submit, Submitted,
                ArmFails, EpollInterrupted, SubmitFails
  <1>2. CASE SendReady \/ Main \/ Owner
    BY Zenon, <1>2 DEF SendReady, Main, AwaitReady, StartDev, CancelStore, CancelWake, Join,
                Cleanup, CloseChar, StopDev, DelDev, Owner, Close, StartDevFails
  <1>3. CASE Users \/ Kernel
    BY <1>3 DEF Users, UserOpen, UserClose, UserGone, Kernel, KAddDisk, KStop
  <1>4. CASE Finished \/ UNCHANGED vars
    BY <1>4 DEF Finished, vars
  <1> QED
    BY <1>1, <1>2, <1>3, <1>4 DEF Next

(* The request run handles is in the server's hands and has no result yet. *)
LEMMA InHandPending ==
    ASSUME QueueInv, pc = "handle"
    PROVE  cur \in Tags /\ kio[cur] = "busy" /\ result[cur] = "none"
  BY DEF QueueInv, TypeOK, TagOwnership, HandFits, InHand

(* What handleIO changes: the result of the request in hand, which is an   *)
(* errno or success, and at most that request's buffer.                    *)
LEMMA HandleChanges ==
    ASSUME QueueInv, HandleIO
    PROVE  /\ pc = "handle"
           /\ \E r \in Results : result' = [result EXCEPT ![cur] = r]
           /\ UNCHANGED <<cur, kio, desc, rep>>
           /\ \A u \in Tags \ {cur} : bufs'[u] = bufs[u]
  <1> USE DEF ioVars, storage, Results
  <1>1. bufs \in [Tags -> Contents] /\ cur \in Tags
    BY DEF QueueInv, TypeOK
  <1>2. CASE RefuseOrEmpty
    BY Zenon, <1>2 DEF RefuseOrEmpty, Verdict
  <1>3. CASE BackendRead
    BY <1>1, <1>3 DEF BackendRead
  <1>4. CASE BackendUpdate
    BY <1>4 DEF BackendUpdate
  <1> QED
    BY <1>2, <1>3, <1>4 DEF HandleIO

(* KDispatch writes the payload of a write that fits into the buffer, and  *)
(* nobody touches the buffer of a request that run has yet to handle.      *)
LEMMA IntactStep ==
    ASSUME QueueInv, RequestsIntact, [Next]_vars
    PROVE  RequestsIntact'
  <1>0. /\ kio \in [Tags -> {"idle", "parked", "busy"}]
        /\ result \in [Tags -> {"none"} \cup Results]
        /\ desc \in [Tags -> Desc] /\ bufs \in [Tags -> Contents]
    BY DEF QueueInv, TypeOK
  <1>1. CASE HandleIO
    <2>1. PICK r \in Results : result' = [result EXCEPT ![cur] = r]
      BY <1>1, HandleChanges
    <2>2. r # "none"
      BY DEF Results
    <2>3. /\ UNCHANGED <<kio, desc>>
          /\ \A u \in Tags \ {cur} : bufs'[u] = bufs[u]
      BY <1>1, HandleChanges
    <2> QED
      BY <1>0, <2>1, <2>2, <2>3 DEF RequestsIntact
  <1>2. CASE KConsume
    <2>1. \E t : /\ kio' = [kio EXCEPT ![t] = "parked"]
                 /\ result' = [result EXCEPT ![t] = "none"]
      BY Zenon, <1>2 DEF KConsume
    <2>2. UNCHANGED <<desc, bufs>>
      BY <1>2 DEF KConsume, storage
    <2> QED
      BY <1>0, <2>1, <2>2 DEF RequestsIntact
  <1>3. ASSUME NEW t \in Tags, NEW d \in Issued, KDispatch(t, d)
        PROVE  RequestsIntact'
    <2>1. /\ kio' = [kio EXCEPT ![t] = "busy"] /\ desc' = [desc EXCEPT ![t] = d]
          /\ result' = result
          /\ bufs' = IF d.op = "write" /\ d.len <= BufLen
                     THEN [bufs EXCEPT ![t] = Over(bufs[t], Extent(d),
                                                   [b \in Blocks |-> d.val])]
                     ELSE bufs
      BY <1>3 DEF KDispatch, workerVars
    <2>2. ASSUME NEW u \in Tags, u # t, kio'[u] = "busy"
          PROVE  kio[u] = "busy" /\ desc'[u] = desc[u] /\ bufs'[u] = bufs[u]
      BY <1>0, <2>1, <2>2
    <2>3. desc'[t] = d
      BY <1>0, <2>1
    <2>4. ASSUME d.op = "write", d.len <= BufLen, NEW b \in Extent(d)
          PROVE  bufs'[t][b] = d.val
      <3>1. bufs'[t] = Over(bufs[t], Extent(d), [c \in Blocks |-> d.val])
        BY <1>0, <2>1, <2>4
      <3>2. b \in Blocks
        BY DEF Extent
      <3> QED
        BY <3>1, <3>2 DEF Over
    <2> QED
      BY <2>1, <2>2, <2>3, <2>4 DEF RequestsIntact
  <1>4. ASSUME NEW t \in Tags, KCancelCmd(t) \/ KAbort(t)
        PROVE  RequestsIntact'
    <2>1. /\ kio' = [kio EXCEPT ![t] = "idle"]
          /\ result' = result \/ result' = [result EXCEPT ![t] = "none"]
          /\ UNCHANGED <<desc, bufs>>
      BY <1>4 DEF KCancelCmd, KAbort, workerVars, storage
    <2> QED
      BY <1>0, <2>1 DEF RequestsIntact
  <1>5. CASE UNCHANGED <<data, kio, result, desc, bufs, rep>>
    BY <1>5 DEF RequestsIntact
  <1> QED
    BY <1>1, <1>2, <1>3, <1>4, <1>5, OthersLeaveRequests

-----------------------------------------------------------------------------
(***************************************************************************)
(* The invariant and what follows from it.                                 *)
(***************************************************************************)

(* In the state New launches the worker in, the ring holds the FETCHes     *)
(* worker.init has prepared, and no request has arrived.                   *)
LEMMA InitService == Init => ServiceInv
  <1> SUFFICES ASSUME Init PROVE ServiceInv
    OBVIOUS
  <1>1. Accounted
    BY DEF Init, Accounted
  <1>2. RequestsIntact
    BY DEF Init, RequestsIntact
  <1> QED
    BY <1>1, <1>2, InitInv DEF ServiceInv

(* Besides the owner of every tag, run keeps account of the ring and the   *)
(* driver's requests and payloads stay what they were until handleIO.      *)
THEOREM ServiceInvHolds == Spec => []ServiceInv
  <1>1. ServiceInv /\ [Next]_vars => ServiceInv'
    BY QueueInvInductive, AccountedStep, IntactStep DEF ServiceInv
  <1> QED
    BY <1>1, InitService, PTL DEF Spec

(* run enters WaitCQE only with every answer it has prepared submitted, so *)
(* it never sleeps while a user waits for one of them (worker.run).        *)
THEOREM NeverSleepsOnAnswers == Spec => []SleepsOnlyWhenFlushed
  <1>1. ServiceInv => SleepsOnlyWhenFlushed
    BY DEF ServiceInv, QueueInv, Phases, Accounted, SleepsOnlyWhenFlushed
  <1> QED
    BY <1>1, ServiceInvHolds, PTL

(* handleIO passes every request within the limits of setParams on to the  *)
(* backend: no refusal, no empty answer and no oversized transfer.         *)
THEOREM ServesEveryRequest == Spec => []NeverRefused
  <1>1. ServiceInv => NeverRefused
    <2> SUFFICES ASSUME ServiceInv, HonourLimits, pc = "handle"
                 PROVE  Verdict(desc[cur]) = "call"
      BY DEF NeverRefused
    <2>1. cur \in Tags /\ kio[cur] = "busy"
      BY InHandPending DEF ServiceInv
    <2>2. desc[cur] \in Issued
      BY <2>1 DEF ServiceInv, RequestsIntact
    <2>3. desc[cur].op \in Advertised /\ desc[cur].len \in 1 .. MaxLen(desc[cur].op)
      BY <2>2 DEF Issued
    <2> QED
      BY <2>3, QueueAssumption DEF Advertised, MaxLen, Verdict
  <1> QED
    BY <1>1, ServiceInvHolds, PTL

-----------------------------------------------------------------------------
(***************************************************************************)
(* The queue implements module BlockDevice: step by step.                  *)
(***************************************************************************)

(* The operators of the two modules are the same.                          *)
LEMMA SameOperators ==
    /\ Device!Blank = Blank /\ Device!Contents = Contents
    /\ \A d : Device!Extent(d) = Extent(d)
    /\ \A f, S, g : Device!Over(f, S, g) = Over(f, S, g)
  BY DEF Device!Blank, Blank, Device!Contents, Contents, Device!Extent, Extent,
         Device!Over, Over

(* Contents laid over themselves, or over no block, change nothing.        *)
LEMMA OverSame ==
    ASSUME NEW f \in Contents, NEW S, NEW g
    PROVE  Over(f, S, f) = f /\ Over(f, {}, g) = f
  BY DEF Over, Contents

(* A step that concerns no request is one the users do not see.            *)
LEMMA Unseen ==
    ASSUME UNCHANGED <<data, kio, result, desc, bufs, rep>>
    PROVE  UNCHANGED Device!vars
  BY DEF Device!vars, Progress, Seen

(* How the users' view changes when handleIO is done with a request: it    *)
(* has taken effect or failed, and a read has seen what is in its buffer.  *)
LEMMA HandleView ==
    ASSUME QueueInv, HandleIO, NEW r \in Results,
           result' = [result EXCEPT ![cur] = r]
    PROVE  /\ Progress[cur] = "pending"
           /\ Progress' = [Progress EXCEPT ![cur] = IF r = "ok" THEN "ok" ELSE "failed"]
           /\ Seen' = IF r = "ok" /\ desc[cur].op = "read"
                      THEN [Seen EXCEPT ![cur] =
                              Over(Blank, Extent(desc[cur]), bufs'[cur])]
                      ELSE Seen
  <1>1. /\ cur \in Tags /\ kio[cur] = "busy" /\ result[cur] = "none"
        /\ UNCHANGED <<kio, desc>> /\ \A u \in Tags \ {cur} : bufs'[u] = bufs[u]
        /\ result \in [Tags -> {"none"} \cup Results]
    BY HandleChanges, InHandPending DEF QueueInv, TypeOK
  <1>2. result'[cur] = r /\ \A u \in Tags \ {cur} : result'[u] = result[u]
    BY <1>1
  <1>3. r # "none"
    BY DEF Results
  <1>4. Progress[cur] = "pending"
    BY <1>1 DEF Progress
  <1>5. Progress' = [Progress EXCEPT ![cur] = IF r = "ok" THEN "ok" ELSE "failed"]
    BY Zenon, <1>1, <1>2, <1>3 DEF Progress
  <1>6. Seen[cur] = Blank
    BY <1>1 DEF Seen
  <1>7. \A u \in Tags \ {cur} : Seen'[u] = Seen[u]
    BY <1>1, <1>2 DEF Seen
  <1>8. Seen'[cur] = IF r = "ok" /\ desc[cur].op = "read"
                     THEN Over(Blank, Extent(desc[cur]), bufs'[cur]) ELSE Blank
    BY <1>1, <1>2 DEF Seen
  <1>9. /\ Seen' = [t \in Tags |-> Seen'[t]] /\ Seen = [t \in Tags |-> Seen[t]]
    BY DEF Seen
  <1> QED
    BY <1>1, <1>4, <1>5, <1>6, <1>7, <1>8, <1>9

(* handleIO takes effect on the storage at one instant, or fails with part *)
(* of its effect.                                                          *)
LEMMA HandleRefines ==
    ASSUME ServiceInv, HandleIO
    PROVE  Device!TakeEffect(cur) \/ Device!Fail(cur)
  <1> DEFINE d == desc[cur]
  <1>0. QueueInv /\ RequestsIntact
    BY DEF ServiceInv
  <1>1. /\ cur \in Tags /\ kio[cur] = "busy" /\ result[cur] = "none"
        /\ UNCHANGED <<desc, rep>> /\ data \in Contents /\ bufs \in [Tags -> Contents]
        /\ Blank \in Contents /\ d \in Desc /\ d \in Issued
    BY Zenon, <1>0, HandleChanges, InHandPending, QueueAssumption
       DEF QueueInv, TypeOK, RequestsIntact, Blank, Contents
  <1>2. /\ data \in Device!Effects(d) \/ Blank \in Device!Effects(d)
           \/ [b \in Blocks |-> d.val] \in Device!Effects(d)
    BY <1>1, SameOperators DEF Device!Effects
  <1>3. PICK new \in Device!Effects(d) : TRUE
    BY <1>2
  <1>4. data = Over(data, {}, new) /\ {} \in SUBSET Extent(d)
    BY <1>1, OverSame
  <1>5. CASE RefuseOrEmpty
    <2>1. data' = data /\ bufs' = bufs /\ Verdict(d) \in Results
          /\ result' = [result EXCEPT ![cur] = Verdict(d)]
      BY <1>5 DEF RefuseOrEmpty, storage, Verdict, Results
    <2>2. CASE Verdict(d) = "ok"
      <3>1. d.len = 0
        BY <2>2 DEF Verdict
      <3>2. Extent(d) = {}
        BY <1>1, <3>1 DEF Extent, Desc, Blocks
      <3>3. Over(Blank, Extent(d), bufs'[cur]) = Blank /\ Over(Blank, Extent(d), data) = Blank
        BY <1>1, <3>2, OverSame
      <3> QED
        BY Zenon, <1>0, <1>1, <1>3, <1>4, <2>1, <2>2, <3>2, <3>3, HandleView, SameOperators
           DEF Device!TakeEffect
    <2>3. CASE Verdict(d) # "ok"
      BY Zenon, <1>0, <1>1, <1>3, <1>4, <2>1, <2>3, HandleView, SameOperators DEF Device!Fail
    <2> QED
      BY <2>2, <2>3
  <1>6. CASE BackendRead
    <2>1. d.op = "read" /\ data' = data
      BY Zenon, <1>6 DEF BackendRead
    <2>2. data \in Device!Effects(d) /\ Over(data, Extent(d), data) = data
      BY <1>1, <2>1, OverSame DEF Device!Effects
    <2>3. CASE /\ bufs' = [bufs EXCEPT ![cur] = Over(@, Extent(d), data)]
               /\ result' = [result EXCEPT ![cur] = "ok"]
      <3>1. bufs'[cur] = Over(bufs[cur], Extent(d), data)
        BY <1>1, <2>3
      <3>2. Over(Blank, Extent(d), bufs'[cur]) = Over(Blank, Extent(d), data)
        BY Zenon, <3>1 DEF Over
      <3> QED
        BY Zenon, <1>0, <1>1, <2>1, <2>2, <2>3, <3>2, HandleView, SameOperators
           DEF Device!TakeEffect, Results
    <2>4. CASE result' = [result EXCEPT ![cur] = "EIO"]
      BY Zenon, <1>0, <1>1, <1>3, <1>4, <2>1, <2>4, HandleView, SameOperators
         DEF Device!Fail, Results
    <2> QED
      BY Zenon, <1>6, <2>3, <2>4 DEF BackendRead
  <1>7. CASE BackendUpdate
    <2>1. d.op \in {"write", "discard", "zeroes"} /\ Verdict(d) = "call"
      BY Zenon, <1>1, <1>7 DEF BackendUpdate, Desc, Ops, Verdict
    <2>2. PICK new2 \in NewContents(cur, d) :
            \/ /\ data' = Over(data, Extent(d), new2)
               /\ result' = [result EXCEPT ![cur] = "ok"]
            \/ /\ \E part \in SUBSET Extent(d) : data' = Over(data, part, new2)
               /\ result' = [result EXCEPT ![cur] = "EIO"]
      BY Zenon, <1>7 DEF BackendUpdate
    <2>3. \E eff \in Device!Effects(d) : \A part \in SUBSET Extent(d) :
             Over(data, part, new2) = Over(data, part, eff)
      <3>1. CASE d.op = "write"
        <4>1. d.len <= BufLen /\ new2 = bufs[cur]
          BY <1>1, <2>1, <3>1, QueueAssumption DEF Verdict, NewContents, Desc
        <4>2. \A b \in Extent(d) : bufs[cur][b] = d.val
          BY <1>0, <1>1, <3>1, <4>1 DEF RequestsIntact
        <4>3. [b \in Blocks |-> d.val] \in Device!Effects(d)
          BY <3>1 DEF Device!Effects
        <4>4. \A part \in SUBSET Extent(d) :
                Over(data, part, new2) = Over(data, part, [b \in Blocks |-> d.val])
          BY <4>1, <4>2 DEF Over
        <4> QED
          BY <4>3, <4>4
      <3>2. CASE d.op \in {"zeroes", "discard"}
        <4>1. new2 \in Device!Effects(d)
          BY <3>2, <2>2, SameOperators DEF NewContents, Device!Effects
        <4> QED
          BY <4>1
      <3> QED
        BY <2>1, <3>1, <3>2
    <2>4. CASE result' = [result EXCEPT ![cur] = "ok"]
      <3>1. data' = Over(data, Extent(d), new2)
        <4>1. result'[cur] = "ok"
          BY <1>0, <1>1, <2>4 DEF QueueInv, TypeOK
        <4>2. result' # [result EXCEPT ![cur] = "EIO"]
          BY <1>0, <1>1, <4>1 DEF QueueInv, TypeOK
        <4> QED
          BY <2>2, <4>2
      <3>2. \E eff \in Device!Effects(d) : data' = Over(data, Extent(d), eff)
        BY <2>3, <3>1
      <3> QED
        BY Zenon, <1>0, <1>1, <2>1, <2>4, <3>2, HandleView, SameOperators
           DEF Device!TakeEffect, Results
    <2>5. CASE /\ \E part \in SUBSET Extent(d) : data' = Over(data, part, new2)
               /\ result' = [result EXCEPT ![cur] = "EIO"]
      <3>1. \E eff \in Device!Effects(d), part \in SUBSET Extent(d) :
               data' = Over(data, part, eff)
        BY <2>3, <2>5
      <3> QED
        BY Zenon, <1>0, <1>1, <2>1, <2>5, <3>1, HandleView, SameOperators
           DEF Device!Fail, Results
    <2> QED
      BY <2>2, <2>4, <2>5
  <1> QED
    BY <1>5, <1>6, <1>7 DEF HandleIO

(* A command that moves between the rings and the driver with no request   *)
(* attached is invisible.                                                  *)
LEMMA IdleMoves ==
    ASSUME QueueInv, NEW t \in Tags, NEW s \in {"idle", "parked"},
           kio[t] # "busy", kio' = [kio EXCEPT ![t] = s],
           result' = result \/ result' = [result EXCEPT ![t] = "none"],
           UNCHANGED <<data, desc, bufs, rep>>
    PROVE  UNCHANGED Device!vars
  <1>1. kio \in [Tags -> {"idle", "parked", "busy"}] /\ result[t] = "none"
    BY DEF QueueInv, TypeOK, Phases
  <1>2. result' = result
    BY <1>1 DEF QueueInv, TypeOK
  <1>3. \A u \in Tags : kio'[u] = "busy" <=> kio[u] = "busy"
    BY <1>1
  <1> QED
    BY Zenon, <1>2, <1>3 DEF Device!vars, Progress, Seen

(* How the users' view changes when the driver is done with a request.     *)
LEMMA DoneView ==
    ASSUME QueueInv, NEW t \in Tags, NEW s \in {"idle", "parked"},
           kio[t] = "busy", kio' = [kio EXCEPT ![t] = s],
           result' = [result EXCEPT ![t] = "none"], UNCHANGED <<data, desc, bufs>>
    PROVE  /\ Progress' = [Progress EXCEPT ![t] = "idle"]
           /\ Seen' = [Seen EXCEPT ![t] = Blank]
           /\ UNCHANGED <<data, desc>>
  <1>1. /\ kio \in [Tags -> {"idle", "parked", "busy"}]
        /\ result \in [Tags -> {"none"} \cup Results]
    BY DEF QueueInv, TypeOK
  <1>2. /\ kio'[t] # "busy"
        /\ \A u \in Tags \ {t} : kio'[u] = kio[u] /\ result'[u] = result[u]
    BY <1>1
  <1>3. Progress' = [Progress EXCEPT ![t] = "idle"]
    BY Zenon, <1>2 DEF Progress
  <1>4. Seen' = [Seen EXCEPT ![t] = Blank]
    BY Zenon, <1>2 DEF Seen
  <1> QED
    BY <1>3, <1>4

(* An SQE is consumed: a COMMIT answers its request with the result        *)
(* handleIO returned, a FETCH concerns no request.                         *)
LEMMA ConsumeRefines ==
    ASSUME ServiceInv, KConsume
    PROVE  \/ UNCHANGED Device!vars
           \/ \E t \in Tags : Device!AnswerOK(t) \/ Device!AnswerError(t)
  <1> DEFINE e == sq[1]
  <1>0. QueueInv
    BY DEF ServiceInv
  <1>1. sq # <<>> /\ sq \in Seq(SQE)
    BY Zenon, <1>0 DEF KConsume, ConsumeSQE, QueueInv, TypeOK
  <1>2. 1 \in DOMAIN sq /\ Head(sq) = e /\ e \in SQE
    BY <1>1
  <1>3. e.tag \in Tags /\ e.res \in Results /\ e.cmd \in {"FETCH", "COMMIT"}
    BY <1>2 DEF SQE
  <1>4. /\ kio' = [kio EXCEPT ![e.tag] = "parked"]
        /\ rep' = IF e.cmd = "FETCH" THEN rep ELSE Answer(e.tag, e.res)
        /\ result' = [result EXCEPT ![e.tag] = "none"]
        /\ UNCHANGED <<desc, data, bufs>>
    BY <1>2 DEF KConsume, storage
  <1>5. IF e.cmd = "FETCH" THEN kio[e.tag] = "idle"
        ELSE kio[e.tag] = "busy" /\ result[e.tag] = e.res
    BY <1>0, <1>2 DEF QueueInv, TagOwnership, SQEsFit
  <1> HIDE DEF e
  <1>6. CASE e.cmd = "FETCH"
    BY Zenon, <1>0, <1>3, <1>4, <1>5, <1>6, IdleMoves
  <1>7. CASE e.cmd = "COMMIT"
    <2>1. /\ Progress' = [Progress EXCEPT ![e.tag] = "idle"]
          /\ Seen' = [Seen EXCEPT ![e.tag] = Blank]
          /\ UNCHANGED <<data, desc>>
      BY Zenon, <1>0, <1>3, <1>4, <1>5, <1>7, DoneView
    <2>2. kio[e.tag] = "busy" /\ result[e.tag] = e.res /\ rep' = Answer(e.tag, e.res)
      BY <1>4, <1>5, <1>7
    <2>3. CASE e.res = "ok"
      <3>1. Progress[e.tag] = "ok"
        BY <1>3, <2>2, <2>3 DEF Progress
      <3>2. rep' = [tag |-> e.tag, st |-> "ok",
                    val |-> IF desc[e.tag].op = "read" THEN Seen[e.tag] ELSE Blank]
        BY Zenon, <1>3, <2>2, <2>3 DEF Answer, Seen
      <3> QED
        BY Zenon, <1>3, <2>1, <3>1, <3>2, SameOperators DEF Device!AnswerOK
    <2>4. CASE e.res # "ok"
      <3>1. Progress[e.tag] # "idle"
        BY <1>3, <2>2, <2>4 DEF Progress
      <3>2. e.res \in {"EIO", "EOPNOTSUPP"}
        BY <1>3, <2>4 DEF Results
      <3>3. rep' = [tag |-> e.tag, st |-> e.res, val |-> Blank]
        BY Zenon, <2>2, <2>4 DEF Answer
      <3> QED
        BY Zenon, <1>3, <2>1, <3>1, <3>2, <3>3, SameOperators DEF Device!AnswerError
    <2> QED
      BY <1>3, <2>3, <2>4
  <1> QED
    BY <1>3, <1>6, <1>7

(* A user's request arrives.                                               *)
LEMMA DispatchRefines ==
    ASSUME ServiceInv, NEW t \in Tags, NEW d \in Issued, KDispatch(t, d)
    PROVE  Device!Issue(t)
  <1>1. /\ kio[t] = "parked" /\ kio' = [kio EXCEPT ![t] = "busy"]
        /\ desc' = [desc EXCEPT ![t] = d]
        /\ UNCHANGED <<data, result, rep>>
    BY DEF KDispatch, workerVars
  <1>2. /\ kio \in [Tags -> {"idle", "parked", "busy"}]
        /\ desc \in [Tags -> Desc] /\ bufs \in [Tags -> Contents]
        /\ result[t] = "none"
    BY <1>1 DEF ServiceInv, QueueInv, TypeOK, Phases
  <1>3. \A u \in Tags \ {t} : /\ kio'[u] = kio[u] /\ desc'[u] = desc[u]
                              /\ bufs'[u] = bufs[u]
    BY <1>1, <1>2 DEF KDispatch
  <1>4. kio'[t] = "busy"
    BY <1>1, <1>2
  <1>5. Progress[t] = "idle" /\ Progress' = [Progress EXCEPT ![t] = "pending"]
    BY Zenon, <1>1, <1>2, <1>3, <1>4 DEF Progress
  <1>6. Seen' = Seen
    BY Zenon, <1>1, <1>2, <1>3, <1>4 DEF Seen
  <1> QED
    BY <1>1, <1>3, <1>5, <1>6 DEF Device!Issue

(* The character device is closed: the driver fails a request the server   *)
(* never answered, whatever handleIO did with it.                          *)
LEMMA AbortRefines ==
    ASSUME ServiceInv, NEW t \in Tags, KAbort(t)
    PROVE  Device!AnswerError(t)
  <1>0. QueueInv
    BY DEF ServiceInv
  <1>1. /\ kio[t] = "busy" /\ kio' = [kio EXCEPT ![t] = "idle"]
        /\ rep' = Answer(t, "EIO") /\ result' = [result EXCEPT ![t] = "none"]
        /\ UNCHANGED <<desc, data, bufs>>
    BY DEF KAbort, storage
  <1>2. /\ Progress' = [Progress EXCEPT ![t] = "idle"]
        /\ Seen' = [Seen EXCEPT ![t] = Blank]
    BY Zenon, <1>0, <1>1, DoneView
  <1>3. Progress[t] # "idle"
    BY <1>1 DEF Progress
  <1>4. rep' = [tag |-> t, st |-> "EIO", val |-> Blank]
    BY Zenon, <1>1 DEF Answer
  <1> QED
    BY <1>1, <1>2, <1>3, <1>4, SameOperators DEF Device!AnswerError

(* Every step of the system is a step of the block device, or invisible.   *)
LEMMA StepRefines ==
    ASSUME ServiceInv, [Next]_vars
    PROVE  [Device!Next]_(Device!vars)
  <1>0. QueueInv
    BY DEF ServiceInv
  <1>1. CASE HandleIO
    <2>1. cur \in Tags
      BY <1>0 DEF QueueInv, TypeOK
    <2> QED
      BY <1>1, <2>1, HandleRefines DEF Device!Next
  <1>2. CASE KConsume
    BY <1>2, ConsumeRefines DEF Device!Next
  <1>3. ASSUME NEW t \in Tags, NEW d \in Issued, KDispatch(t, d)
        PROVE  [Device!Next]_(Device!vars)
    BY <1>3, DispatchRefines DEF Device!Next
  <1>4. ASSUME NEW t \in Tags, KCancelCmd(t)
        PROVE  [Device!Next]_(Device!vars)
    <2>1. /\ kio[t] = "parked" /\ kio' = [kio EXCEPT ![t] = "idle"]
          /\ UNCHANGED <<data, result, desc, bufs, rep>>
      BY <1>4 DEF KCancelCmd, workerVars, storage
    <2> QED
      BY Zenon, <1>0, <2>1, IdleMoves
  <1>5. ASSUME NEW t \in Tags, KAbort(t)
        PROVE  [Device!Next]_(Device!vars)
    BY <1>5, AbortRefines DEF Device!Next
  <1>6. CASE UNCHANGED <<data, kio, result, desc, bufs, rep>>
    BY <1>6, Unseen
  <1> QED
    BY <1>1, <1>2, <1>3, <1>4, <1>5, <1>6, OthersLeaveRequests

(* Whatever the depth, the size of the device, the backend's errors, the   *)
(* faults of the rings and the moment of Close, the users of the device    *)
(* get a linearizable block device: run answers a request with success     *)
(* only after its whole effect, and a read with what the backend held at   *)
(* one instant (worker.run, handleIO, shutdown).                           *)
THEOREM QueueIsLinearizable == Spec => Linearizable
  <1>1. Init => Device!Init
    <2> SUFFICES ASSUME Init PROVE Device!Init
      OBVIOUS
    <2>1. data = Blank /\ rep.st = "none" /\ \A t \in Tags : kio[t] = "idle"
      BY DEF Init
    <2>2. Progress = [t \in Tags |-> "idle"] /\ Seen = [t \in Tags |-> Blank]
      BY Zenon, <2>1 DEF Progress, Seen
    <2> QED
      BY <2>1, <2>2, SameOperators DEF Device!Init
  <1>2. ServiceInv /\ [Next]_vars => [Device!Next]_(Device!vars)
    BY StepRefines
  <1> QED
    BY <1>1, <1>2, ServiceInvHolds, PTL DEF Spec, Linearizable, Device!Spec
=============================================================================
