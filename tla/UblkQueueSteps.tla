--------------------------- MODULE UblkQueueSteps ---------------------------
(***************************************************************************)
(* Every step of UblkQueue preserves QueueInv: lemmas about queues of      *)
(* tagged entries, the steps that move no tag, and those that do, which    *)
(* are the ones of run, prepareCommitAndFetch provided that it finds room  *)
(* in the ring, those of the driver, and the end of the ring.  That there  *)
(* is room is a matter of counting tags, which UblkQueueProofs adds.       *)
(***************************************************************************)
EXTENDS UblkQueue, TLAPS

-----------------------------------------------------------------------------
(***************************************************************************)
(* Queues.                                                                 *)
(***************************************************************************)

(* What is left of a queue when its oldest element is taken.               *)
LEMMA TailFacts ==
    ASSUME NEW S, NEW s \in Seq(S), s # <<>>
    PROVE  /\ Len(s) \in Nat \ {0} /\ DOMAIN s = 1 .. Len(s)
           /\ Head(s) = s[1] /\ Head(s) \in S
           /\ Tail(s) \in Seq(S) /\ Len(Tail(s)) = Len(s) - 1
           /\ DOMAIN Tail(s) = 1 .. (Len(s) - 1)
           /\ \A i \in DOMAIN Tail(s) : Tail(s)[i] = s[i + 1] /\ i + 1 \in DOMAIN s
  <1>1. Len(s) \in Nat \ {0} /\ DOMAIN s = 1 .. Len(s)
    OBVIOUS
  <1>2. Head(s) = s[1] /\ Head(s) \in S
    OBVIOUS
  <1>3. Tail(s) \in Seq(S) /\ Len(Tail(s)) = Len(s) - 1
    OBVIOUS
  <1>4. DOMAIN Tail(s) = 1 .. (Len(s) - 1)
    BY <1>3
  <1>5. \A i \in 1 .. (Len(s) - 1) : Tail(s)[i] = s[i + 1] /\ i + 1 \in 1 .. Len(s)
    OBVIOUS
  <1> QED
    BY <1>1, <1>2, <1>3, <1>4, <1>5

(* What a queue holds after an element has joined it.                      *)
LEMMA AppendFacts ==
    ASSUME NEW S, NEW s \in Seq(S), NEW e \in S
    PROVE  /\ Len(s) \in Nat /\ DOMAIN s = 1 .. Len(s)
           /\ Append(s, e) \in Seq(S) /\ Len(Append(s, e)) = Len(s) + 1
           /\ DOMAIN Append(s, e) = 1 .. (Len(s) + 1)
           /\ \A i \in DOMAIN s : Append(s, e)[i] = s[i]
           /\ Append(s, e)[Len(s) + 1] = e
           /\ Append(s, e) # <<>>
  <1>1. Len(s) \in Nat /\ DOMAIN s = 1 .. Len(s)
    OBVIOUS
  <1>2. Append(s, e) \in Seq(S) /\ Len(Append(s, e)) = Len(s) + 1
    OBVIOUS
  <1>3. DOMAIN Append(s, e) = 1 .. (Len(s) + 1)
    BY <1>2
  <1>4. \A i \in 1 .. Len(s) : Append(s, e)[i] = s[i]
    OBVIOUS
  <1>5. Append(s, e)[Len(s) + 1] = e /\ Append(s, e) # <<>>
    BY <1>1, <1>2
  <1> QED
    BY <1>1, <1>2, <1>3, <1>4, <1>5

(* Taking the oldest entry takes its tag out of the queue.                 *)
LEMMA TailTags ==
    ASSUME NEW S, NEW s \in Seq(S), s # <<>>, Once(s)
    PROVE  /\ Once(Tail(s))
           /\ TagsIn(Tail(s)) = TagsIn(s) \ {s[1].tag}
           /\ s[1].tag \in TagsIn(s)
  <1> DEFINE q == Tail(s)
  <1>1. /\ 1 \in DOMAIN s
        /\ \A i \in DOMAIN q : i + 1 \in DOMAIN s /\ i + 1 # 1 /\ q[i] = s[i + 1]
        /\ \A i \in DOMAIN s : i # 1 => i - 1 \in DOMAIN q /\ q[i - 1] = s[i]
    BY TailFacts
  <1>2. \A i, j \in DOMAIN q : i + 1 = j + 1 => i = j
    BY TailFacts
  <1> HIDE DEF q
  <1>3. Once(q)
    BY <1>1, <1>2 DEF Once
  <1>4. TagsIn(q) \subseteq TagsIn(s) \ {s[1].tag}
    BY <1>1 DEF Once, TagsIn
  <1>5. TagsIn(s) \ {s[1].tag} \subseteq TagsIn(q)
    BY <1>1 DEF TagsIn
  <1> QED
    <2>1. s[1].tag \in TagsIn(s)
      BY <1>1 DEF TagsIn
    <2> QED
      BY <1>3, <1>4, <1>5, <2>1, Zenon DEF q

(* An entry with a new tag adds that tag to the queue.                     *)
LEMMA AppendTags ==
    ASSUME NEW S, NEW s \in Seq(S), NEW e \in S, Once(s), e.tag \notin TagsIn(s)
    PROVE  /\ Once(Append(s, e))
           /\ TagsIn(Append(s, e)) = TagsIn(s) \cup {e.tag}
  <1> DEFINE q == Append(s, e)
  <1>1. /\ \A i \in DOMAIN s : i \in DOMAIN q /\ q[i] = s[i]
        /\ \A i \in DOMAIN q : i \in DOMAIN s \/ (i = Len(s) + 1 /\ q[i] = e)
        /\ Len(s) + 1 \in DOMAIN q /\ q[Len(s) + 1] = e
    BY AppendFacts
  <1> HIDE DEF q
  <1>2. Once(q)
    BY <1>1 DEF Once, TagsIn
  <1>3. TagsIn(q) = TagsIn(s) \cup {e.tag}
    BY <1>1 DEF TagsIn
  <1> QED
    BY <1>2, <1>3 DEF q

(* Contents laid over other contents are contents.                         *)
LEMMA OverType ==
    ASSUME NEW f \in Contents, NEW g \in Contents, NEW S
    PROVE  Over(f, S, g) \in Contents
  BY DEF Over, Contents

(* The entries of the two rings are of the right type.                     *)
LEMMA QueueTypes ==
    ASSUME TypeOK
    PROVE  /\ Len(sq) \in Nat /\ DOMAIN sq = 1 .. Len(sq)
           /\ \A i \in DOMAIN sq : sq[i] \in SQE /\ sq[i].tag \in Tags
           /\ Len(cq) \in Nat /\ DOMAIN cq = 1 .. Len(cq)
           /\ \A i \in DOMAIN cq : cq[i] \in CQE /\ cq[i].tag \in Tags
  <1>1. sq \in Seq(SQE) /\ cq \in Seq(CQE)
    BY DEF TypeOK
  <1>2. /\ Len(sq) \in Nat /\ DOMAIN sq = 1 .. Len(sq)
        /\ Len(cq) \in Nat /\ DOMAIN cq = 1 .. Len(cq)
    BY <1>1
  <1>3. \A i \in DOMAIN sq : sq[i] \in SQE
    BY <1>1
  <1>4. \A i \in DOMAIN cq : cq[i] \in CQE
    BY <1>1
  <1>5. \A e \in SQE : e.tag \in Tags
    BY DEF SQE
  <1>6. \A e \in CQE : e.tag \in Tags
    BY DEF CQE
  <1> QED
    BY <1>2, <1>3, <1>4, <1>5, <1>6

-----------------------------------------------------------------------------
(***************************************************************************)
(* Steps that move no tag.                                                 *)
(***************************************************************************)

(* A step that leaves the rings, the driver's and run's tags alone keeps   *)
(* the owners of all tags.                                                 *)
LEMMA QuietStep ==
    ASSUME QueueInv, UNCHANGED <<sq, cq, kio, result, cur>>,
           \/ pc' = pc
           \/ pc \notin {"handle", "commit"} /\ pc' \notin {"handle", "commit"},
           ringOpen' => ringOpen
    PROVE  TagOwnership' /\ NoRequestForgotten'
  <1>1. \A t : InHand(t)' <=> InHand(t)
    BY DEF InHand
  <1>2. TagsIn(sq)' = TagsIn(sq) /\ TagsIn(cq)' = TagsIn(cq)
    BY DEF TagsIn
  <1>3. /\ pc' = "handle" => pc = "handle"
        /\ pc' = "commit" => pc = "commit"
    OBVIOUS
  <1>4. TagOwnership'
    <2>1. Once(sq)' /\ Once(cq)'
      BY DEF QueueInv, TagOwnership, Once
    <2>2. Apart'
      BY <1>1, <1>2 DEF QueueInv, TagOwnership, Apart
    <2>3. SQEsFit' /\ CQEsFit'
      BY DEF QueueInv, TagOwnership, SQEsFit, CQEsFit
    <2>4. HandFits'
      BY <1>1, <1>3 DEF QueueInv, TagOwnership, HandFits
    <2> QED
      BY <2>1, <2>2, <2>3, <2>4 DEF TagOwnership
  <1>5. NoRequestForgotten'
    BY <1>1, <1>2 DEF QueueInv, NoRequestForgotten
  <1> QED
    BY <1>4, <1>5

(* run entering and leaving io_uring_enter and waiting for a CQE.          *)
LEMMA WorkerQuietSteps ==
    ASSUME QueueInv,
           \/ SubmitAndWait \/ Armed \/ ArmFails \/ CheckCancelled
           \/ LoadCQ \/ EpollWait \/ EpollInterrupted \/ Submit
           \/ Submitted \/ SubmitFails
    PROVE  QueueInv'
  <1> USE DEF workerVars, sqVars, cancelVars, mainVars, handles, ioVars, diskVars,
             storage
  <1>1. CASE SubmitAndWait
    <2>1. TypeOK'
      BY <1>1 DEF SubmitAndWait, FlushSQ, QueueInv, TypeOK
    <2>2. Phases'
      BY <1>1 DEF SubmitAndWait, FlushSQ, QueueInv, TypeOK, Phases
    <2>3. TagOwnership' /\ NoRequestForgotten'
      BY <1>1, QuietStep DEF SubmitAndWait, FlushSQ
    <2> QED
      BY <2>1, <2>2, <2>3 DEF QueueInv
  <1>2. CASE Armed
    <2>1. TypeOK'
      BY <1>2 DEF Armed, EnterReturns, QueueInv, TypeOK
    <2>2. Phases'
      BY <1>2 DEF Armed, EnterReturns, QueueInv, TypeOK, Phases
    <2>3. TagOwnership' /\ NoRequestForgotten'
      BY <1>2, QuietStep DEF Armed, EnterReturns
    <2> QED
      BY <2>1, <2>2, <2>3 DEF QueueInv
  <1>3. CASE ArmFails
    <2>1. TypeOK'
      BY <1>3 DEF ArmFails, EnterReturns, QueueInv, TypeOK
    <2>2. Phases'
      BY <1>3 DEF ArmFails, EnterReturns, QueueInv, TypeOK, Phases
    <2>3. TagOwnership' /\ NoRequestForgotten'
      BY <1>3, QuietStep DEF ArmFails, EnterReturns
    <2> QED
      BY <2>1, <2>2, <2>3 DEF QueueInv
  <1>4. CASE CheckCancelled
    <2>1. TypeOK'
      BY <1>4 DEF CheckCancelled, QueueInv, TypeOK
    <2>2. Phases'
      BY <1>4 DEF CheckCancelled, QueueInv, TypeOK, Phases
    <2>3. TagOwnership' /\ NoRequestForgotten'
      BY <1>4, QuietStep DEF CheckCancelled
    <2> QED
      BY <2>1, <2>2, <2>3 DEF QueueInv
  <1>5. CASE LoadCQ
    <2>1. TypeOK'
      BY <1>5 DEF LoadCQ, QueueInv, TypeOK
    <2>2. Phases'
      BY <1>5 DEF LoadCQ, QueueInv, TypeOK, Phases
    <2>3. TagOwnership' /\ NoRequestForgotten'
      BY <1>5, QuietStep DEF LoadCQ
    <2> QED
      BY <2>1, <2>2, <2>3 DEF QueueInv
  <1>6. CASE EpollWait
    <2>1. TypeOK'
      BY <1>6 DEF EpollWait, QueueInv, TypeOK
    <2>2. Phases'
      BY <1>6 DEF EpollWait, QueueInv, TypeOK, Phases
    <2>3. TagOwnership' /\ NoRequestForgotten'
      BY <1>6, QuietStep DEF EpollWait
    <2> QED
      BY <2>1, <2>2, <2>3 DEF QueueInv
  <1>7. CASE EpollInterrupted
    <2>1. TypeOK'
      BY <1>7 DEF EpollInterrupted, QueueInv, TypeOK
    <2>2. Phases'
      BY <1>7 DEF EpollInterrupted, QueueInv, TypeOK, Phases
    <2>3. TagOwnership' /\ NoRequestForgotten'
      BY <1>7, QuietStep DEF EpollInterrupted
    <2> QED
      BY <2>1, <2>2, <2>3 DEF QueueInv
  <1>8. CASE Submit
    <2>1. TypeOK'
      BY <1>8 DEF Submit, FlushSQ, QueueInv, TypeOK
    <2>2. Phases'
      BY <1>8 DEF Submit, FlushSQ, QueueInv, TypeOK, Phases
    <2>3. TagOwnership' /\ NoRequestForgotten'
      BY <1>8, QuietStep DEF Submit, FlushSQ
    <2> QED
      BY <2>1, <2>2, <2>3 DEF QueueInv
  <1>9. CASE Submitted
    <2>1. TypeOK'
      BY <1>9 DEF Submitted, EnterReturns, QueueInv, TypeOK
    <2>2. Phases'
      BY <1>9 DEF Submitted, EnterReturns, QueueInv, TypeOK, Phases
    <2>3. TagOwnership' /\ NoRequestForgotten'
      BY <1>9, QuietStep DEF Submitted, EnterReturns
    <2> QED
      BY <2>1, <2>2, <2>3 DEF QueueInv
  <1>10. CASE SubmitFails
    <2>1. TypeOK'
      BY <1>10 DEF SubmitFails, EnterReturns, QueueInv, TypeOK
    <2>2. Phases'
      BY <1>10 DEF SubmitFails, EnterReturns, QueueInv, TypeOK, Phases
    <2>3. TagOwnership' /\ NoRequestForgotten'
      BY <1>10, QuietStep DEF SubmitFails, EnterReturns
    <2> QED
      BY <2>1, <2>2, <2>3 DEF QueueInv
  <1> QED
    BY <1>1, <1>2, <1>3, <1>4, <1>5, <1>6, <1>7, <1>8, <1>9, <1>10

(* New and shutdown.                                                       *)
LEMMA MainQuietSteps ==
    ASSUME QueueInv,
           \/ SendReady \/ AwaitReady \/ StartDev \/ StartDevFails
           \/ Close \/ CancelStore \/ CancelWake \/ Join
           \/ CloseChar \/ StopDev \/ DelDev
    PROVE  QueueInv'
  <1> USE DEF workerVars, sqVars, cancelVars, mainVars, handles, ioVars, diskVars,
             storage
  <1>1. CASE SendReady
    <2>1. TypeOK'
      BY <1>1 DEF SendReady, QueueInv, TypeOK
    <2>2. Phases'
      BY <1>1 DEF SendReady, QueueInv, TypeOK, Phases
    <2>3. TagOwnership' /\ NoRequestForgotten'
      BY <1>1, QuietStep DEF SendReady
    <2> QED
      BY <2>1, <2>2, <2>3 DEF QueueInv
  <1>2. CASE AwaitReady
    <2>1. TypeOK'
      BY <1>2 DEF AwaitReady, QueueInv, TypeOK
    <2>2. Phases'
      BY <1>2 DEF AwaitReady, QueueInv, TypeOK, Phases
    <2>3. TagOwnership' /\ NoRequestForgotten'
      BY <1>2, QuietStep DEF AwaitReady
    <2> QED
      BY <2>1, <2>2, <2>3 DEF QueueInv
  <1>3. CASE StartDev
    <2>1. TypeOK'
      BY <1>3 DEF StartDev, QueueInv, TypeOK
    <2>2. Phases'
      BY <1>3 DEF StartDev, QueueInv, TypeOK, Phases
    <2>3. TagOwnership' /\ NoRequestForgotten'
      BY <1>3, QuietStep DEF StartDev
    <2> QED
      BY <2>1, <2>2, <2>3 DEF QueueInv
  <1>4. CASE StartDevFails
    <2>1. TypeOK'
      BY <1>4 DEF StartDevFails, QueueInv, TypeOK
    <2>2. Phases'
      BY <1>4 DEF StartDevFails, QueueInv, TypeOK, Phases
    <2>3. TagOwnership' /\ NoRequestForgotten'
      BY <1>4, QuietStep DEF StartDevFails
    <2> QED
      BY <2>1, <2>2, <2>3 DEF QueueInv
  <1>5. CASE Close
    <2>1. TypeOK'
      BY <1>5 DEF Close, QueueInv, TypeOK
    <2>2. Phases'
      BY <1>5 DEF Close, QueueInv, TypeOK, Phases
    <2>3. TagOwnership' /\ NoRequestForgotten'
      BY <1>5, QuietStep DEF Close
    <2> QED
      BY <2>1, <2>2, <2>3 DEF QueueInv
  <1>6. CASE CancelStore
    <2>1. TypeOK'
      BY <1>6 DEF CancelStore, QueueInv, TypeOK
    <2>2. Phases'
      BY <1>6 DEF CancelStore, QueueInv, TypeOK, Phases
    <2>3. TagOwnership' /\ NoRequestForgotten'
      BY <1>6, QuietStep DEF CancelStore
    <2> QED
      BY <2>1, <2>2, <2>3 DEF QueueInv
  <1>7. CASE CancelWake
    <2>1. TypeOK'
      BY <1>7 DEF CancelWake, QueueInv, TypeOK
    <2>2. Phases'
      BY <1>7 DEF CancelWake, QueueInv, TypeOK, Phases
    <2>3. TagOwnership' /\ NoRequestForgotten'
      BY <1>7, QuietStep DEF CancelWake
    <2> QED
      BY <2>1, <2>2, <2>3 DEF QueueInv
  <1>8. CASE Join
    <2>1. TypeOK'
      BY <1>8 DEF Join, QueueInv, TypeOK
    <2>2. Phases'
      BY <1>8 DEF Join, QueueInv, TypeOK, Phases
    <2>3. TagOwnership' /\ NoRequestForgotten'
      BY <1>8, QuietStep DEF Join
    <2> QED
      BY <2>1, <2>2, <2>3 DEF QueueInv
  <1>9. CASE CloseChar
    <2>1. TypeOK'
      <3>1. charOpen' \in BOOLEAN /\ dev' = "stop"
        BY <1>9, Zenon DEF CloseChar
      <3>2. UNCHANGED <<workerVars, sqVars, cq, cancelVars, ready, ringOpen,
                        ioVars, diskVars, storage>>
        BY <1>9 DEF CloseChar
      <3> QED
        BY <3>1, <3>2 DEF QueueInv, TypeOK
    <2>2. Phases'
      BY <1>9 DEF CloseChar, QueueInv, TypeOK, Phases
    <2>3. TagOwnership' /\ NoRequestForgotten'
      BY <1>9, QuietStep DEF CloseChar
    <2> QED
      BY <2>1, <2>2, <2>3 DEF QueueInv
  <1>10. CASE StopDev
    <2>1. TypeOK'
      BY <1>10 DEF StopDev, QueueInv, TypeOK
    <2>2. Phases'
      BY <1>10 DEF StopDev, QueueInv, TypeOK, Phases
    <2>3. TagOwnership' /\ NoRequestForgotten'
      BY <1>10, QuietStep DEF StopDev
    <2> QED
      BY <2>1, <2>2, <2>3 DEF QueueInv
  <1>11. CASE DelDev
    <2>1. TypeOK'
      BY <1>11 DEF DelDev, QueueInv, TypeOK
    <2>2. Phases'
      BY <1>11 DEF DelDev, QueueInv, TypeOK, Phases
    <2>3. TagOwnership' /\ NoRequestForgotten'
      BY <1>11, QuietStep DEF DelDev
    <2> QED
      BY <2>1, <2>2, <2>3 DEF QueueInv
  <1> QED
    BY <1>1, <1>2, <1>3, <1>4, <1>5, <1>6, <1>7, <1>8, <1>9, <1>10, <1>11

(* The disk and its users.                                                 *)
LEMMA OutsideQuietSteps ==
    ASSUME QueueInv,
           \/ KAddDisk \/ KStop \/ UserOpen \/ UserClose
           \/ UserGone
    PROVE  QueueInv'
  <1> USE DEF workerVars, sqVars, cancelVars, mainVars, handles, ioVars, diskVars,
             storage
  <1>1. CASE KAddDisk
    <2>1. TypeOK'
      BY <1>1 DEF KAddDisk, QueueInv, TypeOK
    <2>2. Phases'
      BY <1>1 DEF KAddDisk, QueueInv, TypeOK, Phases
    <2>3. TagOwnership' /\ NoRequestForgotten'
      BY <1>1, QuietStep DEF KAddDisk
    <2> QED
      BY <2>1, <2>2, <2>3 DEF QueueInv
  <1>2. CASE KStop
    <2>1. TypeOK'
      BY <1>2 DEF KStop, QueueInv, TypeOK
    <2>2. Phases'
      BY <1>2 DEF KStop, QueueInv, TypeOK, Phases
    <2>3. TagOwnership' /\ NoRequestForgotten'
      BY <1>2, QuietStep DEF KStop
    <2> QED
      BY <2>1, <2>2, <2>3 DEF QueueInv
  <1>3. CASE UserOpen
    <2>1. TypeOK'
      BY <1>3 DEF UserOpen, QueueInv, TypeOK
    <2>2. Phases'
      BY <1>3 DEF UserOpen, QueueInv, TypeOK, Phases
    <2>3. TagOwnership' /\ NoRequestForgotten'
      BY <1>3, QuietStep DEF UserOpen
    <2> QED
      BY <2>1, <2>2, <2>3 DEF QueueInv
  <1>4. CASE UserClose
    <2>1. TypeOK'
      BY <1>4 DEF UserClose, QueueInv, TypeOK
    <2>2. Phases'
      BY <1>4 DEF UserClose, QueueInv, TypeOK, Phases
    <2>3. TagOwnership' /\ NoRequestForgotten'
      BY <1>4, QuietStep DEF UserClose
    <2> QED
      BY <2>1, <2>2, <2>3 DEF QueueInv
  <1>5. CASE UserGone
    <2>1. TypeOK'
      BY <1>5 DEF UserGone, QueueInv, TypeOK
    <2>2. Phases'
      BY <1>5 DEF UserGone, QueueInv, TypeOK, Phases
    <2>3. TagOwnership' /\ NoRequestForgotten'
      BY <1>5, QuietStep DEF UserGone
    <2> QED
      BY <2>1, <2>2, <2>3 DEF QueueInv
  <1> QED
    BY <1>1, <1>2, <1>3, <1>4, <1>5

-----------------------------------------------------------------------------
(***************************************************************************)
(* The steps that move a tag.                                              *)
(***************************************************************************)

(* TakeCQE: the tag of the oldest CQE goes from the ring to run's hands,   *)
(* or, with an aborted command, to nobody.                                 *)
LEMMA TakeCQEStep == QueueInv /\ TakeCQE => QueueInv'
  <1> SUFFICES ASSUME QueueInv, TakeCQE PROVE QueueInv'
    OBVIOUS
  <1> USE DEF workerVars, sqVars, cancelVars, mainVars, handles, ioVars, diskVars,
             storage
  <1>0. TypeOK /\ TagOwnership /\ NoRequestForgotten /\ Phases
    BY DEF QueueInv
  <1>1. cq # <<>> /\ cq \in Seq(CQE) /\ pc = "cqe"
    BY <1>0 DEF TakeCQE, Phases, TypeOK
  <1>2. /\ cq' \in Seq(CQE) /\ 1 \in DOMAIN cq
        /\ cur' = cq[1].tag /\ cq[1] \in CQE
        /\ \A i \in DOMAIN cq' : i \in Nat /\ i > 0 /\ i + 1 \in DOMAIN cq /\ cq'[i] = cq[i + 1]
        /\ \A i \in DOMAIN cq : i # 1 => i - 1 \in DOMAIN cq' /\ cq'[i - 1] = cq[i]
    BY <1>1, TailFacts DEF TakeCQE
  <1>3. pc' = (IF cq[1].res = "abort" THEN "done" ELSE "handle")
    BY <1>1, TailFacts DEF TakeCQE
  <1>4. cur' \in Tags
    BY <1>2 DEF CQE
  <1>5. UNCHANGED <<result, sqVars, cancelVars, mainVars, handles, ioVars,
                   diskVars, storage>>
    BY DEF TakeCQE
  <1>6. TypeOK'
    BY <1>0, <1>2, <1>3, <1>4, <1>5 DEF TypeOK
  <1>7. /\ Once(cq') /\ TagsIn(cq') = TagsIn(cq) \ {cur'}
        /\ cur' \in TagsIn(cq) /\ TagsIn(sq') = TagsIn(sq)
    <2>1. Once(cq) /\ cq' = Tail(cq) /\ sq' = sq
      BY <1>0, <1>5 DEF TagOwnership, TakeCQE
    <2> QED
      BY <1>1, <1>2, <2>1, TailTags
  <1>8. cq[1].res \in {"ok", "abort"}
    BY <1>2 DEF CQE
  <1>9. TagOwnership'
    <2>1. Once(sq)' /\ Once(cq)'
      BY <1>0, <1>5, <1>7 DEF TagOwnership, Once
    <2>2. \A t : InHand(t)' => t = cur'
      BY DEF InHand
    <2>3. Apart'
      <3>1. TagsIn(sq') \cap TagsIn(cq') = {} /\ cur' \notin TagsIn(sq') \cup TagsIn(cq')
        BY <1>0, <1>7 DEF TagOwnership, Apart
      <3> QED
        BY <2>2, <3>1 DEF Apart, TagsIn
    <2>4. SQEsFit'
      BY <1>0, <1>5 DEF TagOwnership, SQEsFit
    <2>5. CQEsFit'
      BY <1>0, <1>2, <1>5 DEF TagOwnership, CQEsFit
    <2>6. HandFits'
      <3>1. pc' = "handle" => kio[cur'] = "busy" /\ result[cur'] = "none"
        BY <1>0, <1>2, <1>3, <1>8 DEF TagOwnership, CQEsFit
      <3> QED
        BY <1>3, <1>5, <2>2, <3>1 DEF HandFits, InHand
    <2> QED
      BY <2>1, <2>3, <2>4, <2>5, <2>6 DEF TagOwnership
  <1>10. NoRequestForgotten'
    <2>1. cq[1].res = "abort" => kio[cur'] = "idle"
      BY <1>0, <1>2 DEF TagOwnership, CQEsFit
    <2>2. cq[1].res # "abort" => \A t : InHand(t)' <=> t = cur'
      BY <1>3 DEF InHand
    <2>3. \A t : ~InHand(t)
      BY <1>1 DEF InHand
    <2> QED
      BY <1>0, <1>5, <1>7, <2>1, <2>2, <2>3 DEF NoRequestForgotten
  <1>11. Phases'
    <2>1. ringOpen /\ dev \notin {"release", "chclose", "stop", "del", "closed"}
      BY <1>0, <1>1 DEF Phases
    <2> QED
      BY <1>0, <1>3, <1>5, <2>1 DEF Phases
  <1> QED
    BY <1>6, <1>9, <1>10, <1>11 DEF QueueInv

(* handleIO: run keeps the tag in its hands and records a result.          *)
LEMMA HandleIOStep ==
    ASSUME QueueInv, pc = "handle", pc' = "commit",
           NEW r \in Results, result' = [result EXCEPT ![cur] = r],
           data' \in Contents, bufs' \in [Tags -> Contents],
           UNCHANGED <<cur, sqVars, cq, cancelVars, mainVars, handles, ioVars,
                       diskVars>>
    PROVE  QueueInv'
  <1> USE DEF sqVars, cancelVars, mainVars, handles, ioVars, diskVars
  <1>0. TypeOK /\ TagOwnership /\ NoRequestForgotten /\ Phases
    BY DEF QueueInv
  <1>1. cur \in Tags /\ result \in [Tags -> {"none"} \cup Results] /\ r # "none"
    BY <1>0 DEF TypeOK, Results
  <1>2. /\ result'[cur] = r
        /\ \A t \in Tags \ {cur} : result'[t] = result[t]
        /\ result' \in [Tags -> {"none"} \cup Results]
    BY <1>1
  <1>3. TypeOK'
    BY <1>0, <1>2 DEF TypeOK
  <1>4. \A t : InHand(t)' <=> InHand(t)
    BY DEF InHand
  <1>5. \A t \in TagsIn(sq) \cup TagsIn(cq) : t # cur /\ t \in Tags
    BY ZenonT(30), <1>0, QueueTypes DEF TagOwnership, Apart, InHand, TagsIn
  <1>6. /\ \A i \in DOMAIN sq : result'[sq[i].tag] = result[sq[i].tag]
        /\ \A i \in DOMAIN cq : result'[cq[i].tag] = result[cq[i].tag]
    BY <1>2, <1>5 DEF TagsIn
  <1>7. TagsIn(sq)' = TagsIn(sq) /\ TagsIn(cq)' = TagsIn(cq)
    BY DEF TagsIn
  <1>8. TagOwnership'
    <2>1. Once(sq)' /\ Once(cq)'
      BY <1>0 DEF TagOwnership, Once
    <2>2. Apart'
      BY <1>0, <1>4, <1>7 DEF TagOwnership, Apart
    <2>3. SQEsFit'
      BY <1>0, <1>6 DEF TagOwnership, SQEsFit
    <2>4. CQEsFit'
      BY <1>0, <1>6 DEF TagOwnership, CQEsFit
    <2>5. HandFits'
      BY <1>0, <1>1, <1>2, <1>4 DEF TagOwnership, HandFits
    <2> QED
      BY <2>1, <2>2, <2>3, <2>4, <2>5 DEF TagOwnership
  <1>9. NoRequestForgotten'
    BY <1>0, <1>4, <1>7 DEF NoRequestForgotten
  <1>10. kio[cur] = "busy"
    BY <1>0, <1>1 DEF TagOwnership, HandFits, InHand
  <1>11. Phases'
    BY <1>0, <1>2, <1>10 DEF Phases
  <1> QED
    BY <1>3, <1>8, <1>9, <1>11 DEF QueueInv

(* The three ways handleIO goes.                                           *)
LEMMA HandleIOSteps == QueueInv /\ HandleIO => QueueInv'
  <1> SUFFICES ASSUME QueueInv, HandleIO PROVE QueueInv'
    OBVIOUS
  <1> USE DEF storage
  <1>0. /\ cur \in Tags /\ data \in Contents /\ bufs \in [Tags -> Contents]
        /\ bufs[cur] \in Contents /\ Blank \in Contents
    BY QueueAssumption DEF QueueInv, TypeOK, Blank, Contents
  <1>1. CASE RefuseOrEmpty
    <2>1. Verdict(desc[cur]) \in Results
      BY <1>1 DEF RefuseOrEmpty, Verdict, Results
    <2> QED
      BY <1>0, <1>1, <2>1, HandleIOStep, Zenon DEF RefuseOrEmpty
  <1>2. CASE BackendRead
    <2>1. PICK new \in Contents, r \in Results :
            /\ bufs' = [bufs EXCEPT ![cur] = Over(bufs[cur], Extent(desc[cur]), new)]
            /\ result' = [result EXCEPT ![cur] = r]
      BY <1>0, <1>2 DEF BackendRead, Results
    <2>2. bufs' \in [Tags -> Contents]
      BY <1>0, <2>1, OverType
    <2> QED
      BY <1>0, <1>2, <2>1, <2>2, HandleIOStep, Zenon DEF BackendRead
  <1>3. CASE BackendUpdate
    <2>1. NewContents(cur, desc[cur]) \subseteq Contents
      BY <1>0 DEF NewContents
    <2>2. PICK new \in NewContents(cur, desc[cur]) :
            \/ /\ data' = Over(data, Extent(desc[cur]), new)
               /\ result' = [result EXCEPT ![cur] = "ok"]
            \/ /\ \E part \in SUBSET Extent(desc[cur]) : data' = Over(data, part, new)
               /\ result' = [result EXCEPT ![cur] = "EIO"]
      BY <1>3 DEF BackendUpdate
    <2>3. data' \in Contents
      BY <1>0, <2>1, <2>2, OverType
    <2>4. \E r \in Results : result' = [result EXCEPT ![cur] = r]
      BY <2>2 DEF Results
    <2> QED
      BY <1>0, <1>3, <2>3, <2>4, HandleIOStep, Zenon DEF BackendUpdate
  <1> QED
    BY <1>1, <1>2, <1>3 DEF HandleIO

(* prepareCommitAndFetch, if there is room: the tag goes from run's hands  *)
(* into the ring.                                                          *)
LEMMA PrepareStep ==
    ASSUME QueueInv, PrepareCommitAndFetch, Len(sq) < SQEntries
    PROVE  QueueInv'
  <1> USE DEF workerVars, cancelVars, mainVars, handles, ioVars, diskVars, storage
  <1>0. TypeOK /\ TagOwnership /\ NoRequestForgotten /\ Phases /\ pc = "commit"
    BY DEF QueueInv, PrepareCommitAndFetch
  <1> DEFINE e == Commit(cur, result[cur])
  <1>1. e \in SQE /\ e.tag = cur /\ e.cmd = "COMMIT" /\ e.res = result[cur]
    BY <1>0 DEF Commit, SQE, TypeOK, TagOwnership, HandFits, Results
  <1>2. Len(sq) < SQEntries /\ ~SQFull
    BY <1>0, QueueTypes, QueueAssumption DEF SQFull
  <1> HIDE DEF e
  <1>3. PushSQE(e)
    BY <1>2 DEF PrepareCommitAndFetch, e
  <1>4. /\ sq' = Append(sq, e) /\ UNCHANGED <<want, got>>
        /\ unflushed' = 1 + unflushed
    <2>1. Len(sq) \in Nat /\ unflushed \in 0 .. Len(sq) /\ SQEntries \in Nat
      BY <1>0, QueueTypes, QueueAssumption DEF TypeOK
    <2> QED
      BY <1>2, <1>3, <2>1 DEF PushSQE, Fill
  <1>5. /\ sq' \in Seq(SQE) /\ Len(sq') = Len(sq) + 1 /\ Len(sq) \in Nat
        /\ DOMAIN sq = 1 .. Len(sq) /\ DOMAIN sq' = 1 .. (Len(sq) + 1)
        /\ \A i \in DOMAIN sq : sq'[i] = sq[i]
        /\ sq'[Len(sq) + 1] = e
    BY <1>0, <1>1, <1>4, AppendFacts DEF TypeOK
  <1>6. \A i \in DOMAIN sq' : \/ i \in DOMAIN sq /\ sq'[i] = sq[i]
                              \/ i = Len(sq) + 1 /\ sq'[i] = e
    BY <1>5
  <1>7. pc' \in {"cqe", "submit"} /\ (pc' = "cqe" => cq # <<>>)
    BY DEF PrepareCommitAndFetch
  <1>8. UNCHANGED <<cur, result, cq, cancelVars, mainVars, handles, ioVars,
                    diskVars, storage>>
    BY DEF PrepareCommitAndFetch
  <1>9. TypeOK'
    <2>1. unflushed' \in 0 .. Len(sq')
      BY <1>0, <1>4, <1>5 DEF TypeOK
    <2> QED
      BY <1>0, <1>4, <1>5, <1>7, <1>8, <2>1 DEF TypeOK
  <1>10. InHand(cur) /\ \A t : InHand(t) => t = cur
    BY <1>0 DEF InHand
  <1>11. cur \in Tags /\ cur \notin TagsIn(sq) /\ cur \notin TagsIn(cq)
    BY <1>0, <1>10 DEF TagOwnership, Apart, TypeOK
  <1>12. Once(sq') /\ TagsIn(sq') = TagsIn(sq) \cup {cur} /\ TagsIn(cq') = TagsIn(cq)
    <2>1. sq \in Seq(SQE) /\ Once(sq) /\ cq' = cq
      BY <1>0, <1>8 DEF TypeOK, TagOwnership
    <2> QED
      BY <1>1, <1>4, <1>11, <2>1, AppendTags
  <1>13. \A t : ~InHand(t)'
    BY <1>7 DEF InHand
  <1>14. TagOwnership'
    <2>1. Once(sq)' /\ Once(cq)'
      BY <1>0, <1>8, <1>12 DEF TagOwnership, Once
    <2>2. Apart'
      <3>1. TagsIn(sq') \cap TagsIn(cq') = {}
        BY <1>0, <1>11, <1>12 DEF TagOwnership, Apart
      <3> QED
        BY Zenon, <1>13, <3>1 DEF Apart, TagsIn
    <2>3. SQEsFit'
      <3>1. kio[cur] = "busy"
        BY <1>0, <1>10, <1>11 DEF TagOwnership, HandFits
      <3> QED
        BY <1>0, <1>1, <1>6, <1>8, <3>1 DEF TagOwnership, SQEsFit
    <2>4. CQEsFit'
      BY <1>0, <1>8 DEF TagOwnership, CQEsFit
    <2>5. HandFits'
      BY <1>7, <1>13 DEF HandFits
    <2> QED
      BY <2>1, <2>2, <2>3, <2>4, <2>5 DEF TagOwnership
  <1>15. NoRequestForgotten'
    <2>1. \A t \in TagsIn(cq) \cup TagsIn(sq) : t \in TagsIn(cq)' \cup TagsIn(sq)'
      BY <1>12, Zenon DEF TagsIn
    <2>2. \A t : InHand(t) => t \in TagsIn(sq)'
      BY <1>10, <1>12 DEF TagsIn
    <2> QED
      BY <1>0, <1>8, <2>1, <2>2 DEF NoRequestForgotten
  <1>16. Phases'
    BY <1>0, <1>7, <1>8 DEF Phases
  <1> QED
    BY <1>9, <1>14, <1>15, <1>16 DEF QueueInv

-----------------------------------------------------------------------------
(* An answer is of the type of answers.                                    *)
LEMMA AnswerType ==
    ASSUME TypeOK, NEW t \in Tags, NEW r \in Results
    PROVE  Answer(t, r) \in Reply
  <1>1. bufs[t] \in Contents /\ Blank \in Contents
    BY QueueAssumption DEF TypeOK, Blank, Contents
  <1>2. Over(Blank, Extent(desc[t]), bufs[t]) \in Contents
    BY Zenon, <1>1, OverType
  <1> QED
    BY <1>1, <1>2 DEF Answer, Reply

(* The oldest SQE is consumed: its tag goes to the driver.                 *)
LEMMA KConsumeStep == QueueInv /\ KConsume => QueueInv'
  <1> SUFFICES ASSUME QueueInv, KConsume PROVE QueueInv'
    OBVIOUS
  <1> USE DEF cancelVars, mainVars, handles, diskVars, storage
  <1>0. /\ TypeOK /\ TagOwnership /\ NoRequestForgotten /\ Phases
        /\ pc \in {"arm", "enter"} /\ unflushed = 0
    BY Zenon DEF QueueInv, KConsume, Phases
  <1>1. /\ sq # <<>> /\ sq \in Seq(SQE) /\ sq' = Tail(sq) /\ got < want
        /\ got' = got + 1 /\ UNCHANGED <<unflushed, want>>
    BY <1>0 DEF KConsume, ConsumeSQE, TypeOK
  <1> DEFINE s == sq[1]
  <1>2. /\ sq' \in Seq(SQE) /\ 1 \in DOMAIN sq /\ s \in SQE /\ s = Head(sq)
        /\ \A i \in DOMAIN sq' : i \in Nat /\ i > 0 /\ i + 1 \in DOMAIN sq /\ sq'[i] = sq[i + 1]
        /\ \A i \in DOMAIN sq : i # 1 => i - 1 \in DOMAIN sq' /\ sq'[i - 1] = sq[i]
    BY <1>1, TailFacts
  <1>3. s.tag \in Tags /\ s.res \in Results
    BY <1>2 DEF SQE
  <1>4. /\ kio' = [kio EXCEPT ![s.tag] = "parked"]
        /\ rep' = IF s.cmd = "FETCH" THEN rep ELSE Answer(s.tag, s.res)
        /\ result' = [result EXCEPT ![s.tag] = "none"]
        /\ UNCHANGED <<pc, cur, cq, cancelVars, mainVars, handles, desc,
                       diskVars, storage>>
    BY <1>2 DEF KConsume
  <1>5. /\ Once(sq') /\ TagsIn(sq') = TagsIn(sq) \ {s.tag} /\ TagsIn(cq') = TagsIn(cq)
        /\ s.tag \in TagsIn(sq)
    <2>1. Once(sq) /\ cq' = cq
      BY <1>0, <1>4 DEF TagOwnership
    <2> QED
      BY <1>1, <2>1, TailTags
  <1> HIDE DEF s
  <1>6. /\ kio'[s.tag] = "parked" /\ result'[s.tag] = "none"
        /\ \A t \in Tags \ {s.tag} : kio'[t] = kio[t] /\ result'[t] = result[t]
        /\ kio' \in [Tags -> {"idle", "parked", "busy"}]
        /\ result' \in [Tags -> {"none"} \cup Results]
    BY <1>0, <1>3, <1>4 DEF TypeOK
  <1>7. TypeOK'
    <2>1. rep' \in Reply
      BY <1>0, <1>3, <1>4, AnswerType DEF TypeOK
    <2>2. want' \in Nat /\ got' \in 0 .. want'
      BY <1>0, <1>1 DEF TypeOK
    <2>3. unflushed' \in 0 .. Len(sq')
      <3>1. unflushed' = 0 /\ sq' \in Seq(SQE)
        BY <1>0, <1>1, <1>2
      <3> QED
        BY <3>1
    <2>4. sq' \in Seq(SQE) /\ cq' = cq
      BY <1>2, <1>4
    <2> QED
      BY <1>0, <1>4, <1>6, <2>1, <2>2, <2>3, <2>4 DEF TypeOK
  <1>8. \A t : ~InHand(t) /\ ~InHand(t)'
    BY <1>0, <1>4 DEF InHand
  <1>9. /\ \A i \in DOMAIN sq' : sq'[i].tag \in Tags \ {s.tag}
        /\ \A i \in DOMAIN cq : cq[i].tag \in Tags \ {s.tag}
    <2>1. \A i \in DOMAIN sq' : sq'[i].tag \in TagsIn(sq')
      BY DEF TagsIn
    <2>2. \A i \in DOMAIN cq : cq[i].tag \in TagsIn(cq)
      BY DEF TagsIn
    <2>3. TagsIn(sq) \subseteq Tags /\ TagsIn(cq) \subseteq Tags
      BY <1>0, QueueTypes DEF TagsIn
    <2>4. TagsIn(sq) \cap TagsIn(cq) = {}
      BY <1>0 DEF TagOwnership, Apart
    <2> QED
      BY <1>5, <2>1, <2>2, <2>3, <2>4
  <1>10. TagOwnership'
    <2>1. Once(sq)' /\ Once(cq)'
      BY <1>0, <1>4, <1>5 DEF TagOwnership, Once
    <2>2. Apart'
      <3>1. TagsIn(sq') \cap TagsIn(cq') = {}
        BY <1>0, <1>5 DEF TagOwnership, Apart
      <3> QED
        BY <1>8, <3>1 DEF Apart, TagsIn
    <2>3. SQEsFit'
      <3>1. SQEsFit /\ \A i \in DOMAIN sq' : i + 1 \in DOMAIN sq /\ sq'[i] = sq[i + 1]
        BY <1>0, <1>2 DEF TagOwnership
      <3> QED
        BY <1>6, <1>9, <3>1 DEF SQEsFit
    <2>4. CQEsFit'
      <3>1. CQEsFit /\ cq' = cq
        BY <1>0, <1>4 DEF TagOwnership
      <3> QED
        BY <1>6, <1>9, <3>1 DEF CQEsFit
    <2>5. HandFits'
      BY <1>0, <1>4, <1>8 DEF HandFits
    <2> QED
      BY <2>1, <2>2, <2>3, <2>4, <2>5 DEF TagOwnership
  <1>11. NoRequestForgotten'
    BY <1>0, <1>4, <1>5, <1>6, <1>8 DEF NoRequestForgotten
  <1>12. Phases'
    <2>1. ringOpen
      BY <1>0 DEF Phases
    <2> QED
      BY <1>0, <1>1, <1>3, <1>4, <1>6, <2>1 DEF Phases
  <1> QED
    BY <1>7, <1>10, <1>11, <1>12 DEF QueueInv

(* A parked tag is in no ring and not in run's hands, and has no result.   *)
LEMMA ParkedIsFree ==
    ASSUME QueueInv, NEW t \in Tags, kio[t] = "parked"
    PROVE  t \notin TagsIn(sq) /\ t \notin TagsIn(cq) /\ ~InHand(t) /\ result[t] = "none"
  <1>1. TypeOK /\ TagOwnership /\ Phases
    BY DEF QueueInv
  <1>2. \A i \in DOMAIN sq : kio[sq[i].tag] \in {"idle", "busy"}
    BY <1>1 DEF TagOwnership, SQEsFit
  <1>3. \A i \in DOMAIN cq : kio[cq[i].tag] \in {"idle", "busy"}
    BY <1>1 DEF TagOwnership, CQEsFit
  <1>4. ~InHand(t) /\ result[t] = "none"
    BY <1>1 DEF TagOwnership, HandFits, Phases
  <1> QED
    BY <1>2, <1>3, <1>4 DEF TagsIn

(* The driver completes the command of a parked tag: the tag goes from the *)
(* driver into the completion ring, with a request or without.             *)
Posted(t, k, r) ==
    /\ kio[t] = "parked" /\ ringOpen
    /\ (k = "busy" /\ r = "ok") \/ (k = "idle" /\ r = "abort")
    /\ kio' = [kio EXCEPT ![t] = k]
    /\ cq' = Append(cq, [tag |-> t, res |-> r])
    /\ UNCHANGED <<pc, cur, result, sqVars, cancelVars, mainVars, handles, rep,
                   diskVars, data>>
    /\ desc' \in [Tags -> Desc] /\ bufs' \in [Tags -> Contents]

(* That keeps the invariant.                                               *)
LEMMA PostStep ==
    ASSUME QueueInv, NEW t \in Tags, NEW k, NEW r, Posted(t, k, r)
    PROVE  QueueInv'
  <1>0. TypeOK /\ TagOwnership /\ NoRequestForgotten /\ Phases
    BY Zenon DEF QueueInv
  <1>1. /\ k = "busy" => r = "ok"
        /\ k \in {"busy", "idle"} /\ (k = "idle" => r = "abort")
    BY DEF Posted
  <1> DEFINE e == [tag |-> t, res |-> r]
  <1>2. e \in CQE /\ e.tag = t /\ e.res = r
    BY <1>1 DEF CQE
  <1>a. cq' = Append(cq, e) /\ cq \in Seq(CQE)
    BY Zenon, <1>0 DEF Posted, TypeOK
  <1> HIDE DEF e
  <1>b. pc' = pc /\ cur' = cur /\ result' = result /\ sq' = sq
    BY Zenon DEF Posted, sqVars
  <1>3. /\ cq' \in Seq(CQE) /\ Len(cq) \in Nat /\ cq' # <<>>
        /\ DOMAIN cq = 1 .. Len(cq) /\ DOMAIN cq' = 1 .. (Len(cq) + 1)
        /\ \A i \in DOMAIN cq : cq'[i] = cq[i]
        /\ cq'[Len(cq) + 1] = e
    BY <1>2, <1>a, AppendFacts
  <1>4. \A i \in DOMAIN cq' : \/ i \in DOMAIN cq /\ cq'[i] = cq[i]
                              \/ i = Len(cq) + 1 /\ cq'[i] = e
    BY <1>3
  <1>5. /\ t \notin TagsIn(sq) /\ t \notin TagsIn(cq)
        /\ ~InHand(t) /\ result[t] = "none"
    BY Zenon, ParkedIsFree DEF Posted
  <1>6. /\ kio'[t] = k /\ \A u \in Tags \ {t} : kio'[u] = kio[u]
        /\ kio' \in [Tags -> {"idle", "parked", "busy"}]
    <2>1. kio \in [Tags -> {"idle", "parked", "busy"}] /\ kio' = [kio EXCEPT ![t] = k]
      BY Zenon, <1>0 DEF Posted, TypeOK
    <2> QED
      BY <1>1, <2>1
  <1>7. TypeOK'
    <2>1. /\ unflushed' = unflushed /\ want' = want /\ got' = got
          /\ cancelled' = cancelled /\ eventfd' = eventfd /\ ready' = ready /\ dev' = dev
      BY Zenon DEF Posted, sqVars, cancelVars, mainVars
    <2>2. /\ ringOpen' = ringOpen /\ charOpen' = charOpen /\ rep' = rep
          /\ disk' = disk /\ opener' = opener /\ data' = data
          /\ desc' \in [Tags -> Desc] /\ bufs' \in [Tags -> Contents]
      BY Zenon DEF Posted, handles, diskVars
    <2> QED
      BY <1>0, <1>b, <1>3, <1>6, <2>1, <2>2 DEF TypeOK
  <1>8. Once(cq') /\ TagsIn(cq') = TagsIn(cq) \cup {t} /\ TagsIn(sq') = TagsIn(sq)
    <2>1. cq \in Seq(CQE) /\ Once(cq)
      BY Zenon, <1>0 DEF TypeOK, TagOwnership
    <2>2. Once(Append(cq, e)) /\ TagsIn(Append(cq, e)) = TagsIn(cq) \cup {t}
      BY <1>2, <1>5, <2>1, AppendTags
    <2> QED
      BY Zenon, <1>a, <1>b, <2>2
  <1>9. \A u : InHand(u)' <=> InHand(u)
    BY Zenon, <1>b DEF InHand
  <1>10. TagOwnership'
    <2>1. Once(sq)' /\ Once(cq)'
      BY Zenon, <1>0, <1>b, <1>8 DEF TagOwnership, Once
    <2>2. Apart'
      <3>1. Apart
        BY Zenon, <1>0 DEF TagOwnership
      <3>2. /\ TagsIn(sq') \cap TagsIn(cq') = {}
            /\ \A u \in TagsIn(sq') \cup TagsIn(cq') : ~InHand(u)
        BY <1>5, <1>8, <3>1 DEF Apart
      <3> QED
        BY Zenon, <1>9, <3>2 DEF Apart, TagsIn
    <2>3. /\ \A i \in DOMAIN sq : sq[i].tag \in Tags \ {t}
          /\ \A i \in DOMAIN cq : cq[i].tag \in Tags \ {t}
      BY Zenon, <1>0, <1>5, QueueTypes DEF TagsIn
    <2>4. SQEsFit'
      <3>1. SQEsFit
        BY Zenon, <1>0 DEF TagOwnership
      <3>2. \A i \in DOMAIN sq : kio'[sq[i].tag] = kio[sq[i].tag]
        BY Zenon, <1>6, <2>3
      <3> QED
        BY Zenon, <1>b, <3>1, <3>2 DEF SQEsFit
    <2>5. CQEsFit'
      <3>1. CQEsFit
        BY Zenon, <1>0 DEF TagOwnership
      <3>2. ASSUME NEW i \in DOMAIN cq'
            PROVE  IF cq'[i].res = "ok"
                   THEN kio'[cq'[i].tag] = "busy" /\ result[cq'[i].tag] = "none"
                   ELSE kio'[cq'[i].tag] = "idle"
        <4>1. CASE i \in DOMAIN cq /\ cq'[i] = cq[i]
          BY <1>6, <2>3, <3>1, <4>1 DEF CQEsFit
        <4>2. CASE cq'[i] = e
          BY <1>1, <1>2, <1>5, <1>6, <4>2
        <4> QED
          BY Zenon, <1>4, <4>1, <4>2
      <3> QED
        BY Zenon, <1>b, <3>2 DEF CQEsFit
    <2>6. HandFits'
      <3>1. HandFits
        BY Zenon, <1>0 DEF TagOwnership
      <3> QED
        BY <1>b, <1>5, <1>6, <1>9, <3>1 DEF HandFits
    <2> QED
      BY Zenon, <2>1, <2>2, <2>4, <2>5, <2>6 DEF TagOwnership
  <1>11. NoRequestForgotten'
    <2>1. \A u \in TagsIn(cq) \cup TagsIn(sq) \cup {t} : u \in TagsIn(cq)' \cup TagsIn(sq)'
      BY Zenon, <1>8 DEF TagsIn
    <2>2. ringOpen' = ringOpen
      BY Zenon DEF Posted, handles
    <2> QED
      BY <1>0, <1>6, <1>9, <2>1, <2>2 DEF NoRequestForgotten
  <1>12. Phases'
    <2>1. \A u \in Tags : kio'[u] # "busy" => result'[u] = "none"
      BY <1>0, <1>b, <1>5, <1>6 DEF Phases
    <2> QED
      BY Zenon, <1>0, <1>3, <2>1
         DEF Phases, Posted, sqVars, mainVars, handles
  <1> QED
    BY Zenon, <1>7, <1>10, <1>11, <1>12 DEF QueueInv

(* With both rings empty and run at an end only the driver owns tags.      *)
LEMMA EmptyRings ==
    ASSUME sq' = <<>>, cq' = <<>>, pc' = "done", ~ringOpen'
    PROVE  TagOwnership' /\ NoRequestForgotten'
  <1>1. DOMAIN sq' = {} /\ DOMAIN cq' = {}
    OBVIOUS
  <1>2. \A t : ~InHand(t)'
    BY DEF InHand
  <1>3. TagsIn(sq)' = {} /\ TagsIn(cq)' = {}
    BY <1>1 DEF TagsIn
  <1>4. Once(sq)' /\ Once(cq)' /\ SQEsFit' /\ CQEsFit'
    BY <1>1 DEF Once, SQEsFit, CQEsFit
  <1>5. Apart' /\ HandFits'
    BY <1>2, <1>3 DEF Apart, HandFits
  <1> QED
    BY <1>4, <1>5 DEF TagOwnership, NoRequestForgotten

(* With the ring gone run has returned and only the driver owns tags.      *)
LEMMA DriverOnly ==
    ASSUME QueueInv, ~ringOpen,
           kio' \in [Tags -> {"idle", "parked", "busy"}],
           result' \in [Tags -> {"none"} \cup Results],
           \A u \in Tags : kio'[u] # "busy" => result'[u] = "none",
           UNCHANGED <<pc, cur, cq, sqVars, cancelVars, mainVars, handles,
                       diskVars, data>>,
           rep' \in Reply, desc' \in [Tags -> Desc], bufs' \in [Tags -> Contents]
    PROVE  QueueInv'
  <1> USE DEF sqVars, cancelVars, mainVars, handles, diskVars
  <1>1. TypeOK /\ Phases /\ pc = "done" /\ sq = <<>> /\ cq = <<>>
    BY DEF QueueInv, Phases
  <1>2. TypeOK'
    BY <1>1 DEF TypeOK
  <1>3. TagOwnership' /\ NoRequestForgotten'
    <2>1. sq' = <<>> /\ cq' = <<>> /\ pc' = "done"
      BY <1>1
    <2>2. ~ringOpen'
      BY Zenon DEF handles
    <2> QED
      BY <2>1, <2>2, EmptyRings, Zenon
  <1>4. Phases'
    BY <1>1 DEF Phases
  <1> QED
    BY <1>2, <1>3, <1>4 DEF QueueInv

(* A request arrives.                                                      *)
LEMMA KDispatchStep ==
    ASSUME QueueInv, NEW t \in Tags, NEW d \in Issued, KDispatch(t, d)
    PROVE  QueueInv'
  <1> USE DEF workerVars
  <1>1. TypeOK /\ d \in Desc /\ kio[t] = "parked"
    BY DEF QueueInv, Issued, KDispatch
  <1>2. desc' \in [Tags -> Desc]
    BY <1>1 DEF TypeOK, KDispatch
  <1>3. bufs' \in [Tags -> Contents]
    <2>1. bufs[t] \in Contents /\ [b \in Blocks |-> d.val] \in Contents
      BY <1>1 DEF TypeOK, Contents, Desc
    <2>2. Over(bufs[t], Extent(d), [b \in Blocks |-> d.val]) \in Contents
      BY Zenon, <2>1, OverType
    <2> QED
      BY <1>1, <2>2 DEF KDispatch, TypeOK
  <1>4. CASE ringOpen
    <2>1. /\ ringOpen /\ kio[t] = "parked"
          /\ kio' = [kio EXCEPT ![t] = "busy"]
          /\ cq' = Append(cq, [tag |-> t, res |-> "ok"])
          /\ UNCHANGED <<pc, cur, result, sqVars, cancelVars, mainVars, handles,
                         rep, diskVars, data>>
      BY <1>4 DEF KDispatch
    <2> QED
      BY Zenon, <1>2, <1>3, <2>1, PostStep DEF Posted
  <1>5. CASE ~ringOpen
    <2>1. kio' \in [Tags -> {"idle", "parked", "busy"}]
      BY <1>1 DEF TypeOK, KDispatch
    <2>2. \A u \in Tags : kio'[u] # "busy" => result'[u] = "none"
      BY Zenon, <1>1 DEF QueueInv, Phases, TypeOK, KDispatch
    <2> QED
      BY SMTT(30), <1>1, <1>2, <1>3, <1>5, <2>1, <2>2, DriverOnly DEF KDispatch, TypeOK
  <1> QED
    BY <1>4, <1>5

(* A parked command is cancelled.                                          *)
LEMMA KCancelCmdStep ==
    ASSUME QueueInv, NEW t \in Tags, KCancelCmd(t)
    PROVE  QueueInv'
  <1> USE DEF workerVars, storage
  <1>1. desc' \in [Tags -> Desc] /\ bufs' \in [Tags -> Contents]
    BY DEF QueueInv, TypeOK, KCancelCmd
  <1>2. /\ ringOpen /\ kio[t] = "parked"
        /\ kio' = [kio EXCEPT ![t] = "idle"]
        /\ cq' = Append(cq, [tag |-> t, res |-> "abort"])
        /\ UNCHANGED <<pc, cur, result, sqVars, cancelVars, mainVars, handles,
                       rep, diskVars, data>>
    BY DEF KCancelCmd
  <1> QED
    BY Zenon, <1>1, <1>2, PostStep DEF Posted

(* ublk_ch_release fails a request.                                        *)
LEMMA KAbortStep ==
    ASSUME QueueInv, NEW t \in Tags, KAbort(t)
    PROVE  QueueInv'
  <1> USE DEF storage
  <1>1. TypeOK /\ Phases /\ ~ringOpen
    BY DEF QueueInv, Phases, KAbort
  <1>2. /\ kio' \in [Tags -> {"idle", "parked", "busy"}]
        /\ result' \in [Tags -> {"none"} \cup Results]
        /\ \A u \in Tags : kio'[u] # "busy" => result'[u] = "none"
    BY <1>1 DEF TypeOK, Phases, KAbort
  <1>3. rep' \in Reply
    BY <1>1, AnswerType DEF KAbort, Results
  <1> QED
    BY <1>1, <1>2, <1>3, DriverOnly DEF KAbort, TypeOK

(* worker.cleanup: what was left in the rings is gone.                     *)
LEMMA CleanupStep == QueueInv /\ Cleanup => QueueInv'
  <1> SUFFICES ASSUME QueueInv, Cleanup PROVE QueueInv'
    OBVIOUS
  <1> USE DEF workerVars, cancelVars, ioVars, diskVars, storage
  <1>1. TypeOK /\ Phases /\ pc = "done" /\ dev = "release"
    BY Zenon DEF QueueInv, Phases, Cleanup
  <1>2. /\ sq' = <<>> /\ cq' = <<>> /\ unflushed' = 0 /\ want' = 0 /\ got' = 0
        /\ ringOpen' = FALSE /\ dev' = "chclose"
        /\ UNCHANGED <<workerVars, cancelVars, ready, charOpen, ioVars, diskVars,
                       storage>>
    BY DEF Cleanup
  <1>3. TypeOK'
    <2>1. sq' \in Seq(SQE) /\ cq' \in Seq(CQE) /\ unflushed' \in 0 .. Len(sq')
      BY <1>2
    <2>2. ringOpen' \in BOOLEAN
      BY <1>2, Zenon
    <2>3. want' \in Nat /\ got' \in 0 .. want'
      BY <1>2
    <2> QED
      BY <1>1, <1>2, <2>1, <2>2, <2>3 DEF TypeOK
  <1>4. TagOwnership' /\ NoRequestForgotten'
    <2>1. sq' = <<>> /\ cq' = <<>> /\ pc' = "done"
      BY <1>1, <1>2
    <2>2. ~ringOpen'
      BY <1>2, Zenon
    <2> QED
      BY <2>1, <2>2, EmptyRings, Zenon
  <1>5. Phases'
    BY <1>1, <1>2 DEF Phases
  <1> QED
    BY <1>3, <1>4, <1>5 DEF QueueInv
=============================================================================
