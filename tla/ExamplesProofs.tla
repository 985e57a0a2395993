--------------------------- MODULE ExamplesProofs ---------------------------
(***************************************************************************)
(* What the authors of the example programs rely on holds for every number *)
(* of attempts, roundtrips, rounds, devices and file descriptors.          *)
(***************************************************************************)
EXTENDS Examples, ProgramsSteps, StressSteps

-----------------------------------------------------------------------------
(***************************************************************************)
(* sigkill.                                                                *)
(***************************************************************************)

(* The child's steps: it is not dead, so the parent does not look yet.     *)
LEMMA ChildStep ==
    ASSUME SigInv, Child
    PROVE  SigInv'
  <1>0. "child" \in Devs /\ "fresh" \in Devs /\ "child" # "fresh"
    BY SigkillAssumption DEF Probe
  <1>1. UNCHANGED <<par, killed, nodes, found, there, report>> /\ chi # "dead"
    BY DEF Child, ChildNew, ChildAnnounces, ChildOpens, ChildDies
  <1>2. /\ par = "start" => UNCHANGED chi
        /\ chi = "none" => chi' \in {"none", "dead"}
    BY DEF Child, ChildNew, ChildAnnounces, ChildOpens, ChildDies, SigInv
  <1>3. UNCHANGED state \/ \E x \in {"live", "left"} : Become("child", x)
    BY Zenon DEF Child, ChildNew, ChildAnnounces, ChildOpens, ChildDies, devs, Create, Hold
  <1>4. /\ state' \in [Devs -> {"none", "live", "closing", "gone", "left"}]
        /\ state'["child"] \in {state["child"], "live", "left"}
    BY <1>0, <1>3 DEF SigInv, Become
  <1>5. /\ par \notin {"new", "close", "exit0"} \cup Polling
        /\ report = "none" /\ nodes # {} /\ state["child"] # "gone"
    BY <1>1 DEF SigInv
  <1> QED
    BY <1>1, <1>2, <1>4, <1>5 DEF SigInv, Polling

(* The kernel removes a node, the last with the device.                    *)
LEMMA ReapStep ==
    ASSUME SigInv, KernelReaps
    PROVE  SigInv'
  <1>0. "child" \in Devs /\ "fresh" \in Devs /\ "child" # "fresh"
    BY SigkillAssumption DEF Probe
  <1>1. /\ UNCHANGED <<par, chi, killed, found, there, report>> /\ chi = "dead"
        /\ nodes' \subseteq nodes
        /\ IF nodes' = {} THEN Become("child", "gone") ELSE UNCHANGED state
    BY DEF KernelReaps
  <1>2. /\ state' \in [Devs -> {"none", "live", "closing", "gone", "left"}]
        /\ state'["fresh"] = state["fresh"] /\ (nodes' = {} => state'["child"] = "gone")
        /\ Present("child")' => Present("child")
    BY <1>0, <1>1 DEF SigInv, Become, Present
  <1> HIDE DEF Present
  <1> QED
    BY <1>1, <1>2 DEF SigInv, Polling

(* The parent's steps before it looks.                                     *)
LEMMA ParentStep ==
    ASSUME SigInv, ParentStarts \/ readReady \/ Kill \/ ParentWaits \/ ParentNew \/ ParentClose
    PROVE  SigInv'
  <1>0. "child" \in Devs /\ "fresh" \in Devs /\ "child" # "fresh"
    BY SigkillAssumption DEF Probe
  <1>1. UNCHANGED <<nodes, found, there, report>> /\ par \notin {"exit0", "exit1"} \cup Polling
    BY DEF ParentStarts, readReady, Kill, ParentWaits, ParentNew, ParentClose, Polling
  <1>2. report = "none"
    BY <1>1 DEF SigInv
  <1>3. UNCHANGED state \/ \E x \in {"live", "closing", "gone", "left"} : Become("fresh", x)
    BY Zenon DEF ParentStarts, readReady, Kill, ParentWaits, ParentNew, ParentClose, devs,
                 Create, BeginClose, Delete, DeleteRefused
  <1>4. /\ state' \in [Devs -> {"none", "live", "closing", "gone", "left"}]
        /\ state'["child"] = state["child"]
    BY <1>0, <1>3 DEF SigInv, Become
  <1>5. /\ par' \notin {"start", "exit0", "chr", "sleep"}
        /\ par' \in {"wait", "new", "close", "blk"} => killed'
        /\ par' \in {"new", "close", "blk"} => chi' = "dead"
        /\ par' = "exit1" => killed' \/ chi' \in {"none", "dead"}
        /\ chi = "dead" => chi' = "dead"
    BY DEF ParentStarts, readReady, Kill, ParentWaits, ParentNew, ParentClose, SigInv
  <1>6. par' = "blk" => state'["fresh"] = "gone"
    BY <1>0 DEF ParentStarts, readReady, Kill, ParentWaits, ParentNew, ParentClose, Delete, Become,
                SigInv
  <1> QED
    BY <1>1, <1>2, <1>4, <1>5, <1>6 DEF SigInv, Polling

(* The parent looks: its own device, which may have had the child's        *)
(* number, is gone, so what it finds are the child's nodes.                *)
LEMMA LookStep ==
    ASSUME SigInv, waitGone
    PROVE  SigInv'
  <1>1. /\ UNCHANGED <<state, chi, killed, nodes>>
        /\ par \in Polling /\ killed /\ chi = "dead" /\ report = "none"
        /\ par' \in {"blk", "chr", "sleep", "exit0"}
    BY DEF waitGone, StatBlock, StatChar, AskAgain, Deadline, waitFrame, devs, SigInv, Polling
  <1>2. \A n : Exists(n) <=> Present("child") /\ n \in nodes
    <2>1. ~Present("fresh")
      BY <1>1 DEF SigInv, Present
    <2> QED
      BY Zenon, <2>1 DEF Exists, Probe
  <1>3. /\ nodes \subseteq {"blk", "chr"}
        /\ nodes = {} => ~Present("child")
    BY DEF SigInv, Present
  <1>4. Present("child")' <=> Present("child")
    BY <1>1 DEF Present
  <1> HIDE DEF Present, Exists
  <1>5. CASE StatBlock
    <2>1. /\ par' = "chr" /\ found' = Exists("blk") /\ there' = Present("child") /\ report' = report
      BY <1>5 DEF StatBlock
    <2>2. found' \in BOOLEAN /\ (found' <=> Exists("blk")) /\ (there' <=> Present("child"))
      BY Zenon, <2>1 DEF Exists
    <2> QED
      BY <1>1, <1>2, <1>3, <1>4, <2>1, <2>2 DEF SigInv, Polling
  <1>6. CASE StatChar
    <2>1. /\ UNCHANGED <<found, there>>
          /\ IF ~found /\ ~Exists("chr") THEN par' = "exit0" /\ report' = "gone"
             ELSE par' = "sleep" /\ UNCHANGED report
          /\ par = "chr"
      BY <1>6 DEF StatChar
    <2>2. CASE ~found /\ ~Exists("chr")
      <3>1. ~Present("child")
        BY <1>2, <1>3, <2>1, <2>2 DEF SigInv
      <3> QED
        BY <1>1, <1>3, <1>4, <2>1, <2>2, <3>1 DEF SigInv, Polling
    <2>3. CASE ~(~found /\ ~Exists("chr"))
      <3>1. there
        BY <1>2, <2>1, <2>3 DEF SigInv
      <3> QED
        BY <1>1, <1>3, <1>4, <2>1, <2>3, <3>1 DEF SigInv, Polling
    <2> QED
      BY <2>2, <2>3
  <1>7. CASE AskAgain
    BY <1>1, <1>4, <1>7 DEF AskAgain, SigInv, Polling
  <1>8. CASE Deadline
    BY <1>1, <1>4, <1>8 DEF Deadline, SigInv, Polling
  <1> QED
    BY <1>5, <1>6, <1>7, <1>8 DEF waitGone

(* The invariant of the probe is inductive.                                *)
LEMMA SigStep ==
    ASSUME SigInv, SigNext
    PROVE  SigInv'
  BY Zenon, ChildStep, ReapStep, ParentStep, LookStep DEF SigNext, Parent

-----------------------------------------------------------------------------
(***************************************************************************)
(* One of the programs.                                                    *)
(***************************************************************************)

(* The program that runs keeps its invariant, the others do not begin.     *)
ExamplesInv ==
    /\ prog \notin {"stress", "sigkill"} => ProgInv
    /\ prog = "stress" => StressInv
    /\ prog = "sigkill" => SigInv
    /\ prog \in {"stress", "sigkill"} => mode = "run" /\ verdict = "ok"
    /\ prog # "stress" => \A w \in Writers : writer[w] = "none"
    /\ prog # "sigkill" => par = "start" /\ report = "none"

(* The sequential programs begin with nothing held.                        *)
LEMMA ProgStart ==
    ASSUME DevInit, ProgInit, prog \in Sequential
    PROVE  ProgInv
  <1>1. /\ state = [d \in Devs |-> "none"] /\ holds = [d \in Devs |-> {}]
        /\ pos = 1 /\ defers = <<>> /\ mode = "run" /\ verdict = "ok"
        /\ io = [d \in Devs |-> "none"] /\ calls = [d \in Devs |-> [read |-> 0, write |-> 0]]
        /\ look = [d \in Devs |-> "none"] /\ looked = 0 /\ unseen = 0
        /\ counted = [read |-> 0, write |-> 0]
        /\ errs = 0 /\ saw = 0 /\ rest = Attempts
    BY DEF DevInit, ProgInit, NoCalls
  <1>2. /\ prog \in Progs /\ FaultProgs \subseteq Devs /\ {"storage", "proxy"} \subseteq Devs
        /\ Attempts \in Nat \ {0} /\ "lowRate" \in Devs
    BY SMTT(30), ProgramsAssumption, FaultNames DEF Progs
  <1>3. ProgTypeOK
    BY <1>1, <1>2 DEF ProgTypeOK
  <1>4. \A d \in Devs : state[d] = "none" /\ holds[d] = {} /\ io[d] = "none"
    BY Zenon, <1>1
  <1>5. ReleaseInv
    <2>1. DefersInOrder
      BY <1>1 DEF DefersInOrder
    <2>2. \A d \in Devs : ~OwnsFd(d) /\ ~OwnsDevice(d)
      <3>1. 1 \notin {3, 4} /\ 1 \notin 2 .. Length(prog)
        BY DEF Length
      <3> QED
        BY Zenon, <1>1, <3>1 DEF OwnsFd, OwnsDevice
    <2>3. FdsOwned /\ DevicesOwned
      <3>1. "none" \notin {"live", "closing"}
        OBVIOUS
      <3> QED
        BY Zenon, <1>4, <2>2, <3>1 DEF FdsOwned, DevicesOwned
    <2>4. ClosedInOrder
      <3>1. /\ \A d \in Devs : "open" \notin holds[d] /\ state[d] # "closing"
            /\ mode # "exit"
        BY <1>1, <1>4
      <3> QED
        BY Zenon, <3>1 DEF ClosedInOrder
    <2> QED
      BY <2>1, <2>3, <2>4 DEF ReleaseInv
  <1>6. CountInv
    BY <1>1, <1>2, <1>4 DEF CountInv
  <1>7. ChainInv
    <2>1. ASSUME prog = "chain", NEW dos, In(dos) PROVE "new" \in dos
      <3>1. Cur = D("new", "storage", "close")
        BY <1>1, <2>1, Lists, ChainSteps DEF Cur
      <3> QED
        BY <2>1, <3>1 DEF In, At, D
    <2>2. /\ io["storage"] = "none" /\ io["proxy"] = "none" /\ look["proxy"] = "none"
          /\ \A op \in Ops : calls["proxy"][op] = 0 /\ calls["storage"][op] = 0
      BY <1>1, <1>2 DEF Ops
    <2>3. InLine /\ \A op \in Ops : Slack(op) = 0
      BY <2>2 DEF InLine, Slack, OnWay, ToFail
    <2>4. \A op \in Ops : Forwards(op)
      BY <1>1, <2>2, <2>3 DEF Forwards
    <2>5. prog = "chain" => ~In({"write"}) /\ ~In({"read"}) /\ ~In({"compare"}) /\ ~In({"stats"})
      BY <2>1
    <2> QED
      BY Zenon, <2>3, <2>4, <2>5 DEF ChainInv, DataThrough
  <1> QED
    BY <1>3, <1>5, <1>6, <1>7 DEF ProgInv

(* stress begins with no file and no writer.                               *)
LEMMA StressStart ==
    ASSUME DevInit, StressInit
    PROVE  StressInv
  <1>1. StressTypeOK
    BY StressAssumption DEF DevInit, StressInit, StressTypeOK
  <1>2. SetupInv
    BY DEF StressInit, SetupInv, Setup
  <1>3. FilesInv
    BY DEF StressInit, FilesInv, Mine
  <1>4. WritersInv
    BY DEF StressInit, WritersInv
  <1>5. UpInv
    BY DEF DevInit, UpInv
  <1> QED
    BY <1>1, <1>2, <1>3, <1>4, <1>5 DEF StressInv

(* A step in which a program does nothing keeps its invariant.             *)
LEMMA ProgStutter ==
    ASSUME ProgInv, UNCHANGED <<devs, own>>
    PROVE  ProgInv'
  <1>1. /\ UNCHANGED <<prog, pos, defers, mode, verdict, state, holds>>
        /\ UNCHANGED <<io, calls, errs, stored, got, look, looked, unseen, saw, rest, counted>>
    BY DEF own, devs, progVars, ioVars, lookVars, loopVars
  <1>2. ProgTypeOK'
    BY Zenon, <1>1 DEF ProgInv, ProgTypeOK
  <1>3. ReleaseInv'
    BY <1>1, QuietRelease DEF ProgInv, progVars, devs
  <1>4. CountInv'
    BY Zenon, <1>1 DEF ProgInv, CountInv
  <1>5. ChainInv'
    <2>1. SUFFICES ASSUME mode = "run", prog = "chain" PROVE ChainInv'
      BY Zenon, <1>1 DEF ChainInv
    <2>2. /\ unseen \in Nat /\ unseen <= unseen
          /\ \A op \in Ops : calls["storage"][op] \in Nat
                             /\ calls["storage"][op] <= calls["storage"][op]
      BY <2>1, ChainFacts
    <2> QED
      BY Zenon, <1>1, <2>1, <2>2, ChainQuiet
  <1> QED
    BY <1>2, <1>3, <1>4, <1>5 DEF ProgInv

(* A step in which a stressor does nothing keeps its invariant.            *)
LEMMA StressStutter ==
    ASSUME StressInv, UNCHANGED <<devs, stressVars>>
    PROVE  StressInv'
  <1>1. /\ UNCHANGED <<at, setup, table, fdOf, awaited, closeErrs, state>>
        /\ UNCHANGED <<setup, fdOf, writer, inside>> /\ (closeErrs => closeErrs')
        /\ UNCHANGED <<round, stressor, idx, toOpen, up>>
    BY DEF devs, stressVars, setup
  <1>2. StressTypeOK'
    BY Zenon, <1>1 DEF StressInv, StressTypeOK
  <1> QED
    BY <1>1, <1>2, Undisturbed, WritersKept DEF StressInv

(* ExamplesInv holds at the start, whichever program it is ...             *)
LEMMA ExamplesStart ==
    ASSUME Init
    PROVE  ExamplesInv
  <1>1. /\ DevInit /\ ProgInit /\ StressInit /\ SigInit
        /\ prog \in Sequential \cup {"stress", "sigkill"}
    BY ExamplesAssumption DEF Init
  <1>2. prog \notin {"stress", "sigkill"} => ProgInv
    BY <1>1, ProgStart
  <1>3. StressInv
    BY <1>1, StressStart
  <1>4. SigInv
    BY <1>1, SigkillAssumption DEF DevInit, SigInit, SigInv, Probe, Polling
  <1>5. /\ mode = "run" /\ verdict = "ok" /\ par = "start" /\ report = "none"
        /\ \A w \in Writers : writer[w] = "none"
    BY <1>1 DEF ProgInit, StressInit, SigInit
  <1> QED
    BY Zenon, <1>2, <1>3, <1>4, <1>5 DEF ExamplesInv

(* ... and after every step.                                               *)
LEMMA ExamplesStep ==
    ASSUME ExamplesInv, [Next]_vars
    PROVE  ExamplesInv'
  <1>1. CASE InProg(ProgNext)
    <2>1. ProgInv /\ ProgNext /\ UNCHANGED <<writer, par, report>>
          /\ prog # "stress" /\ prog # "sigkill"
      BY <1>1 DEF InProg, others, stressVars, sigVars, ExamplesInv
    <2>2. ProgInv'
      BY <2>1, ProgStep
    <2>3. prog' \notin {"stress", "sigkill"}
      BY <2>2, FaultNames DEF ProgInv, ProgTypeOK
    <2> QED
      BY Zenon, <2>1, <2>2, <2>3 DEF ExamplesInv
  <1>2. CASE InStress(StressNext)
    <2>1. /\ StressInv /\ StressNext /\ UNCHANGED <<prog, mode, verdict, par, report>>
          /\ prog = "stress" /\ prog # "sigkill"
      BY <1>2 DEF InStress, own, progVars, sigVars, ExamplesInv
    <2>2. StressInv'
      BY <2>1, StressStep
    <2> QED
      BY Zenon, <2>1, <2>2 DEF ExamplesInv
  <1>3. CASE InSig(SigNext)
    <2>1. /\ SigInv /\ SigNext /\ UNCHANGED <<prog, mode, verdict, writer>>
          /\ prog = "sigkill" /\ prog # "stress"
      BY <1>3 DEF InSig, own, progVars, stressVars, ExamplesInv
    <2>2. SigInv'
      BY SMTT(30), <2>1, SigStep
    <2> QED
      BY Zenon, <2>1, <2>2 DEF ExamplesInv
  <1>4. CASE UNCHANGED vars
    <2>1. /\ UNCHANGED <<devs, own>> /\ UNCHANGED <<devs, stressVars>>
          /\ UNCHANGED <<prog, mode, verdict, writer, par, state, chi, killed>>
          /\ UNCHANGED <<nodes, found, there, report>>
      BY <1>4 DEF vars, own, progVars, stressVars, sigVars, devs
    <2>2. SigInv => SigInv'
      BY Zenon, <2>1 DEF SigInv, Present
    <2> QED
      BY Zenon, <2>1, <2>2, ProgStutter, StressStutter DEF ExamplesInv
  <1> QED
    BY Zenon, <1>1, <1>2, <1>3, <1>4 DEF Next, Ended

(* ExamplesInv holds in every behaviour.                                   *)
THEOREM ExamplesInvariant == Spec => []ExamplesInv
  <1>1. Init => ExamplesInv
    BY ExamplesStart
  <1>2. ExamplesInv /\ [Next]_vars => ExamplesInv'
    BY ExamplesStep
  <1> QED
    BY <1>1, <1>2, PTL DEF Spec

(* Only a verdict of DoJudge is "lost" or "swallowed", and none is         *)
(* "mismatch".                                                             *)
LEMMA VerdictStep ==
    ASSUME ProgInv, ProgNext
    PROVE  /\ verdict' # "mismatch"
           /\ verdict' = "lost" /\ verdict # "lost" =>
                 \A op \in {"read", "write"} :
                    counted[op] <= calls["storage"][op] + unseen + InFlight
           /\ verdict' = "swallowed" /\ verdict # "swallowed" =>
                 prog = "lowRate" /\ errs <= unseen
  <1>1. verdict' # "mismatch"
    BY ProgTypeStep DEF ProgTypeOK
  <1> SUFFICES ASSUME verdict' \in {"lost", "swallowed"}, verdict' # verdict
               PROVE  /\ verdict' = "lost" =>
                            \A op \in {"read", "write"} :
                               counted[op] <= calls["storage"][op] + unseen + InFlight
                      /\ verdict' = "swallowed" => prog = "lowRate" /\ errs <= unseen
    BY <1>1
  <1>2. DoJudge
    <2>1. verdict' # "env" /\ verdict' # "hung" /\ verdict' # "mismatch"
      BY <1>1
    <2>2. ~(DoNew \/ DoAcquire \/ DoTry \/ DoIssue \/ DoReturned \/ DoCompare)
      BY Zenon, <2>1 DEF DoNew, DoAcquire, DoTry, DoIssue, DoReturned, DoCompare, Advance, Return,
                         progVars
    <2>3. ~(DoLoad \/ DoCloseFd \/ DoClose \/ DoReturn \/ Hang)
      BY Zenon, <2>1 DEF DoLoad, DoCloseFd, DoClose, DoReturn, Hang, Advance, Return, progVars
    <2>4. ~(UnwindRelease \/ UnwindClose \/ Leave \/ \E d \in Devs : Device(d))
      BY Zenon, <2>1, DevicesQuiet DEF UnwindRelease, UnwindClose, Leave, progVars
    <2> QED
      BY Zenon, <2>2, <2>3, <2>4 DEF ProgNext, Forward, Unwind
  <1>3. verdict' = Judgement /\ In({"stats", "judge"})
    BY Zenon, <1>2 DEF DoJudge, Advance, Return
  <1> QED
    BY Zenon, <1>3, JudgementFair DEF InFlight, Ops

(* The verdicts of chain and fault, whichever program runs.                *)
LEMMA ErrorsStep ==
    ASSUME ExamplesInv, [Next]_vars
    PROVE  /\ verdict' # "mismatch"
           /\ verdict' = "lost" /\ verdict # "lost" =>
                 \A op \in {"read", "write"} :
                    counted[op] <= calls["storage"][op] + unseen + InFlight
           /\ verdict' = "swallowed" /\ verdict # "swallowed" =>
                 prog = "lowRate" /\ errs <= unseen
  <1>1. CASE InProg(ProgNext)
    BY Zenon, <1>1, VerdictStep DEF InProg, ExamplesInv
  <1>2. CASE ~InProg(ProgNext)
    <2>1. UNCHANGED verdict
      BY Zenon, <1>2 DEF Next, InStress, InSig, Ended, vars, own, progVars
    <2>2. verdict # "mismatch"
      <3>1. CASE prog \in {"stress", "sigkill"}
        BY <3>1 DEF ExamplesInv
      <3>2. CASE prog \notin {"stress", "sigkill"}
        BY <3>2 DEF ExamplesInv, ProgInv, ProgTypeOK
      <3> QED
        BY <3>1, <3>2
    <2> QED
      BY Zenon, <2>1, <2>2
  <1> QED
    BY <1>1, <1>2

(* chain, fault: whatever the kernel fails or retries and udev reads, no   *)
(* probe finds data corrupted, and one finds requests lost or errors       *)
(* swallowed only if as many errors have failed where the program could    *)
(* not see them, or a read of udev's is under way.                         *)
THEOREM ErrorsArePropagated == Spec => ErrorsPropagate
  <1>1. ExamplesInv /\ [Next]_vars =>
           [ /\ verdict' # "mismatch"
             /\ verdict' = "lost" /\ verdict # "lost" =>
                   \A op \in {"read", "write"} :
                      counted[op] <= calls["storage"][op] + unseen + InFlight
             /\ verdict' = "swallowed" /\ verdict # "swallowed" =>
                   prog = "lowRate" /\ errs <= unseen
           ]_vars
    BY Zenon, ErrorsStep
  <1> QED
    BY <1>1, ExamplesInvariant, PTL DEF Spec, ErrorsPropagate

(* The sequential programs have closed their fds of a device when they     *)
(* close the device.                                                       *)
THEOREM FdsAreClosedFirst == Spec => []FdsClosedFirst
  <1>1. ExamplesInv => FdsClosedFirst
    BY DEF ExamplesInv, ProgInv, ReleaseInv, ClosedInOrder, FdsClosedFirst
  <1> QED
    BY <1>1, ExamplesInvariant, PTL

(* A sequential program that ends otherwise than by a timeout leaves no    *)
(* device behind that it has not asked the kernel to remove.               *)
THEOREM ExitsAreClean == Spec => []ExitsClean
  <1>1. ExamplesInv => ExitsClean
    <2> SUFFICES ASSUME ExamplesInv, mode = "exit", verdict # "hung", NEW d \in Devs
                 PROVE  state[d] \in {"none", "gone", "left"}
      BY Zenon DEF ExitsClean
    <2>1. ProgInv
      BY DEF ExamplesInv
    <2>2. state[d] \notin {"live", "closing"}
      BY <2>1 DEF ProgInv, ReleaseInv, ClosedInOrder
    <2>3. state[d] \in {"none", "live", "closing", "gone", "left"}
      BY <2>1 DEF ProgInv, ProgTypeOK
    <2> QED
      BY <2>2, <2>3
  <1> QED
    BY <1>1, ExamplesInvariant, PTL

(* stress: until a close error is counted, no writer writes to a file of   *)
(* another round.                                                          *)
THEOREM WritersKeepHome == Spec => []WritersStayHome
  <1>1. ExamplesInv => WritersStayHome
    <2> SUFFICES ASSUME ExamplesInv, ~closeErrs, NEW w \in Writers, writer[w] = "in"
                 PROVE  inside[w][1] \in {RoundDevs[w[1]][i] : i \in DOMAIN RoundDevs[w[1]]}
      BY DEF WritersStayHome
    <2>1. StressInv
      BY DEF ExamplesInv
    <2>2. w \in Mine /\ inside[w][1] \in up
      BY <2>1 DEF StressInv, WritersInv
    <2>3. w[1] = round
      BY Zenon, <2>2 DEF Mine
    <2>4. inside[w][1] \in {RoundDevs[round][i] : i \in DOMAIN RoundDevs[round]}
      BY Zenon, <2>1, <2>2 DEF StressInv, SetupInv
    <2> QED
      BY Zenon, <2>3, <2>4
  <1> QED
    BY <1>1, ExamplesInvariant, PTL

(* stress: until a close error is counted, a round that is over has left   *)
(* no device up or half closed and no writer running.                      *)
THEOREM RoundsAreClean == Spec => []CleanRounds
  <1>1. ExamplesInv => CleanRounds
    <2> SUFFICES ASSUME ExamplesInv, prog = "stress", at \in {"top", "exit"}, ~closeErrs
                 PROVE  /\ \A d \in Devs : state[d] \notin {"live", "closing"}
                        /\ \A w \in Writers : writer[w] \in {"none", "done"}
      BY DEF CleanRounds
    <2>1. StressInv
      BY DEF ExamplesInv
    <2>2. \A d \in Devs : state[d] \notin {"live", "closing"}
      BY Zenon, <2>1 DEF StressInv, UpInv
    <2>3. \A w \in Writers : writer[w] \in {"none", "done"}
      BY <2>1 DEF StressInv, StressTypeOK, WritersInv
    <2> QED
      BY <2>2, <2>3
  <1> QED
    BY <1>1, ExamplesInvariant, PTL

(* sigkill: the parent never ends with a child it has not killed.          *)
THEOREM NoChildIsLeft == Spec => []NoChildSurvives
  <1>1. ExamplesInv => NoChildSurvives
    BY DEF ExamplesInv, SigInv, NoChildSurvives
  <1> QED
    BY <1>1, ExamplesInvariant, PTL

(* sigkill: the parent says that the child's nodes are gone only if they   *)
(* are, and warns only of a device that was there when it last began to    *)
(* look, although its own device may have had the same number.             *)
THEOREM ReportsAreTruthful == Spec => []ReportTruthful
  <1>1. ExamplesInv => ReportTruthful
    <2>1. CASE prog = "sigkill"
      BY <2>1 DEF ExamplesInv, SigInv, ReportTruthful
    <2>2. CASE prog # "sigkill"
      BY <2>2 DEF ExamplesInv, ReportTruthful
    <2> QED
      BY <2>1, <2>2
  <1> QED
    BY <1>1, ExamplesInvariant, PTL
=============================================================================
