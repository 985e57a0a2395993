----------------------------- MODULE Examples ------------------------------
(***************************************************************************)
(* The example programs, one of which runs in every behaviour, and what    *)
(* their authors rely on.  The programs share the devices of module        *)
(* Devices and nothing else.                                               *)
(***************************************************************************)
EXTENDS Programs, Stress, Sigkill

CONSTANT Which      \* the programs considered

ASSUME ExamplesAssumption == Which \subseteq Sequential \cup {"stress", "sigkill"}

others == <<stressVars, sigVars>>
own    == <<progVars, ioVars, loopVars>>
vars   == <<devs, own, stressVars, sigVars>>

Init == /\ DevInit /\ ProgInit /\ StressInit /\ SigInit
        /\ prog \in Which

InProg(A)   == prog \notin {"stress", "sigkill"} /\ A /\ UNCHANGED others
InStress(A) == prog = "stress" /\ A /\ UNCHANGED <<own, sigVars>>
InSig(A)    == prog = "sigkill" /\ A /\ UNCHANGED <<own, stressVars>>

(* A program that has ended stays so.                                      *)
Ended ==
    /\ mode = "exit" \/ at = "exit" \/ par \in {"exit0", "exit1"}
    /\ UNCHANGED vars

Next == InProg(ProgNext) \/ InStress(StressNext) \/ InSig(SigNext) \/ Ended

(* Goroutines, workers and timers that can go on do; a user ends an        *)
(* interactive program; udev closes what it opened.  DEL_DEV succeeds when *)
(* the last holder leaves, even if udev would keep coming back.  Nothing   *)
(* makes a timeout of a sequential program happen, or the kernel remove an *)
(* orphan or retry a request; sigkill's deadline comes however often it    *)
(* asks.                                                                   *)
Fairness ==
    /\ WF_vars(InProg(Forward)) /\ WF_vars(InProg(Unwind))
    /\ WF_vars(InProg(\E d \in Devs : Serve(d)))
    /\ WF_vars(InProg(\E d \in Devs : Fail(d) /\ state[d] # "live"))
    /\ WF_vars(InProg(UdevLeaves("proxy")))
    /\ WF_vars(InProg(\E d \in Devs \ {"proxy"} : UdevLeaves(d)))
    /\ SF_vars(InProg(\E d \in Devs : Remove(d) /\ holds[d] = {}))
    /\ WF_vars(InStress(StressMain)) /\ WF_vars(InStress(WaitTimeout))
    /\ \A w \in Writers : WF_vars(InStress(Pwrite(w) \/ PwriteReturns(w)))
    /\ WF_vars(InStress(\E d \in Devs : StressClose(d)))
    /\ WF_vars(InStress(\E d \in Devs : StressRemove(d) /\ holds[d] = {}))
    /\ WF_vars(InStress(\E d \in Devs : CloseAwaited(d)))
    /\ WF_vars(InSig(Parent)) /\ SF_vars(InSig(Deadline))

Spec == Init /\ [][Next]_vars /\ Fairness

-----------------------------------------------------------------------------
(* What the probes report of the library, whatever requests the kernel     *)
(* fails or retries and udev reads on the way.  Data written through two   *)
(* stacked devices is always read back (chain's roundtrip).  checkStats    *)
(* finds requests of the proxy lost only if as many have failed unseen by  *)
(* the program, or are on their way.  fault finds errors swallowed only in *)
(* lowRate, and only if the kernel has retried every one of them.          *)
InFlight == IF look["proxy"] = "backend" THEN 1 ELSE 0
ErrorsPropagate ==
    [][ /\ verdict' # "mismatch"
        /\ verdict' = "lost" /\ verdict # "lost" =>
              \A op \in {"read", "write"} :
                 counted[op] <= calls["storage"][op] + unseen + InFlight
        /\ verdict' = "swallowed" /\ verdict # "swallowed" =>
              prog = "lowRate" /\ errs <= unseen
      ]_vars

(* The program that closes a device has closed its own fds of it, which    *)
(* device.go:235-241 demands, on every path through the deferred calls; a  *)
(* mount it may still have, if umount failed.                              *)
FdsClosedFirst ==
    prog \notin {"stress", "sigkill"} =>
        \A d \in Devs : state[d] = "closing" => "open" \notin holds[d]

(* A program that ends otherwise than by a timeout leaves no device        *)
(* behind whose removal it has not at least asked for, also when one of    *)
(* its steps failed.                                                       *)
ExitsClean ==
    mode = "exit" /\ verdict # "hung" =>
        \A d \in Devs : state[d] \in {"none", "gone", "left"}

(* Every program ends: the sequential ones, unless a failed umount keeps   *)
(* the device busy, for then Close waits for ever (fsdemo/main.go:112-116  *)
(* only logs it), and the parent of the sigkill probe, whose every wait    *)
(* for the child has a timeout.  The rounds of stress are below.           *)
Pinned == prog \in Sequential /\ \E d \in Devs : state[d] = "closing" /\ "mount" \in holds[d]
ProgramsEnd ==
    (prog # "stress") ~> (mode = "exit" \/ Pinned \/ par \in {"exit0", "exit1"})

(* As long as stress has counted no close error, no writer writes to a     *)
(* file of another round, although fd numbers are reused: main waits for   *)
(* the writers before it opens anything (stress/main.go:252-258).          *)
WritersStayHome ==
    ~closeErrs => \A w \in Writers : writer[w] = "in" =>
                    inside[w][1] \in {RoundDevs[w[1]][i] : i \in DOMAIN RoundDevs[w[1]]}

(* As long as stress has counted no close error, a round that is over has  *)
(* left no device up or half closed and no writer running.                 *)
CleanRounds ==
    prog = "stress" /\ at \in {"top", "exit"} /\ ~closeErrs =>
        /\ \A d \in Devs : state[d] \notin {"live", "closing"}
        /\ \A w \in Writers : writer[w] \in {"none", "done"}

(* Every round of stress comes to its end.                                 *)
RoundsEnd == (at \notin {"top", "exit"}) ~> (at \in {"top", "exit"})

(* The parent of the sigkill probe never ends with the child running and   *)
(* not killed, whichever of its steps fails or times out.                  *)
NoChildSurvives ==
    par \in {"exit0", "exit1"} => killed \/ chi \in {"none", "dead"}

(* What the parent logs about the child's nodes is true, although it looks *)
(* at one after the other while the kernel removes them, and although its  *)
(* own device may have had the same number: both are gone if it says so,   *)
(* and it does not warn of nodes that were gone when it last began to look *)
(* (sigkill/main.go:190-194, 233-247).  A warning may still be out of      *)
(* date: there is no look after the last sleep.                            *)
ReportTruthful ==
    /\ report = "gone" => ~Present("child")
    /\ report = "warn" => there

(* "Exit 0 = child cleanup happened without our help ... Non-zero = the    *)
(* child's device nodes lingered" (sigkill/main.go:15-17).                 *)
ExitZeroMeansGone == par = "exit0" => ~Present("child")
=============================================================================
