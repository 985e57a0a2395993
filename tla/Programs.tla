----------------------------- MODULE Programs ------------------------------
(***************************************************************************)
(* The example programs that do one thing after the other: example/main.go *)
(* and the probes chain, fault (four scenarios), fsdemo and flushbench.    *)
(* Each is a list of steps; a step that acquires something may defer its   *)
(* release, an error unwinds the deferred releases, last first.  Devices   *)
(* are those of module Devices, each with one request of the program at a  *)
(* time, perhaps a read of udev's, and a worker that serves one of them by *)
(* calling the program's backend; the backend of chain's proxy does I/O on *)
(* the storage device.  The kernel may retry a request that failed.        *)
(***************************************************************************)
EXTENDS Devices, Naturals, Sequences

CONSTANTS
    Attempts,       \* requests of a fault scenario (200, 5, 5, 10 in the code)
    Roundtrips,     \* roundtrips of chain (20 in the code)
    Singles,        \* those that are a step each (4 in the code)
    Retries,        \* a bound on what the kernel retries in a program
    Looks           \* a bound on the reads of udev's

VARIABLES
    prog,       \* the program, or the scenario of fault, that runs
    pos,        \* its step; 0: the abandoned goroutine of a step has ended
    defers,     \* its deferred releases
    mode,       \* run, unwind, exit
    verdict,    \* what it returns: ok, or why it failed
    io,         \* per device: its request, none, queued, backend, ok, err
    calls,      \* per device: calls of its backend, where a verdict counts them
    look,       \* per device: udev's read, none, queued, backend
    looked,     \* how often udev has read a device
    unseen,     \* errors retried by the kernel, or of a read of udev's
    errs, saw,  \* errors the backend injected, errors the caller got
    rest,       \* requests the loop of a scenario has still to make
    counted,    \* the counters of the proxy, as checkStats has read them
    stored, got \* contents of chain's storage, of the buffer last read into

progVars == <<prog, pos, defers, mode, verdict>>
lookVars == <<look, looked, unseen>>
ioVars   == <<io, calls, errs, stored, got, lookVars>>
loopVars == <<saw, rest, counted>>

-----------------------------------------------------------------------------
(* A step, and one that defers the release of what it acquires.            *)
S(do, d) == [do |-> do, dev |-> d, defer |-> "none"]
D(do, d, release) == [do |-> do, dev |-> d, defer |-> release]

(* roundtrip, for pattern after pattern: write, read back, compare.        *)
roundtrip ==
    [i \in 1 .. 3 * Roundtrips |->
        [do |-> CASE i % 3 = 1 -> "write" [] i % 3 = 2 -> "read" [] OTHER -> "compare",
         dev |-> "proxy", defer |-> "none", val |-> (i + 2) \div 3]]

runChain ==
    <<D("new", "storage", "close"), D("open", "storage", "closefd"),
      D("new", "proxy", "close"), D("open", "proxy", "closefd")>>
    \o roundtrip \o <<S("load", "proxy"), S("stats", "proxy")>>

(* lowRate, totalWriteFail and totalReadFail.                              *)
Scenario(p) ==
    <<D("new", p, "close"), D("open", p, "closefd"), S("loop", p), S("judge", p)>>

closeWithErrors ==
    LET d == "closeWithErrors"
    IN  <<S("new", d), S("open", d), S("loop", d), S("closefd", d), S("close", d)>>

(* run of fsdemo: mkfs, MkdirTemp, mount, write, sync, read, and a signal. *)
fsdemo ==
    LET d == "fsdemo"
    IN  <<D("new", d, "close"), S("try", d), S("try", d), D("mount", d, "umount"),
          S("try", d), S("try", d), S("try", d), S("go", d)>>

(* run of flushbench: mkfs, MkdirTemp, mount; measure only logs errors.    *)
flushbench ==
    LET d == "flushbench"
    IN  <<D("new", d, "close"), S("try", d), S("try", d), D("mount", d, "umount"), S("go", d)>>

mainProgram == <<S("new", "main"), S("go", "main"), S("close", "main")>>

Fault == <<"lowRate", "totalWriteFail", "totalReadFail", "closeWithErrors">>
FaultProgs == {Fault[i] : i \in DOMAIN Fault}
Sequential == {"main", "chain", "fsdemo", "flushbench", "lowRate"}

ASSUME ProgramsAssumption ==
    /\ Attempts \in Nat \ {0} /\ Roundtrips \in Nat /\ Singles \in 0 .. Roundtrips
    /\ Retries \in Nat /\ Looks \in Nat
    /\ {"main", "storage", "proxy", "fsdemo", "flushbench"} \cup FaultProgs \subseteq Devs

Steps(p) ==
    CASE p = "main"            -> mainProgram
      [] p = "chain"           -> runChain
      [] p = "fsdemo"          -> fsdemo
      [] p = "flushbench"      -> flushbench
      [] p = "closeWithErrors" -> closeWithErrors
      [] OTHER                 -> Scenario(p)

NoCalls == [read |-> 0, write |-> 0]
ProgInit ==
    /\ pos = 1 /\ defers = <<>> /\ mode = "run" /\ verdict = "ok"
    /\ io = [d \in Devs |-> "none"] /\ calls = [d \in Devs |-> NoCalls]
    /\ look = [d \in Devs |-> "none"] /\ looked = 0 /\ unseen = 0
    /\ errs = 0 /\ saw = 0 /\ rest = Attempts /\ counted = NoCalls
    /\ stored = 0 /\ got = 0

-----------------------------------------------------------------------------
(* The step that runs.  The goroutine of a step of chain goes on after     *)
(* runStep has given up on it.                                             *)
Abandoned == prog = "chain" /\ mode = "unwind" /\ verdict = "hung"
Cur == Steps(prog)[pos]
At(dos) == /\ mode = "run" \/ Abandoned
           /\ pos \in DOMAIN Steps(prog) /\ Cur.do \in dos
In(dos) == mode = "run" /\ At(dos)

Advance == pos' = pos + 1 /\ UNCHANGED <<prog, mode, verdict>>
Return(v) ==
    IF Abandoned THEN pos' = 0 /\ UNCHANGED <<prog, mode, verdict>>
    ELSE mode' = "unwind" /\ verdict' = v /\ UNCHANGED <<prog, pos>>
Defer == defers' = IF Cur.defer = "none" THEN defers
                   ELSE Append(defers, S(Cur.defer, Cur.dev))

(* ublk.New.                                                               *)
DoNew ==
    /\ In({"new"})
    /\ \/ Create(Cur.dev) /\ Advance /\ Defer
       \/ Return("env") /\ UNCHANGED <<devs, defers>>
    /\ UNCHANGED <<ioVars, loopVars>>

MutOpenErrorLeaks ==
    /\ In({"open", "mount"})
    /\ \/ Hold(Cur.dev, Cur.do) /\ Advance /\ Defer
       \/ /\ Return("env") /\ UNCHANGED <<devs, defers>>
    /\ UNCHANGED <<ioVars, loopVars>>

(* unix.Open of the block device, mount; closeWithErrors, which defers     *)
(* nothing, closes its device when it cannot open it.                      *)
DoAcquire ==
    /\ In({"open", "mount"})
    /\ \/ Hold(Cur.dev, Cur.do) /\ Advance /\ Defer
       \/ /\ Return("env") /\ UNCHANGED devs
          /\ defers' = IF Cur.defer = "none" THEN Append(defers, S("close", Cur.dev))
                       ELSE defers
    /\ UNCHANGED <<ioVars, loopVars>>

(* A command or a file operation that may fail; one that only logs, or a   *)
(* signal waited for.                                                      *)
DoTry ==
    /\ \/ In({"try"}) /\ Return("env")
       \/ In({"try", "go"}) /\ Advance
    /\ UNCHANGED <<defers, devs, ioVars, loopVars>>

(* Pread or Pwrite is called; a closed fd is an error.                     *)
DoIssue ==
    /\ At({"write", "read", "loop"}) /\ io[Cur.dev] = "none"
    /\ IF "open" \in holds[Cur.dev]
       THEN io' = [io EXCEPT ![Cur.dev] = "queued"] /\ UNCHANGED progVars
       ELSE Return("env") /\ UNCHANGED <<defers, io>>
    /\ UNCHANGED <<devs, calls, errs, stored, got, lookVars, loopVars>>

(* ... and returns: chain gives up on an error, the scenarios count it.    *)
DoReturned ==
    /\ At({"write", "read", "loop"}) /\ io[Cur.dev] \in {"ok", "err"}
    /\ io' = [io EXCEPT ![Cur.dev] = "none"]
    /\ IF Cur.do = "loop"
       THEN /\ saw' = IF io[Cur.dev] = "err" THEN saw + 1 ELSE saw
            /\ rest' = rest - 1
            /\ IF rest = 1 THEN Advance ELSE UNCHANGED <<prog, pos, mode, verdict>>
            /\ UNCHANGED counted
       ELSE /\ IF io[Cur.dev] = "ok" THEN Advance ELSE Return("env")
            /\ UNCHANGED loopVars
    /\ UNCHANGED <<defers, devs, calls, errs, stored, got, lookVars>>

(* roundtrip compares what it read, and what the storage backend holds,    *)
(* with the pattern.  A goroutine that is on its own goes on to the next   *)
(* roundtrip of the same step, if there is one.                            *)
DoCompare ==
    /\ At({"compare"})
    /\ IF got # Cur.val \/ stored # Cur.val THEN Return("mismatch")
       ELSE IF Abandoned /\ Cur.val \notin Singles + 1 .. Roundtrips - 1
       THEN pos' = 0 /\ UNCHANGED <<prog, mode, verdict>>
       ELSE Advance
    /\ UNCHANGED <<defers, devs, ioVars, loopVars>>

(* checkStats reads the counters of the proxy's backend ...                *)
DoLoad ==
    /\ In({"load"})
    /\ counted' = calls["proxy"] /\ Advance
    /\ UNCHANGED <<defers, devs, ioVars, saw, rest>>

(* ... and then those of the storage, to compare them.  The verdicts of    *)
(* the scenarios.                                                          *)
Judgement ==
    CASE prog = "chain" ->
            IF \E op \in {"read", "write"} : calls["storage"][op] < counted[op]
            THEN "lost" ELSE "ok"
      [] prog = "lowRate" ->
            IF calls[prog].write < Attempts \/ errs = 0 THEN "env"
            ELSE IF saw = 0 THEN "swallowed" ELSE "ok"
      [] OTHER -> IF saw < Attempts THEN "swallowed" ELSE "ok"
DoJudge ==
    /\ In({"stats", "judge"})
    /\ IF Judgement = "ok" THEN Advance ELSE Return(Judgement)
    /\ UNCHANGED <<defers, devs, ioVars, loopVars>>

(* Explicit closes.  The result of Close is an error if DEL_DEV fails.     *)
DoCloseFd ==
    /\ In({"closefd"})
    /\ Unhold(Cur.dev, "open") /\ Advance
    /\ UNCHANGED <<defers, ioVars, loopVars>>
DoClose ==
    /\ In({"close"})
    /\ \/ BeginClose(Cur.dev) /\ UNCHANGED progVars
       \/ /\ state[Cur.dev] \in {"gone", "left"}
          /\ IF state[Cur.dev] = "gone" THEN Advance ELSE Return("env")
          /\ UNCHANGED <<defers, devs>>
    /\ UNCHANGED <<ioVars, loopVars>>

DoReturn ==
    /\ mode = "run" /\ pos = Len(Steps(prog)) + 1
    /\ mode' = "unwind"
    /\ UNCHANGED <<prog, pos, verdict, defers, devs, ioVars, loopVars>>

(* runStep's timeout panics: chain's main goroutine unwinds; in fault the  *)
(* scenario is another goroutine, whose defers a panic elsewhere does not  *)
(* run.  closeWithErrors also stops waiting for Close on its own.          *)
Hang ==
    /\ \/ In({"write", "read"}) /\ Return("hung")
       \/ In({"close"}) /\ prog = "closeWithErrors" /\ Return("hung")
       \/ /\ prog \in FaultProgs /\ mode \in {"run", "unwind"}
          /\ mode' = "exit" /\ verdict' = "hung" /\ UNCHANGED <<prog, pos>>
    /\ UNCHANGED <<defers, devs, ioVars, loopVars>>

-----------------------------------------------------------------------------
MutFirst == defers[1]

(* The deferred call that runs next: the last one.                         *)
Last == defers[Len(defers)]
Popped == SubSeq(defers, 1, Len(defers) - 1)

(* A deferred unix.Close, umount (whose error is only logged), dev.Close.  *)
UnwindRelease ==
    /\ mode = "unwind" /\ defers # <<>> /\ Last.do \in {"closefd", "umount"}
    /\ \/ Unhold(Last.dev, IF Last.do = "closefd" THEN "open" ELSE "mount")
       \/ Last.do = "umount" /\ UNCHANGED devs
    /\ defers' = Popped
    /\ UNCHANGED <<prog, pos, mode, verdict, ioVars, loopVars>>
MutUntilGone ==
    /\ mode = "unwind" /\ defers # <<>> /\ Last.do = "close"
    /\ \/ BeginClose(Last.dev) /\ UNCHANGED defers
       \/ state[Last.dev] = "gone" /\ defers' = Popped /\ UNCHANGED devs
    /\ UNCHANGED <<prog, pos, mode, verdict, ioVars, loopVars>>
UnwindClose ==
    /\ mode = "unwind" /\ defers # <<>> /\ Last.do = "close"
    /\ \/ BeginClose(Last.dev) /\ UNCHANGED defers
       \/ /\ state[Last.dev] \in {"gone", "left"}
          /\ defers' = Popped /\ UNCHANGED devs
    /\ UNCHANGED <<prog, pos, mode, verdict, ioVars, loopVars>>

(* The program ends; fault goes on to its next scenario if all is well.    *)
Leave ==
    /\ mode = "unwind" /\ defers = <<>>
    /\ IF \E i \in 1 .. Len(Fault) - 1 : Fault[i] = prog /\ verdict = "ok"
       THEN /\ \E i \in 1 .. Len(Fault) - 1 : Fault[i] = prog /\ prog' = Fault[i + 1]
            /\ mode' = "run" /\ pos' = 1
            /\ calls' = [calls EXCEPT ![prog] = NoCalls]
            /\ errs' = 0 /\ saw' = 0 /\ rest' = Attempts /\ unseen' = 0
       ELSE mode' = "exit" /\ UNCHANGED <<prog, pos, calls, errs, saw, rest, unseen>>
    /\ UNCHANGED <<defers, verdict, devs, io, look, looked, counted, stored, got>>

-----------------------------------------------------------------------------
(***************************************************************************)
(* The devices.                                                            *)
(***************************************************************************)
MutForgetsError(r) == "ok"

(* fdBackend.ReadAt and WriteAt return what Pread and Pwrite returned.     *)
Forwarded(r) == r

(* What the request is that the worker of the proxy, or the program, has   *)
(* in flight, where it matters.                                            *)
ProgOp == IF prog = "chain" /\ pos # 0 /\ Cur.do = "read" THEN "read" ELSE "write"
Op == IF look["proxy"] = "backend" THEN "read" ELSE ProgOp

(* The worker of d is free for a request.  fdBackend's first step is a     *)
(* request to the storage device, if its fd is open.                       *)
WorkerFree(d) ==
    /\ mode # "exit" /\ state[d] \in {"live", "closing"}
    /\ io[d] # "backend" /\ look[d] # "backend"
    /\ d = "proxy" => io["storage"] = "none"
ToStorage == IF "open" \in holds["storage"] THEN "queued" ELSE "err"

(* The worker takes a request and calls the backend.                       *)
Take(d) ==
    /\ WorkerFree(d) /\ io[d] = "queued"
    /\ io' = [e \in Devs |->
                IF e = d THEN "backend"
                ELSE IF d = "proxy" /\ e = "storage" THEN ToStorage
                ELSE io[e]]
    /\ calls' = IF d \in {"storage", "proxy", "lowRate"}
                THEN [calls EXCEPT ![d][Op] = @ + 1] ELSE calls
    /\ UNCHANGED <<progVars, devs, errs, stored, got, lookVars, loopVars>>

(* What a backend may answer: faultyBackend by its rates.                  *)
Answers(d) ==
    CASE d = "lowRate" -> {"ok", "err"}
      [] d \in FaultProgs \ {"lowRate"} -> {"err"}
      [] OTHER -> {"ok"}

(* A backend returns, and the worker commits its result.                   *)
Answer(d) ==
    /\ mode # "exit" /\ io[d] = "backend"
    /\ IF d = "proxy"
       THEN /\ io["storage"] \in {"ok", "err"}
            /\ io' = [io EXCEPT ![d] = Forwarded(io["storage"]),
                                !["storage"] = "none"]
            /\ UNCHANGED <<errs, stored, got>>
       ELSE \E r \in Answers(d) :
            /\ io' = [io EXCEPT ![d] = r]
            /\ errs' = IF d = "lowRate" /\ r = "err" THEN errs + 1 ELSE errs
            /\ IF d = "storage" /\ io["proxy"] = "backend" /\ pos # 0
               THEN /\ stored' = IF Cur.do = "write" THEN Cur.val ELSE stored
                    /\ got' = IF Cur.do = "read" THEN stored ELSE got
               ELSE UNCHANGED <<stored, got>>
    /\ UNCHANGED <<progVars, devs, calls, lookVars, loopVars>>

(* The kernel fails a request no worker has taken (external), as it does   *)
(* with all of them once the worker is gone.                               *)
KFail(d) ==
    /\ io[d] = "queued"
    /\ io' = [io EXCEPT ![d] = "err"]
    /\ UNCHANGED <<progVars, devs, calls, errs, stored, got, lookVars, loopVars>>

(* The kernel tries a request that failed once more, and the caller gets   *)
(* the result of the last try only (external; fault/main.go:182-184).      *)
KRetry(d) ==
    /\ io[d] = "err" /\ state[d] \in {"live", "closing"} /\ unseen < Retries
    /\ io' = [io EXCEPT ![d] = "queued"] /\ unseen' = unseen + 1
    /\ UNCHANGED <<progVars, devs, calls, errs, stored, got, look, looked, loopVars>>

(* DEL_DEV, after the worker has returned and the system calls have.       *)
Remove(d) ==
    /\ mode # "exit" /\ io[d] \notin {"queued", "backend"} /\ look[d] = "none"
    /\ Delete(d) \/ DeleteRefused(d)
    /\ UNCHANGED <<progVars, ioVars, loopVars>>

(* udev opens the device, reads it if it likes, and closes it (external);  *)
(* its reads are modelled where a verdict counts them.                     *)
UdevOpens(d) ==
    /\ mode # "exit" /\ state[d] # "left"
    /\ Hold(d, "udev")
    /\ \/ UNCHANGED <<look, looked>>
       \/ /\ d \in {"storage", "proxy"} /\ look[d] = "none"
          /\ looked < Looks /\ looked' = looked + 1
          /\ look' = [look EXCEPT ![d] = "queued"]
    /\ UNCHANGED <<progVars, io, calls, errs, stored, got, unseen, loopVars>>
UdevLeaves(d) ==
    /\ look[d] = "none"
    /\ Unhold(d, "udev") /\ UNCHANGED <<progVars, ioVars, loopVars>>

(* The worker serves a read of udev's, by the same backend.                *)
TakeLook(d) ==
    /\ WorkerFree(d) /\ look[d] = "queued"
    /\ look' = [look EXCEPT ![d] = "backend"]
    /\ calls' = [calls EXCEPT ![d].read = @ + 1]
    /\ io' = IF d = "proxy" THEN [io EXCEPT !["storage"] = ToStorage] ELSE io
    /\ UNCHANGED <<progVars, devs, errs, stored, got, looked, unseen, loopVars>>
AnswerLook(d) ==
    /\ mode # "exit" /\ look[d] = "backend"
    /\ look' = [look EXCEPT ![d] = "none"]
    /\ IF d = "proxy"
       THEN /\ io["storage"] \in {"ok", "err"}
            /\ io' = [io EXCEPT !["storage"] = "none"]
            /\ unseen' = IF io["storage"] = "err" THEN unseen + 1 ELSE unseen
       ELSE UNCHANGED <<io, unseen>>
    /\ UNCHANGED <<progVars, devs, calls, errs, stored, got, looked, loopVars>>
FailLook(d) ==
    /\ look[d] = "queued" /\ look' = [look EXCEPT ![d] = "none"]
    /\ UNCHANGED <<progVars, devs, io, calls, errs, stored, got, looked, unseen, loopVars>>

Forward == DoNew \/ DoAcquire \/ DoTry \/ DoIssue \/ DoReturned \/ DoCompare
           \/ DoLoad \/ DoJudge \/ DoCloseFd \/ DoClose \/ DoReturn
Unwind == UnwindRelease \/ UnwindClose \/ Leave
Serve(d) == Take(d) \/ Answer(d) \/ TakeLook(d) \/ AnswerLook(d)
Fail(d) == KFail(d) \/ FailLook(d)
Device(d) == Serve(d) \/ Fail(d) \/ KRetry(d) \/ Remove(d)
             \/ UdevOpens(d) \/ UdevLeaves(d)

ProgNext == Forward \/ Unwind \/ Hang \/ \E d \in Devs : Device(d)

-----------------------------------------------------------------------------
(***************************************************************************)
(* Why the programs are right, as an inductive invariant.                  *)
(***************************************************************************)
Progs == Sequential \cup FaultProgs
Releases == [do : {"close", "closefd", "umount"}, dev : Devs, defer : {"none"}]
ProgTypeOK ==
    /\ state \in [Devs -> {"none", "live", "closing", "gone", "left"}]
    /\ holds \in [Devs -> SUBSET {"open", "mount", "udev"}]
    /\ prog \in Progs /\ pos \in Nat /\ mode \in {"run", "unwind", "exit"}
    /\ verdict \in {"ok", "env", "hung", "lost", "swallowed"}
    /\ defers \in Seq(Releases)
    /\ io \in [Devs -> {"none", "queued", "backend", "ok", "err"}]
    /\ look \in [Devs -> {"none", "queued", "backend"}]
    /\ looked \in Nat /\ unseen \in Nat
    /\ calls \in [Devs -> [read : Nat, write : Nat]]
    /\ counted \in [read : Nat, write : Nat]
    /\ errs \in Nat /\ saw \in Nat /\ rest \in Nat
    /\ mode = "run" => pos # 0 /\ verdict = "ok"

(* The two programs that defer nothing, the step at which they close their *)
(* device, and where they hold what.                                       *)
Explicit == {"main", "closeWithErrors"}
Length(p) == IF p = "main" THEN 3 ELSE 5
OwnsDevice(d) ==
    /\ mode = "run" /\ prog \in Explicit /\ d = prog
    /\ pos \in 2 .. Length(prog)
OwnsFd(d) ==
    mode = "run" /\ prog = "closeWithErrors" /\ d = prog /\ pos \in {3, 4}

(* The deferred releases: the fd of a device before the device.            *)
DefersInOrder ==
    /\ \A i \in DOMAIN defers : state[defers[i].dev] # "none"
    /\ \A i, j \in DOMAIN defers :
          defers[i].dev = defers[j].dev /\ defers[i].do = "close" /\ defers[j].do = "closefd"
             => i < j
    /\ mode = "run" /\ prog \in Explicit => defers = <<>>
Deferred(do, d) == \E i \in DOMAIN defers : defers[i] = S(do, d)

(* Whatever a program holds it is about to release, and it closes nothing  *)
(* before it unwinds, but for the devices it closes explicitly.            *)
FdsOwned ==
    /\ \A d \in Devs : OwnsFd(d) => "open" \in holds[d]
    /\ mode # "exit" =>
          \A d \in Devs : "open" \in holds[d] => OwnsFd(d) \/ Deferred("closefd", d)
DevicesOwned ==
    /\ \A d \in Devs : OwnsDevice(d) => state[d] # "none"
    /\ mode # "exit" /\ verdict # "hung" =>
          \A d \in Devs : state[d] \in {"live", "closing"} =>
             OwnsDevice(d) \/ Deferred("close", d)
ClosedInOrder ==
    /\ \A d \in Devs : "open" \in holds[d] => state[d] \notin {"none", "closing"}
    /\ mode = "run" => \A d \in Devs : state[d] = "closing" => In({"close"})
    /\ mode = "exit" /\ verdict # "hung" =>
          \A d \in Devs : state[d] \notin {"live", "closing"}
ReleaseInv == DefersInOrder /\ FdsOwned /\ DevicesOwned /\ ClosedInOrder

(* The scenarios of fault: an error the backend injected has been counted, *)
(* is about to be, or has been retried; a backend that always fails never  *)
(* succeeds.                                                               *)
CountInv ==
    /\ \A d \in FaultProgs : io[d] # "none" => state[d] # "none"
    /\ \A d \in FaultProgs \ {"lowRate"} : io[d] # "ok"
    /\ mode = "run" /\ prog \in FaultProgs /\ pos \notin {1, 3} => io[prog] = "none"
    /\ prog = "lowRate" => errs <= saw + unseen + (IF io["lowRate"] = "err" THEN 1 ELSE 0)
    /\ mode = "run" /\ prog \in FaultProgs /\ pos <= 3 => rest # 0
    /\ mode = "run" /\ prog \in FaultProgs \ {"lowRate"} =>
          IF pos <= 3 THEN saw + rest = Attempts ELSE saw = Attempts

(* chain: a request is at the storage while the proxy's backend waits for  *)
(* it; a write that has succeeded is stored, a read has got what is stored.*)
(* The storage has been asked for all the proxy was, but for a request     *)
(* that is on its way, one the program is about to see fail, and those     *)
(* nobody saw fail.                                                        *)
Ops == {"read", "write"}
Done == io["proxy"] = "ok" \/ (io["proxy"] = "backend" /\ io["storage"] = "ok")
OnWay(op, reader, its) ==
    IF reader = "backend" /\ io["storage"] \in {"queued", "err"} /\ op = its THEN 1 ELSE 0
ToFail(op) == IF io["proxy"] = "err" /\ op = ProgOp THEN 1 ELSE 0
Slack(op) ==
    OnWay(op, io["proxy"], ProgOp) + ToFail(op) + OnWay(op, look["proxy"], "read")
Forwards(op) == calls["proxy"][op] <= calls["storage"][op] + unseen + Slack(op)
InLine ==
    /\ io["storage"] # "none" => "backend" \in {io["proxy"], look["proxy"]}
    /\ ~(io["proxy"] = "backend" /\ look["proxy"] = "backend")
    /\ io["proxy"] # "none" => In({"write", "read"})
DataThrough ==
    /\ In({"write"}) /\ Done => stored = Cur.val
    /\ In({"read"}) => stored = Cur.val /\ (Done => got = Cur.val)
    /\ In({"compare"}) => stored = Cur.val /\ got = Cur.val
ChainInv ==
    mode = "run" /\ prog = "chain" =>
        /\ InLine /\ DataThrough
        /\ \A op \in Ops : Forwards(op)
        /\ In({"stats"}) => \A op \in Ops : counted[op] <= calls["proxy"][op]

ProgInv == ProgTypeOK /\ ReleaseInv /\ CountInv /\ ChainInv
=============================================================================
