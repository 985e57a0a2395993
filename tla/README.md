# ublk-go: a TLA+ verification

`ublk` serves a Linux block device from a Go program. The program gives
`ublk.New` a backend (`ReadAt`, `WriteAt`, optionally `DiscardAt` and
`WriteZeroesAt`), the kernel driver ublk_drv turns block requests into
completions of an io_uring, and one worker goroutine answers them. This
directory holds TLA+ models of that code, TLC configurations that check them on
small instances, and TLAPS proofs, for every value of the constants, of the
safety properties of the library's parts and of its example programs, and of the
three refinements between the detailed models and the abstract ones.

## The system

| Part | Code | Module |
|---|---|---|
| submission and completion ring, cancellation | `ublk/uring/uring.go` | `Ring` (index by index), `RingFifo` (as a queue) |
| worker: event loop, `handleIO`, answers | `ublk/worker.go` | `UblkQueue` |
| `New`, control commands, ring setup, `Close`, `shutdown` | `ublk/ublk.go`, `ublk/device.go`, `ublk/uring/uring.go` | `Lifecycle`; the part that races the worker also in `UblkQueue` |
| options, `validate`, `setParams`, sector arithmetic | `ublk/ublk.go`, `ublk/device.go`, `ublk/worker.go` | `Sizes` |
| what a program sees of its devices | `ublk/ublk.go`, `ublk/device.go` | `Devices` (abstract) |
| `example`, `chain`, `fault`, `fsdemo`, `flushbench` | `example/**` | `Programs` |
| `stress`, `sigkill` | `example/stress`, `example/sigkill` | `Stress`, `Sigkill` |
| what users of the block device may rely on | `ublk/porcupine_integration_test.go` | `BlockDevice` (abstract) |
| io_uring, ublk_drv, block layer, users, backend | outside the repository | external actions of `Ring`, `UblkQueue`, `Lifecycle` |

How they interact: `New` opens `/dev/ublk-control` and a control ring, sends
ADD_DEV, opens `/dev/ublkcN`, sends SET_PARAMS, sets up the worker's ring with
one FETCH per tag, launches `worker.run`, waits for it on the channel `ready`,
and sends START_DEV. A request for tag t completes the command parked for t;
`run` reads the CQE, calls the backend, prepares a COMMIT_AND_FETCH for t, and
submits a batch of those when no more CQEs are there. `Close` runs `shutdown`
once: cancel the worker's ring, wait for the goroutine, unmap, close the
character device, STOP_DEV, DEL_DEV, close the control ring.

## The modules

**`Ring`** has the indices of the Go struct (`sqeLocalHead`, `sqeLocalTail`) and
of the shared memory (`sqHead`, `sqTail`, `cqHead`, `cqTail`) as integers of
`Width` bits, the slots they point to, and the steps of `WaitCQE` and `Cancel`
one by one: flag, ring, `epoll_wait`; flag, eventfd. `io_uring_enter` consumes
SQEs one at a time while the submitter is inside the call. With `ShortSubmits`
it may stop early, with `SyscallsFail` it may return an error.

**`RingFifo`** is the submission ring without indices: a queue `sq` of what was
handed out and not consumed, and the number `unflushed` the next flush counts.
It keeps what matters to callers: `flushSQ` counts everything as submitted
before the kernel says how much it took. The property `ImplementsFifo` shows
that `Ring` implements it. `UblkQueue` and `Lifecycle` extend it.

**`UblkQueue`** is one queue from the launch of `run` to the end of `shutdown`.
`pc` is the place `run` is at, `dev` the place `New` or `shutdown` is at, `cq`
the unseen completions, `kio` the driver's state per tag, `desc` and `bufs` the
shared descriptors and buffers, `data` the backend's storage. The actions of the
worker carry the names of the functions; those of the driver begin with `K`.
A backend call succeeds or fails after any part of its effect; `handleIO` is
split at that call, because it takes effect there.

**`BlockDevice`** says what the device promises: every request takes effect at
one instant between issue and answer, success is answered only after the effect
and with what a read saw, an error leaves everything outside the request's
extent alone. `Linearizable` maps `UblkQueue` to it: a request has taken effect
when `handleIO` has a result for it.

**`Lifecycle`** is a device from `New` to `Close`: `at` is the step, `phase` the
place inside `ctrlCommand`, `handles` what is open or mapped, `kdev` the
kernel's device. A call of `New` (`Calls`) has a backend, capabilities, a size and
options. Every step can fail and leads where the code goes; `uring.setup` acquires
the fd, the mappings, the eventfd and the epoll fd of each ring one by one.
`Close` is called by several goroutines through `sync.Once`. The worker appears
only as running or ended; its loop is `UblkQueue`.

**`Sizes`** is the arithmetic, by value and with the code's constants: `Config`
(defaults and options), `validate`, `BufSize`, `Params` (what `setParams` sends),
`Served` (what `handleIO` accepts), `roundUp2`. `Lifecycle` and `Ring` extend it.

**`Devices`** is the lifecycle as a program sees it: `New` brings a device up,
holders (fds, mounts, system calls in progress, udev) come and go, `Close` begins,
and DEL_DEV succeeds once nobody holds the device or is refused. The property
`ImplementsDevices` shows that `Lifecycle` implements it.

**`Programs`** has the sequential examples as lists of steps (`runChain`,
`closeWithErrors`, `fsdemo`, ...): a step may fail, may defer a release, and an
error runs the deferred releases, last first. A request travels from the caller
through the worker to the backend; the backend of chain's proxy issues a request
of its own to the storage device. udev may read either of chain's devices (`look`),
and its reads go through the same worker and the same counters. The kernel may fail
a request, or retry one that failed, so that the caller gets the last result only;
`unseen` counts the errors no caller got. `checkStats` loads the proxy's counters in
one step (`counted`) and the storage's in the next. `Hang` is the timeout of `runStep`:
in chain the panic unwinds the main goroutine while the abandoned one goes on to the
end of its step, of several roundtrips if it is the last one; in fault it ends the
process with no deferred call run.

**`Stress`** runs rounds of the four stressors. File descriptors are numbers, the
lowest free one first, and a system call keeps the file it began on, so that a
writer that outlives its round can meet a reused number.

**`Sigkill`** is the parent, the child and the kernel of that probe. The child may
die at any step, also inside `New`; device numbers are reused. The kernel removes an
orphan's nodes one by one. `waitGone` asks for the block device, then for the character
device, sleeps, and asks again until a deadline that it tests only after a sleep;
`there` remembers whether the child's device was there when it last began to look.

**`Examples`** puts the programs on `Devices`, one of them per behaviour, and states
their properties.

Proofs are in `UblkQueueSteps` and `UblkQueueProofs`, in `RingProofs`, in
`LifecycleSteps` and `LifecycleProofs`, and in `ProgramsSteps`, `StressSteps` and
`ExamplesProofs`. The `MC*` modules add what TLC needs.

Abstractions: outside `Sizes` lengths and offsets are in blocks, a block's contents is one
value, error numbers are `EIO` and `EOPNOTSUPP`, one `WaitCQE` error stands for
all. Struct layouts, messages and logging are left out. The kernel is modelled
as far as the code relies on it: it reads each SQE once and in order, posts one
CQE per SQE, hands a tag over only while a command for it is parked, aborts
outstanding requests when the character device is closed, and blocks DEL_DEV
while the block device is open.

## What is checked

| Run | Properties | Shows |
|---|---|---|
| `ring_faults` | `RingInv`, `ExactlyOnce`, `CancelSticks`, `ImplementsFifo` | short and failed submits, over index wrap-around: the ring is still the queue `RingFifo`; until the first short count each SQE is consumed and completed once, in order; no CQE comes out of a `WaitCQE` begun after `Cancel` |
| `ring_full` | `ExactlyOnce`, `CancelWakes` | a one-entry ring with a full completion ring; `Cancel` gets a goroutine out of `WaitCQE` |
| `ring_short` | `NilIfFull` (violated) | after a short submit an occupied slot is handed out |
| `queue_safety` | `TagOwnership`, `RingsNeverOverflow`, `NoRequestForgotten`, `NoUseAfterRelease` | three tags in a ring of four, all faults |
| `queue_linear` | `NeverRefused`, `SleepsOnlyWhenFlushed`, `ServiceInv`, `Linearizable` | concurrent reads, writes and discards of two tags; what is advertised is served; `run` never sleeps on an answer |
| `queue_handle` | `Linearizable` | all branches of `handleIO`: a missing capability, empty, oversized and unknown requests |
| `queue_close` | `RequestsAnswered`, `ShutdownAnswers`, `CancelStopsWorker`, `NewReturns`, `CloseReturns` | liveness with failing and short submits and a device stopped from outside: requests are answered, `Cancel` beats a stream of requests, `New` and `Close` return |
| `lifecycle_errors` | `LifeInv`, `NoDeviceLeaks`, `OwnAnswers`, `DeletedLast`, `EncodingAgrees`, `ServesWhatItAdvertised`, `ImplementsDevices`, `NewReturns`, `ClosesReturn` | every error path of `New` and `Close`, with the legacy fallback and options at the edges of `validate`; all calls return, `New` unless a FETCH was stranded |
| `lifecycle_submit` | `NoHandleLeaks`, `CloseMeansReleased` | the same with a failing control ring: every fd and mapping is released |
| `lifecycle_pinned` | `PinnedReads` (violated) | a command left in the ring runs after its argument was unpinned |
| `examples` | `FdsClosedFirst`, `ExitsClean`, `WritersStayHome`, `CleanRounds`, `NoChildSurvives`, `ReportTruthful`, `ErrorsPropagate`, `ProgramsEnd`, `RoundsEnd` | the example programs: alarms only where they are right or requests failed unseen, no device left up or closed under an open fd by an error path, all end |
| `sigkill_exit` | `ExitZeroMeansGone` (violated) | the sigkill probe exits with 0 while the child's device is still there |

`RingInv`, `ServiceInv` and `LifeInv` are the inductive invariants of the proofs about
the library; each has its module's `TypeOK` as a conjunct.
Deadlock is checked in every run; the end of a life is an explicit stuttering
step.

**Three disagreements with comments.** (1) `GetSQE64` "returns a zeroed 64-byte
SQE, or nil if full". `flushSQ` sets `sqeLocalHead` before it knows what the
kernel took, so after a short submit a full ring looks empty (`ring_short`). The
worker is not affected: it has at most one SQE per tag outstanding, and the ring
has at least `depth` slots (`RingsNeverOverflow`, proved). (2) `addDev` pins its
argument because "the kernel reads from this address between Submit and the CQE
returning". If `Submit` fails, the SQE stays in the ring, and the `Submit` of a
later command makes the kernel execute it after `addDev` has unpinned
(`lifecycle_pinned`). (3) The header of `example/sigkill/main.go` says "Exit 0 =
child cleanup happened without our help" and "Non-zero = the child's device nodes
lingered after SIGKILL"; `runParent` only logs a warning then and returns nil
(`sigkill_exit`), as its own comments further down intend.

**Conditions that are part of a property.** These are things the code does not
prevent; the properties name them, and show that nothing else goes wrong.

- `run` discards the count of its first `SubmitAndWait`. After a short one, START_DEV
  waits for ever for the missing FETCH and `New` does not return. `Stranded` names
  that state, in `UblkQueue` and in `Lifecycle`, and `NewReturns` excepts it in both,
  as `RequestsAnswered` excepts what a later short submit strands: no code submits
  it again.
- `RequestsAnswered` also excepts the requests of a `run` that returned on an error;
  they wait for `Close` (`ShutdownAnswers`).
- A failed `umount` leaves fsdemo and flushbench in `Close` for ever, which
  `ProgramsEnd` excepts (`Pinned`).
- `WritersStayHome` and `CleanRounds` hold until stress counts a close error, which
  is what the count is for.
- `ErrorsPropagate` does not say that the probes never raise a false alarm, for two
  of their verdicts can be one. lowRate grants that "the kernel may retry failed
  I/Os, so caller might see fewer errors than the backend injected", and fails if
  the caller saw none ("errors are being swallowed", `fault/main.go:182-187`); that
  also happens if the kernel retried every one. `checkStats` fails if the storage
  has served fewer requests than the proxy (`chain/main.go:252-270`); so it does if
  a read of udev's is at the proxy while the counters are loaded, or if a request
  failed on its way down and was retried or was udev's. The property bounds the
  alarms to these cases, by number. The data itself is never wrong.
- sigkill's warning may be out of date by one sleep, as `waitGone` does not look
  after the last one. `ReportTruthful` says that the device was there when it began
  its last look, and that a report of success is true when it is made.

**An observation outside the runs.** `TODO.md:93-95` lists flushbench among the
programs that trap SIGINT and SIGTERM "and run `Device.Close()` on exit". Nothing in `example/flushbench` handles signals; only fsdemo and
stress do. `Programs` follows the code: nothing interrupts flushbench's list of steps.

**A doubt removed.** `TODO.md` considers an overflow of the completion ring
theoretically possible. With one command per tag it is not: `NoOverflow`.

### Bounds

- `Ring`: two slots, indices modulo 8 (modulo 4 for one slot), so that indices
  wrap and a full, an empty and an overfull ring all occur; at most
  `MaxOutstanding` SQEs unconsumed. No action looks at user data, hence the
  symmetry; `ring_full`, which checks liveness, has none.
- `UblkQueue`: two tags are enough for a batch, for an answer overtaking
  another, and for a full ring; `queue_safety` has three tags in four slots, as
  the ring may be larger than the depth. `queue_handle` has one tag, as it is
  about one request's branches, and two blocks with a buffer of one, so that
  oversized requests exist.
- `Lifecycle`: two or three attempts of `openCharDev` instead of 50, two callers
  of `Close`, two device numbers where two ADD_DEVs can succeed. `EdgeCalls` has
  values on both sides of each condition of `validate`, buffers below, at and above a page,
  and a device larger than the 1 GiB limit of discards.
- `Programs`: two requests per scenario of fault and two roundtrips of chain, so
  that one can fail after another succeeded; one request in flight per device, as
  the callers are sequential, besides one read of udev's. One error may be retried
  (`Retries`) and udev reads once (`Looks`): enough to hide an error of two, to be
  between the two loads of `checkStats`, and to fail on its way to the storage. Both
  roundtrips are one step (`Singles` is 0), so that an abandoned one has another
  to go on to.
- `Stress`: a round with up to two devices or two writers, then one with one
  device; any later stressor may run the second round; five fd numbers, so that a
  number is reused and numbers may run out.
- `Sigkill`: one child, one device of the parent, two numbers.

### Fairness

Weak fairness of the worker, of the goroutine in `New` or `shutdown`, and of the
kernel finishing what it was given: goroutines and threads are scheduled, and
backend calls return. No fairness for failures, EINTR, requests or the call of
`Close`. The runs about `Close` also assume that users close the block device, as
the comment of `Close` demands; DEL_DEV waits for them. `WF` of the worker as a
whole is justified since it is one sequential thread. In `Lifecycle` the kernel's
refusal of a command is fair only if the command cannot succeed (`Hopeless`), so that
no call returns for want of a success; DEL_DEV is strongly fair, for it succeeds when
the last user has left although others may come.

In the examples: the program, its worker, its timers (stress, sigkill) and the
kernel's answers are weakly fair; a user ends an interactive program; udev closes
what it opened. DEL_DEV is strongly fair, because udev may open the device again
and again while `Close` waits, and leaves it free in between. The deadline of
`waitGone` is strongly fair: time passes however often it asks. No fairness for
`runStep`'s timeouts, for retries, for the kernel removing an orphan or failing a
request of a live device, or for a killed child dying.

## What is proved

Everything below holds for **every** value of the constants that the module's
assumption admits, and all proofs are complete. A theorem named like a run's
property, or listed with one, says of all instances what the run shows of one.

### The worker's queue

From `QueueAssumption`: the rings have at least `Depth` entries, which `roundUp2`
and io_uring give, and `validate` makes the depth positive. Every combination of
faults is included.

| Theorem | States |
|---|---|
| `QueueInvInductive`, `QueueInvHolds` | `QueueInv` is inductive and holds |
| `TypeCorrect`, `OneOwnerPerTag`, `NoOverflow`, `NothingForgotten`, `ReleasedAfterUse` | `TypeOK`, `TagOwnership`, `RingsNeverOverflow`, `NoRequestForgotten`, `NoUseAfterRelease` |
| `ServiceInvHolds` | `ServiceInv` |
| `NeverSleepsOnAnswers`, `ServesEveryRequest` | `SleepsOnlyWhenFlushed`, `NeverRefused` |
| `QueueIsLinearizable` | `Linearizable`: the queue implements `BlockDevice` |

The argument. "No ring overflows" is not inductive: what bounds a ring is that no
tag is in it twice, and that depends on who else holds the tag. `TagOwnership`
says that a tag is in one place only (an SQE, a CQE, `run`'s hands, the driver)
and that this place agrees with the driver's state and with the result recorded
for the request. A driver step may put a tag into the completion ring because
the command it completes was parked, thus in neither ring. A step of `run` may
put it into the submission ring because it has just taken it out of the
completion ring. `Phases` ties `run` and `shutdown` together: released means
joined, and the rings are gone with their contents. Then the tags of a ring are a
subset of `Tags` with one entry each, so its length is at most `Depth` (`TagCount`,
`TagBound`), and when `run` holds a tag there is one less (`SlotFree`).

`ServiceInv` adds two facts to it. `Accounted`: unless a submit was short, the ring
holds exactly what `run` has prepared and not flushed, or what its `io_uring_enter`
is still to take. `RequestsIntact`: a request in the server's hands is one the
kernel may issue, and until it is handled its buffer has what the user writes.
The refinement then goes action by action: the backend call is the step at which
`BlockDevice` lets the request take effect or fail (`TakeEffect`, `Fail`), `KDispatch`
is `Issue`, the driver's consumption of a COMMIT is `AnswerOK` or `AnswerError`,
`KAbort` is `AnswerError`, all else stutters.
That a COMMIT answers with the result of the request its tag really has is
`TagOwnership` again.

Layout: `UblkQueueSteps` has the facts on sequences, the steps that touch neither
rings nor ownership, and those of the worker, of the driver and of `cleanup` that
do; `UblkQueueProofs` has the counting argument, the theorems and the refinement.

### The ring

From `RingAssumption`: the size of the completion ring is below the range of the
indices and divides it, as powers of two do, and fewer SQEs are outstanding than
there are indices. For uint32 that is 2^32; with more, the indices would not tell
a full ring from an empty one.

| Theorem | States |
|---|---|
| `RingInvHolds` | `RingInv` |
| `ExactlyOnceHolds`, `CancelSticksHolds` | `ExactlyOnce`, `CancelSticks` |
| `RingIsFifo` | `ImplementsFifo`: the ring implements `RingFifo`, also after short and failed submits |

The argument. `InOrder` says how the four submission indices lie around the ring,
in distances modulo 2^w and hence without regard to wrap-arounds. A short submit
breaks none of it, so it carries the refinement. `InStep` and `InSlots` hold until
the first short or failed submit (`left`): then the kernel's head is where the
local one is, no slot is written before the kernel has read it, and each request is
in the slots as often as `life` says. `ExactlyOnce` alone is not inductive, as it
does not say that two entries hold different requests. `FlagFirst` is behind
`CancelSticks`: `Cancel` stores the flag before it can return, and a `WaitCQE`
called later finds it. The lemmas on remainders (`DivMod`, `ModUnique`, `ModDiff`) come first, as the
provers know little about `%`.

### New, control commands and Close

From `LifecycleAssumption`: calls of `New` have natural numbers as size and options
and any of the two capabilities; the numbers of devices are natural; attempts and
ring slots are positive.

| Theorem | States |
|---|---|
| `LifeInvHolds` | `LifeInv` |
| `NothingLeaks`, `CloseReleases`, `DeletesLast` | `NoHandleLeaks`, `CloseMeansReleased`, `DeletedLast`, with every call failing at will |
| `AdvertisesWhatItServes` | `ServesWhatItAdvertised`, from the theorem `AdvertisedIsServed` on the arithmetic |
| `TakesOwnAnswers`, `ReadsPinned`, `EncodingsAgree`, `NoDeviceStays` | `OwnAnswers`, `PinnedReads`, `EncodingAgrees`, `NoDeviceLeaks`, if the control ring does not fail |
| `LifecycleImplementsDevices` | `ImplementsDevices`, if the control ring does not fail |

"The control ring does not fail" is `~SubmitFails /\ ~WaitFails`: `io_uring_enter`
and `epoll_wait` succeed on the control ring; commands may still be refused, and
every open, mapping and the worker may fail. None of the five statements holds
without it; for `PinnedReads` the run `lifecycle_pinned` shows that. A failed `Submit`
leaves its command in the control ring and a failed `WaitCQE` leaves its answer
there, `ctrlCommand` takes that answer for the one to a later command, and `New` is
then wrong about the encoding the kernel accepted or about the device it has.

The argument. `HandleInv` bounds what is open at each step (`MayHold`); at the steps
where `New` has failed or `shutdown` is over the bound is empty. `CloseInv` says who
is inside `closeOnce`. `ReachedInv` is about commands anywhere in the control ring or
the kernel, those left behind included: a DEL_DEV can only be of the last step, and
a SET_PARAMS is later than ADD_DEV, so the sizes it speaks of are settled. These
hold whatever fails and are kept by the lemmas of `LifecycleSteps`. With a working
control ring `CommandInv` says that there is one command and where it is, and
`OwnedInv` that the kernel has at most the device `New` knows of, in the state the
commands answered so far have brought it to. The refinement uses the last: START_DEV
is `Create`, `closeOnce` is `BeginClose`, DEL_DEV is `Delete` or `DeleteRefused`.

`AdvertisedIsServed`: for every size, every combination of options `validate` accepts
and every buffer size up to 1 MiB ADD_DEV may return, a request within the
parameters of `setParams` fits the tag's buffer and the backend, and its byte count
fits an `int32`. The two limits need different arguments: reads and writes are
bounded by the buffer the count of sectors was computed from (`SectorsFit`),
discards by `maxSect`, 2^30 bytes (`CountsFit`). Integers are unbounded there; see
below. That `roundUp2` and the block size shift are right (`RingHoldsDepth`,
`ShiftIsBlockSize`) goes through the powers of two up to the limits of `validate`
(`PowersOfTwo`).

### The example programs

From four assumptions. `ProgramsAssumption`: a scenario of fault makes at least one
request, chain any number of roundtrips, any number of them in steps of their own;
the kernel retries and udev reads any number of times. `StressAssumption`: every round has at least
one device, which may be one of an earlier round or twice in the same one; rounds,
devices and fd numbers are otherwise arbitrary. `SigkillAssumption`: the probe has a
device for its child and one for itself. `ExamplesAssumption`: what runs is one of
these programs. So the results hold for the 200 attempts and 20 roundtrips of the
code as for the two of the run.

| Theorem | States |
|---|---|
| `ExamplesInvariant` | `ExamplesInv` is inductive and holds |
| `ErrorsArePropagated` | the action property `ErrorsPropagate` |
| `FdsAreClosedFirst`, `ExitsAreClean` | `FdsClosedFirst`, `ExitsClean` |
| `WritersKeepHome`, `RoundsAreClean` | `WritersStayHome`, `CleanRounds` |
| `NoChildIsLeft`, `ReportsAreTruthful` | `NoChildSurvives`, `ReportTruthful` |

The argument. The programs run on `Devices`, which the library is proved to implement.
One of them runs in a behaviour, so `ExamplesInv` is the invariant of that one
(`ProgInv`, `StressInv`, `SigInv`) and says of the others that they have not begun.

`ProgInv` is about all sequential programs at once. `ReleaseInv` says that whatever a
program holds has its release deferred, unless it is `main` or `closeWithErrors`, which
release by explicit steps, and that the release of an fd is deferred after, hence run
before, the `Close` of its device. `FdsClosedFirst` and `ExitsClean` alone say nothing
about the way there. `StepFacts` reduces the lists of steps to the few facts about
them this needs, so that chain's list may have any length. `CountInv` counts the
requests of a scenario of fault: where the backend always fails, those answered with an
error and those to come are `Attempts`; in `lowRate` an error the backend injected has
reached the caller, is on its way, or was retried.
`ChainInv` follows the requests through the two stacked devices. The storage has one
only while the proxy's backend waits for it, on behalf of the program or of udev
(`InLine`). From the write to the comparison the storage has the pattern of the
roundtrip, also if the kernel repeats the write (`DataThrough`). Each counter of the
proxy exceeds the storage's by at most `unseen` and the requests on their way or about
to be reported as failed (`Slack`); at checkStats the program has none left, so what
remains is `unseen` and a read of udev's in flight. That write, read and comparison
stand three by three in the list is arithmetic modulo 3 (`RoundtripSteps`).

`StressInv` says that the fds of a round's writers are files of the round's devices
until they are closed, that nobody else gets their numbers while a writer may still
use them (`FilesInv`, `WritersInv`), and that a device which is up belongs to the round
and is waited for once it is being closed (`UpInv`). It includes main's place in the
setup of a round, where an open may fail half-way (`SetupInv`). All of this but the
files ends with the first close error. `SigInv` says at which steps of the parent the
child has been killed, and ties the two looks of `waitGone` together: while it looks,
its own device is gone, so what it finds is the child's; a node it missed is missing
for good, and a child's device without nodes is gone.

Layout: `ProgramsSteps` and `StressSteps` show that the steps of the two keep their
invariants, `ExamplesProofs` does so for sigkill, composes the three and has the
theorems.

### Only model-checked

- All liveness properties, `ProgramsEnd` and `RoundsEnd` of the examples among them:
  fairness and ENABLED are beyond the prover.
- `NilIfFull` and `ExitZeroMeansGone`, which the code violates.

## Not modelled

- Panics of the backend: they end the process, and the library has no recovery
  code; what is left then is what `Sigkill` shows of a killed process. The same
  goes for a signal that reaches a program before it handles signals.
- Calling `Close` from the backend: a deadlock by construction, excluded by the
  callers' rule in `TODO.md`.
- Sizes from 2^63 bytes on, where `int64(StartSector) * 512` wraps: `validate` has no
  upper bound, but TLC's integers end at 2^31 and no such backend exists.
- The layout of the wire structures, and parameters that are constant and never
  read back (`IOOptShift`, `DiscardGranularity`).
- Statistics no verdict depends on, traces, log output, temporary directories and
  buffer alignment of the example programs; the I/O of file systems, and of udev
  where no verdict counts it; devices of processes other than the probe's in
  sigkill, one of which might take the number of the child's.
- `Lifecycle` and `UblkQueue` in one state space: each has the part of the other it
  depends on, and the product is out of TLC's reach within minutes.
