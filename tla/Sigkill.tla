------------------------------ MODULE Sigkill ------------------------------
(***************************************************************************)
(* The sigkill probe: a parent starts a child that owns a device, kills    *)
(* it, waits for it, creates and closes a device of its own and looks      *)
(* whether the child's nodes have gone.  A device whose process died is    *)
(* the kernel's to remove, now, later or never.                            *)
(***************************************************************************)
EXTENDS Devices, Naturals, FiniteSetsExt

VARIABLES
    par,        \* where runParent is; exit0, exit1: how it ended
    chi,        \* where the child is; dead
    announced,  \* the child has printed CHILD_READY
    killed,     \* SIGKILL has been sent
    num,        \* per device of this probe: N of /dev/ublkbN
    nodes,      \* the nodes of the child's device the kernel has not removed
    found,      \* waitGone: the Stat of the block device's node found one
    there,      \* the child's device was there when waitGone last began to look
    report      \* what the end of runParent logged: none, gone, warn

sigVars == <<par, chi, announced, killed, num, nodes, found, there, report>>

Probe == {"child", "fresh"}
ASSUME SigkillAssumption == Probe \subseteq Devs

Present(d) == state[d] \in {"live", "closing", "left"}

(* The kernel gives a new device the lowest free number (external).        *)
LowestNum(d) ==
    num' = [num EXCEPT ![d] =
              Min({n \in 0 .. 1 : \A e \in Probe : Present(e) => num[e] # n})]

SigInit ==
    /\ par = "start" /\ chi = "none" /\ report = "none"
    /\ announced = FALSE /\ killed = FALSE
    /\ num = [d \in Probe |-> 0] /\ nodes = {"blk", "chr"} /\ found = FALSE
    /\ there = TRUE

-----------------------------------------------------------------------------
(* runChild.                                                               *)
ChildNew ==
    /\ chi = "new" /\ ~killed
    /\ \/ Create("child") /\ LowestNum("child") /\ chi' = "announce"
       \/ chi' = "dead" /\ UNCHANGED <<devs, num>>
    /\ UNCHANGED <<par, announced, killed, nodes, found, there, report>>
ChildAnnounces ==
    /\ chi = "announce" /\ ~killed
    /\ announced' = TRUE /\ chi' = "open"
    /\ UNCHANGED <<devs, par, killed, num, nodes, found, there, report>>
ChildOpens ==
    /\ chi = "open" /\ ~killed
    /\ \/ Hold("child", "fd") /\ chi' = "write"
       \/ chi' = "dead" /\ Become("child", "left") /\ UNCHANGED holds
    /\ UNCHANGED <<par, announced, killed, num, nodes, found, there, report>>

(* SIGKILL takes effect (external): the fds are closed, the device stays   *)
(* until the kernel removes it.  New may have been at any of its steps.    *)
ChildDies ==
    /\ killed /\ chi # "dead"
    /\ chi' = "dead" /\ holds' = [holds EXCEPT !["child"] = {}]
    /\ \/ state["child"] = "live" /\ Become("child", "left") /\ UNCHANGED num
       \/ chi = "new" /\ Become("child", "left") /\ LowestNum("child")
       \/ chi = "new" /\ UNCHANGED <<state, num>>
    /\ UNCHANGED <<par, announced, killed, nodes, found, there, report>>

(* ublk_ch_release's work removes an orphan (external), one node after the *)
(* other, perhaps never.                                                   *)
KernelReaps ==
    /\ chi = "dead" /\ state["child"] = "left"
    /\ \E n \in nodes : nodes' = nodes \ {n}
    /\ IF nodes' = {} THEN Become("child", "gone") ELSE UNCHANGED state
    /\ UNCHANGED <<holds, par, chi, announced, killed, num, found, there, report>>

-----------------------------------------------------------------------------
(* runParent.                                                              *)
ParentStarts ==
    /\ par = "start"
    /\ \/ par' = "read" /\ chi' = "new"
       \/ par' = "exit1" /\ UNCHANGED chi
    /\ UNCHANGED <<devs, announced, killed, num, nodes, found, there, report>>

MutReturnsAtOnce ==
    /\ par = "read"
    /\ \/ announced /\ par' = "kill"
       \/ par' = "exit1"
    /\ UNCHANGED <<devs, chi, announced, killed, num, nodes, found, there, report>>

(* readReady: the announcement, the end of the child's output, or the      *)
(* timeout; the parent kills the child in the last two cases.              *)
readReady ==
    /\ par = "read"
    /\ \/ announced /\ par' = "kill" /\ UNCHANGED killed
       \/ par' = "exit1" /\ killed' = TRUE
    /\ UNCHANGED <<devs, chi, announced, num, nodes, found, there, report>>

(* Signal fails only if the child is no longer there.                      *)
Kill ==
    /\ par = "kill"
    /\ \/ killed' = TRUE /\ par' = "wait"
       \/ chi = "dead" /\ par' = "exit1" /\ UNCHANGED killed
    /\ UNCHANGED <<devs, chi, announced, num, nodes, found, there, report>>

(* cmd.Wait, with a watchdog.                                              *)
ParentWaits ==
    /\ par = "wait"
    /\ \/ chi = "dead" /\ par' = "new"
       \/ par' = "exit1"
    /\ UNCHANGED <<devs, chi, announced, killed, num, nodes, found, there, report>>
ParentNew ==
    /\ par = "new"
    /\ \/ Create("fresh") /\ LowestNum("fresh") /\ par' = "close"
       \/ par' = "exit1" /\ UNCHANGED <<devs, num>>
    /\ UNCHANGED <<chi, announced, killed, nodes, found, there, report>>
ParentClose ==
    /\ par = "close"
    /\ \/ BeginClose("fresh") /\ UNCHANGED par
       \/ Delete("fresh") /\ par' = "blk"
       \/ DeleteRefused("fresh") /\ par' = "exit1"
    /\ UNCHANGED <<chi, announced, killed, num, nodes, found, there, report>>

(* waitGone asks for the two nodes by their path, that is by the number    *)
(* the child announced, whosever they are ...                              *)
Exists(n) ==
    \E d \in Probe : /\ Present(d) /\ num[d] = num["child"]
                     /\ d = "child" => n \in nodes
waitFrame == UNCHANGED <<devs, chi, announced, killed, num, nodes>>
StatBlock ==
    /\ par = "blk" /\ par' = "chr"
    /\ found' = Exists("blk") /\ there' = Present("child")
    /\ UNCHANGED report /\ waitFrame
MutEitherGone ==
    /\ par = "chr"
    /\ IF ~found \/ ~Exists("chr") THEN par' = "exit0" /\ report' = "gone"
       ELSE par' = "sleep" /\ UNCHANGED report
    /\ UNCHANGED <<found, there>> /\ waitFrame
StatChar ==
    /\ par = "chr"
    /\ IF ~found /\ ~Exists("chr") THEN par' = "exit0" /\ report' = "gone"
       ELSE par' = "sleep" /\ UNCHANGED report
    /\ UNCHANGED <<found, there>> /\ waitFrame

(* ... sleeps, and asks again until the deadline, which is not there when  *)
(* it asks first and is not preceded by a last look.  Either way runParent *)
(* returns nil.                                                            *)
AskAgain ==
    /\ par = "sleep" /\ par' = "blk"
    /\ UNCHANGED <<found, there, report>> /\ waitFrame
Deadline ==
    /\ par = "sleep" /\ par' = "exit0" /\ report' = "warn"
    /\ UNCHANGED <<found, there>> /\ waitFrame
waitGone == StatBlock \/ StatChar \/ AskAgain \/ Deadline

Parent == ParentStarts \/ readReady \/ Kill \/ ParentWaits \/ ParentNew
          \/ ParentClose \/ waitGone
Child == ChildNew \/ ChildAnnounces \/ ChildOpens \/ ChildDies
SigNext == Parent \/ Child \/ KernelReaps

-----------------------------------------------------------------------------
(* How far the parent is tells what it has done to the child and to its    *)
(* own device; a device without nodes is gone for good.                    *)
Polling == {"blk", "chr", "sleep"}
SigInv ==
    /\ state \in [Devs -> {"none", "live", "closing", "gone", "left"}]
    /\ par = "start" => chi = "none" /\ ~killed
    /\ par \in {"wait", "new", "close", "exit0"} \cup Polling => killed
    /\ par \in {"new", "close", "exit0"} \cup Polling => chi = "dead"
    /\ par = "exit1" => killed \/ chi \in {"none", "dead"}
    /\ par \in Polling => state["fresh"] = "gone"
    /\ nodes \subseteq {"blk", "chr"} /\ found \in BOOLEAN
    /\ par \in {"chr", "sleep"} /\ ~there => ~Present("child") /\ ~found /\ par = "chr"
    /\ report = "warn" => there
    /\ nodes = {} => state["child"] = "gone"
    /\ state["child"] = "gone" => chi = "dead"
    /\ par = "chr" /\ ~found => ~Present("child") \/ "blk" \notin nodes
    /\ report # "none" => par = "exit0"
    /\ report = "gone" => ~Present("child")
=============================================================================
