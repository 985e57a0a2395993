------------------------------ MODULE Devices ------------------------------
(***************************************************************************)
(* What a program that uses the package sees of its devices: New brings    *)
(* one up, any process may then hold its block device (an open fd, a       *)
(* mount, a system call in progress), and Close removes it, but not before *)
(* the last holder has left.  Module Lifecycle implements this             *)
(* specification; the modules of the example programs are built on it.     *)
(***************************************************************************)
CONSTANTS
    Devs,       \* the calls of New a program makes
    Holders     \* who may hold a block device

VARIABLES
    state,      \* per device: none, live, closing, gone, left
    holds       \* per device: its holders

devs == <<state, holds>>

DevInit ==
    /\ state = [d \in Devs |-> "none"]
    /\ holds = [d \in Devs |-> {}]

Become(d, s) == state' = [state EXCEPT ![d] = s]

(* New returns a device.                                                   *)
Create(d) == state[d] = "none" /\ Become(d, "live") /\ UNCHANGED holds

(* Somebody opens the block device, also while Close is on its way.        *)
Hold(d, h) ==
    /\ state[d] \in {"live", "closing", "left"} /\ h \notin holds[d]
    /\ holds' = [holds EXCEPT ![d] = @ \cup {h}]
    /\ UNCHANGED state

Unhold(d, h) ==
    /\ h \in holds[d]
    /\ holds' = [holds EXCEPT ![d] = @ \ {h}]
    /\ UNCHANGED state

(* Close is called ...                                                     *)
BeginClose(d) == state[d] = "live" /\ Become(d, "closing") /\ UNCHANGED holds

(* ... and DEL_DEV waits for the holders, or is refused.                   *)
Delete(d) ==
    /\ state[d] = "closing" /\ holds[d] = {}
    /\ Become(d, "gone") /\ UNCHANGED holds
DeleteRefused(d) ==
    /\ state[d] = "closing"
    /\ Become(d, "left") /\ UNCHANGED holds

DevNext ==
    \E d \in Devs :
        \/ Create(d) \/ BeginClose(d) \/ Delete(d) \/ DeleteRefused(d)
        \/ \E h \in Holders : Hold(d, h) \/ Unhold(d, h)

DevSpec == DevInit /\ [][DevNext]_devs
=============================================================================
