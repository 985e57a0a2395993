---------------------------- MODULE MCLifecycle ----------------------------
(* Lifecycle on small instances.                                           *)
EXTENDS Lifecycle

Call(backend, caps, size, opts) ==
    [backend |-> backend, caps |-> caps, size |-> size, opts |-> opts]

(* One call of New with its defaults.                                      *)
DefaultCall == {Call("set", {}, 1048576, << >>)}

(* Calls at the edges of every check of validate: the ones that pass have  *)
(* buffers of one sector, of less and of more than a page, of a page and a *)
(* half and of the cap, and a device below and above the 1 GiB limit of    *)
(* discards.                                                               *)
EdgeCalls ==
    {Call("nil", {}, 512, << >>), Call("set", {}, 0, << >>)}
    \cup {Call("set", {"discard"}, 4096, [blockSize |-> b, maxIOSize |-> b]) :
            b \in {0, 256, 511, 512, 768, 4096, 8192}}
    \cup {Call("set", {}, 4096, [queueDepth |-> q]) : q \in {0, 1, 3, 4096, 4097}}
    \cup {Call("set", {"zeroes"}, 2147479552, [blockSize |-> b, maxIOSize |-> m]) :
            b \in {512, 4096}, m \in {0, 512, 6144, 1048576, 1049088}}
    \cup {Call("set", {"discard", "zeroes"}, 6144, [blockSize |-> b]) :
            b \in {512, 1024, 4096}}

EdgeSectors == {0, 1, 8, 9, 12, 2048, 2097152, 4194296}
=============================================================================
