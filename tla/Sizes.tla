------------------------------- MODULE Sizes -------------------------------
(***************************************************************************)
(* The arithmetic of a device: the options of New and their validation,    *)
(* the parameters sent with SET_PARAMS, the size of the worker's buffers   *)
(* and rings, and what handleIO makes of a request.  Sizes are in bytes    *)
(* unless named sectors; the constants are those of the code.              *)
(***************************************************************************)
EXTENDS Integers

SectorSize    == 512
maxQueueDepth == 4096
maxMaxIOSize  == 1048576
maxSect       == 2097152
MaxInt32      == 2147483647

(* bits.OnesCount32(v) = 1, and bits.Len32, below 2^30.                    *)
Powers == {2^k : k \in 0 .. 30}
Len32(v) == CHOOSE n \in 0 .. 30 : v < 2^n /\ (n = 0 \/ v >= 2^(n - 1))
roundUp2(v) == IF v <= 1 THEN 1 ELSE 2^Len32(v - 1)

(* New: the defaults, overridden by the options given.                     *)
Defaults == [blockSize |-> 512, queueDepth |-> 128, maxIOSize |-> 131072]
Config(opts) == [f \in DOMAIN Defaults |->
                    IF f \in DOMAIN opts THEN opts[f] ELSE Defaults[f]]

(* config.validate, condition by condition.                                *)
validate(c, size) ==
    /\ size # 0
    /\ c.blockSize >= 512 /\ c.blockSize \in Powers
    /\ size % c.blockSize = 0
    /\ 1 <= c.queueDepth /\ c.queueDepth <= maxQueueDepth
    /\ c.maxIOSize # 0 /\ c.maxIOSize % c.blockSize = 0
    /\ c.maxIOSize <= maxMaxIOSize

(* New: bufSize is what the kernel made of MaxIOBufBytes, if anything.     *)
BufSize(c, maxIOBufBytes) ==
    IF maxIOBufBytes = 0 THEN c.maxIOSize ELSE maxIOBufBytes

(* setParams: the limits the kernel is told.                               *)
Params(c, size, maxSectors, caps) ==
    [bsShift |-> Len32(c.blockSize) - 1,
     devSectors |-> size \div SectorSize,
     limit |-> [op \in {"read", "write", "discard", "zeroes"} |->
                  IF op \in {"read", "write"} THEN maxSectors
                  ELSE IF op \in caps THEN maxSect ELSE 0]]

(* The requests the kernel may send under parameters p (external).         *)
MayIssue(p, op, start, nr) ==
    /\ 0 <= start /\ 0 < nr
    /\ start + nr <= p.devSectors
    /\ nr <= p.limit[op]

(* handleIO: where the request lies, and whether it is served: reads and   *)
(* writes go through the tag's buffer, and the byte count returned must    *)
(* survive int32(n) to be seen as a success.                               *)
Offset(start) == start * SectorSize
Length(nr)    == nr * SectorSize

Served(size, bufSize, op, start, nr) ==
    /\ op \in {"read", "write"} => Length(nr) <= bufSize
    /\ Offset(start) + Length(nr) <= size
    /\ nr <= MaxInt32 \div SectorSize
=============================================================================
