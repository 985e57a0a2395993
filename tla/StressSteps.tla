---------------------------- MODULE StressSteps -----------------------------
(***************************************************************************)
(* The steps of stress keep StressInv, for every number of rounds, devices *)
(* and file descriptors.                                                   *)
(***************************************************************************)
EXTENDS Stress, TLAPS, WellFoundedInduction

-----------------------------------------------------------------------------
(***************************************************************************)
(* stress.                                                                 *)
(***************************************************************************)

(* The lowest of some numbers is one of them.                              *)
LEMMA MinOf ==
    ASSUME NEW N \in SUBSET Nat, N # {}
    PROVE  Min(N) \in N
  <1> DEFINE R == {ss \in Nat \X Nat : ss[1] < ss[2]}
  <1>1. IsWellFoundedOn(R, Nat)
    BY NatLessThanWellFounded DEF OpToRel
  <1> HIDE DEF R
  <1>2. PICK x \in N : \A y \in N : ~(<<y, x>> \in R)
    BY Zenon, <1>1, WFMin
  <1>3. \A y \in N : x <= y
    <2>1. \A a, b \in Nat : a < b => <<a, b>> \in R
      BY DEF R
    <2>2. \A y \in N : ~(y < x)
      BY Zenon, <1>2, <2>1
    <2> QED
      BY <2>2
  <1> QED
    BY Zenon, <1>3 DEF Min

(* A writer is a round and a number in it, and a round has a device.       *)
LEMMA WriterPairs ==
    /\ \A w \in Writers : w[1] \in 1 .. Len(RoundDevs) /\ w[2] \in Nat \ {0}
    /\ \A r \in 1 .. Len(RoundDevs), i \in Nat :
          <<r, i>> \in Writers => i # 0
    /\ \A r \in 1 .. Len(RoundDevs) :
          /\ RoundDevs[r] \in Seq(Devs) /\ Len(RoundDevs[r]) \in Nat \ {0}
          /\ <<r, 1>> \in Writers /\ <<r, 2>> \in Writers
          /\ \A i \in DOMAIN RoundDevs[r] : <<r, i>> \in Writers
  <1>1. /\ DOMAIN RoundDevs = 1 .. Len(RoundDevs) /\ Len(RoundDevs) \in Nat
        /\ \A r \in DOMAIN RoundDevs : RoundDevs[r] \in Seq(Devs) /\ RoundDevs[r] # <<>>
    BY StressAssumption
  <1>2. \A r \in DOMAIN RoundDevs :
           /\ DOMAIN RoundDevs[r] = 1 .. Len(RoundDevs[r]) /\ Len(RoundDevs[r]) \in Nat
           /\ Len(RoundDevs[r]) # 0
    BY <1>1
  <1>3. \A w : w \in Writers <=>
           \E r \in DOMAIN RoundDevs : w \in {r} \X ({1, 2} \cup DOMAIN RoundDevs[r])
    BY Zenon DEF Writers
  <1>4. \A r \in DOMAIN RoundDevs : {1, 2} \cup DOMAIN RoundDevs[r] \subseteq Nat \ {0}
    BY <1>2
  <1> QED
    BY <1>1, <1>2, <1>3, <1>4

(* The device main sets up is one of the round's.                          *)
LEMMA Place ==
    ASSUME StressInv, at \in Setup
    PROVE  /\ round \in 1 .. Len(RoundDevs) /\ idx \in DOMAIN RoundDevs[round]
           /\ Dev \in Devs /\ Dev # "none" /\ NoFile[1] # Dev
           /\ Dev \in {RoundDevs[round][i] : i \in DOMAIN RoundDevs[round]}
           /\ Count \in Nat /\ Count <= Len(RoundDevs[round]) /\ idx \in 1 .. Count
  <1>1. round \in 1 .. Len(RoundDevs) /\ idx \in 1 .. Count
    BY StressAssumption DEF StressInv, StressTypeOK, SetupInv
  <1>2. RoundDevs[round] \in Seq(Devs) /\ Len(RoundDevs[round]) \in Nat \ {0}
    BY Zenon, <1>1, WriterPairs
  <1>3. Count \in Nat /\ Count <= Len(RoundDevs[round])
    BY <1>2 DEF Count
  <1>4. idx \in DOMAIN RoundDevs[round] /\ RoundDevs[round][idx] \in Devs
    BY <1>1, <1>2, <1>3
  <1> QED
    BY <1>1, <1>3, <1>4, StressAssumption DEF Dev, NoFile

(* Who opens its files: writers of the round, for many just one.           *)
LEMMA Openers ==
    ASSUME StressInv, at \in Setup
    PROVE  /\ \A i \in WritersOf(idx) : i # 0 /\ <<round, i>> \in Writers
           /\ Is({"many"}) => WritersOf(idx) = {idx}
  <1>1. WritersOf(idx) \in {{1}, {1, 2}, {}, {idx}}
    BY Zenon DEF WritersOf
  <1>2. Is({"many"}) => ~Is({"churn"}) /\ ~Is({"ioWhileClose"}) /\ ~Is({"concurrentClose"})
    BY DEF Is
  <1>3. Is({"many"}) => WritersOf(idx) = {idx}
    BY Zenon, <1>2 DEF WritersOf
  <1>4. \A i \in {1, 2, idx} : <<round, i>> \in Writers /\ i \in Nat /\ i # 0
    BY ZenonT(30), Place, WriterPairs
  <1> QED
    BY <1>1, <1>3, <1>4

(* What the state of the round is made of does not change.                 *)
LEMMA SameRound ==
    ASSUME UNCHANGED setup
    PROVE  /\ Dev' = Dev /\ Count' = Count /\ Mine' = Mine
           /\ \A names : Is(names)' <=> Is(names)
  BY Zenon DEF setup, Dev, Count, Mine, Is

(* Files are closed, or nothing happens to them, and main goes no further  *)
(* in setting up its devices.                                              *)
LEMMA SetupKept ==
    ASSUME StressInv, UNCHANGED setup, at' = at \/ at' \notin Setup,
           \A n \in FdNums : table'[n] = table[n] \/ table'[n] = NoFile
    PROVE  SetupInv'
  <1>1. /\ Dev' = Dev /\ Count' = Count
        /\ \A names : Is(names)' <=> Is(names)
    BY SameRound
  <1>2. UNCHANGED <<round, stressor, idx, toOpen, up>>
    BY DEF setup
  <1>3. /\ at' \in Setup => at \in Setup /\ at' = at
        /\ at' = "open" => at = "open"
    BY DEF Setup
  <1>4. NoFile[2] = 0
    BY DEF NoFile
  <1>5. ASSUME at = "open", Is({"many"}), toOpen # {}, NEW n \in FdNums, table'[n][1] = Dev
        PROVE  table'[n][2] = 0
    <2>1. table[n][1] = Dev => table[n][2] = 0
      BY Zenon, <1>5 DEF StressInv, SetupInv
    <2> QED
      BY Zenon, <1>4, <1>5, <2>1
  <1> QED
    BY Zenon, <1>1, <1>2, <1>3, <1>5 DEF StressInv, SetupInv

(* New devices come up, devices go down, and none becomes new again.       *)
LEMMA StressDevices ==
    ASSUME StressInv, StressNext
    PROVE  /\ state' \in [Devs -> {"none", "live", "closing", "gone", "left"}]
           /\ \A d \in Devs : state[d] # "none" => state'[d] # "none"
  <1> USE DEF StressInv, StressTypeOK
  <1>1. CASE UNCHANGED state
    BY <1>1
  <1>2. CASE \E d : Create(d) \/ BeginClose(d) \/ Delete(d) \/ DeleteRefused(d)
    BY <1>2 DEF Create, BeginClose, Delete, DeleteRefused, Become
  <1>3. UNCHANGED state \/ \E d : Create(d) \/ BeginClose(d) \/ Delete(d) \/ DeleteRefused(d)
    <2>1. CASE Top \/ Slept \/ WaitWriters \/ RoundOver \/ StressOpened \/ WaitTimeout
      BY Zenon, <2>1 DEF Top, Slept, WaitWriters, RoundOver, StressOpened, WaitTimeout, devs
    <2>2. CASE StressNew \/ StressOpen
      BY Zenon, <2>2 DEF StressNew, StressOpen, devs, Hold
    <2>3. CASE StressCloseFd \/ \E w \in Writers : Pwrite(w) \/ PwriteReturns(w)
      BY Zenon, <2>3 DEF StressCloseFd, Pwrite, PwriteReturns, LastUse, Unhold, devs
    <2>4. CASE \E d \in Devs : StressClose(d) \/ StressRemove(d) \/ CloseAwaited(d)
      BY Zenon, <2>4 DEF StressClose, StressRemove, CloseAwaited, devs
    <2> QED
      BY Zenon, <2>1, <2>2, <2>3, <2>4 DEF StressNext, StressMain
  <1> QED
    BY <1>1, <1>2, <1>3

(* Files are closed, and their numbers stay with the writers of the round. *)
LEMMA FilesKept ==
    ASSUME StressInv, UNCHANGED <<setup, fdOf>>,
           \A d \in Devs : state[d] # "none" => state'[d] # "none",
           \A n \in FdNums :
              table'[n] = table[n] \/ (table'[n] = NoFile /\ (table[n][2] = 0 \/ at' = "closefd")),
           \/ at' = at \/ at' \notin Setup \cup {"run", "closefd"}
           \/ at = "run" /\ at' = "closefd"
    PROVE  FilesInv'
  <1>1. Mine' = Mine /\ UNCHANGED <<round, up, fdOf>>
    BY SameRound DEF setup
  <1>2. \A n \in FdNums : table'[n] # NoFile => state'[table'[n][1]] # "none"
    <2>1. \A n \in FdNums : table[n] # NoFile => table[n][1] \in Devs
      BY DEF StressInv, StressTypeOK
    <2> QED
      BY Zenon, <2>1 DEF StressInv, FilesInv
  <1>3. ASSUME NEW w \in Mine, fdOf[w] # 0
        PROVE  /\ at' \in Setup \cup {"run"} =>
                     table'[fdOf[w]][1] \in up /\ table'[fdOf[w]][2] # 0
               /\ at' = "closefd" => table'[fdOf[w]][1] \in up \/ table'[fdOf[w]] = NoFile
    <2>1. fdOf[w] \in FdNums
      BY <1>3 DEF StressInv, StressTypeOK, Mine
    <2>2. /\ at \in Setup \cup {"run"} =>
                table[fdOf[w]][1] \in up /\ table[fdOf[w]][2] # 0
          /\ at = "closefd" => table[fdOf[w]][1] \in up \/ table[fdOf[w]] = NoFile
      BY Zenon, <1>3 DEF StressInv, FilesInv
    <2>3. "closefd" \notin Setup \cup {"run"} /\ "run" \in Setup \cup {"run"}
      BY DEF Setup
    <2> HIDE DEF Setup
    <2> QED
      BY <2>1, <2>2, <2>3
  <1> QED
    BY Zenon, <1>1, <1>2, <1>3 DEF StressInv, FilesInv

(* The writers do nothing, and main stays where they may run.              *)
LEMMA WritersKept ==
    ASSUME StressInv, UNCHANGED <<setup, fdOf, writer, inside>>, closeErrs => closeErrs',
           at' = at \/ at' = "closefd"
    PROVE  WritersInv'
  <1>1. Mine' = Mine /\ UNCHANGED <<up, fdOf, writer, inside>>
    BY SameRound DEF setup
  <1> QED
    BY <1>1 DEF StressInv, WritersInv

(* No writer runs.                                                         *)
LEMMA WritersIdle ==
    ASSUME \A w \in Writers : ~closeErrs' => writer'[w] \notin {"loop", "in"}
    PROVE  WritersInv'
  BY DEF WritersInv

(* The devices do nothing.                                                 *)
LEMMA UpKept ==
    ASSUME StressInv, UNCHANGED <<setup, state>>, awaited \subseteq awaited',
           closeErrs => closeErrs',
           at' = at \/ (at # "drop" /\ at' \notin {"top", "exit"})
    PROVE  UpInv'
  <1>1. Dev' = Dev /\ UNCHANGED <<up, state>>
    BY SameRound DEF setup
  <1> HIDE DEF Dev
  <1> QED
    BY <1>1 DEF StressInv, UpInv

(* The stressor has slept enough, and waits for its writers.               *)
LEMMA WaitStep ==
    ASSUME StressInv, StressNext, Slept \/ WaitWriters \/ WaitTimeout
    PROVE  StressInv'
  <1>1. /\ UNCHANGED <<setup, table, fdOf, writer, inside, awaited, state>>
        /\ closeErrs => closeErrs'
        /\ at \in {"run", "closefd"} /\ at' \in {"closefd", "close"}
        /\ at' = "closefd" => at = "run"
        /\ at' = "close" => closeErrs' \/ \A w \in Mine : writer[w] \in {"none", "done"}
    BY DEF Slept, WaitWriters, WaitTimeout, devs
  <1>2. UNCHANGED <<round, stressor, idx, toOpen, up>>
    BY <1>1 DEF setup
  <1>3. at' \notin Setup
    BY <1>1 DEF Setup
  <1>4. StressTypeOK'
    BY <1>1, <1>2 DEF StressInv, StressTypeOK
  <1>5. SetupInv'
    BY <1>1, <1>3, SetupKept
  <1>6. FilesInv'
    BY <1>1, <1>3, FilesKept
  <1>7. WritersInv'
    <2>1. CASE at' = "closefd"
      BY <1>1, <2>1, WritersKept
    <2>2. CASE at' = "close"
      BY <1>1, <2>2, WritersIdle DEF StressInv, WritersInv
    <2> QED
      BY <1>1, <2>1, <2>2
  <1>8. UpInv'
    BY <1>1, UpKept
  <1> QED
    BY <1>4, <1>5, <1>6, <1>7, <1>8 DEF StressInv

(* Nothing that the setting up, the files and the devices depend on        *)
(* changes, but perhaps the holders.                                       *)
LEMMA Undisturbed ==
    ASSUME StressInv, UNCHANGED <<at, setup, table, fdOf, awaited, closeErrs, state>>
    PROVE  SetupInv' /\ FilesInv' /\ UpInv'
  <1>1. at' = at /\ awaited' = awaited /\ UNCHANGED state /\ (closeErrs => closeErrs')
    OBVIOUS
  <1> QED
    BY <1>1, SetupKept, FilesKept, UpKept

(* A writer writes to a file of its round, also when its fd was closed in  *)
(* the meantime and its number means nothing, or New's handle.             *)
LEMMA PwriteStep ==
    ASSUME StressInv, NEW w \in Writers, Pwrite(w)
    PROVE  StressInv'
  <1> DEFINE f == table[fdOf[w]]
  <1>1. /\ UNCHANGED <<at, setup, table, fdOf, awaited, closeErrs, state>>
        /\ writer[w] = "loop"
        /\ IF f[2] = 0
           THEN writer' = [writer EXCEPT ![w] = "done"] /\ UNCHANGED inside
           ELSE /\ writer' = [writer EXCEPT ![w] = "in"]
                /\ inside' = [inside EXCEPT ![w] = f]
    BY Zenon DEF Pwrite, devs
  <1>2. Mine' = Mine /\ UNCHANGED <<round, stressor, idx, toOpen, up, fdOf, closeErrs, at>>
    BY <1>1, SameRound DEF setup
  <1>3. /\ \A v \in Writers \ {w} : writer'[v] = writer[v] /\ inside'[v] = inside[v]
        /\ writer'[w] \in {"done", "in"}
        /\ writer'[w] = "in" => inside'[w] = f /\ f[2] # 0
    <2> HIDE DEF f
    <2> QED
      BY <1>1 DEF StressInv, StressTypeOK
  <1>4. StressTypeOK'
    <2>1. writer' \in [Writers -> {"none", "loop", "in", "done"}] /\ DOMAIN inside' = Writers
      <3> HIDE DEF f
      <3> QED
        BY <1>1 DEF StressInv, StressTypeOK
    <2> QED
      BY <1>1, <1>2, <2>1 DEF StressInv, StressTypeOK
  <1>5. ASSUME ~closeErrs PROVE w \in Mine /\ fdOf[w] # 0 /\ at \in {"run", "closefd"}
    BY <1>1, <1>5 DEF StressInv, WritersInv
  <1>6. ASSUME ~closeErrs, writer'[w] = "in" PROVE f[1] \in up
    <2>1. f = NoFile => f[2] = 0
      BY DEF NoFile
    <2>2. at = "run" => at \in Setup \cup {"run"}
      OBVIOUS
    <2> QED
      BY <1>3, <1>5, <1>6, <2>1, <2>2 DEF StressInv, FilesInv
  <1>7. WritersInv'
    <2> HIDE DEF f
    <2> QED
      BY <1>1, <1>2, <1>3, <1>5, <1>6 DEF StressInv, WritersInv
  <1> QED
    BY <1>1, <1>4, <1>7, Undisturbed DEF StressInv

(* A write returns.                                                        *)
LEMMA PwriteReturnsStep ==
    ASSUME StressInv, NEW w \in Writers, PwriteReturns(w)
    PROVE  StressInv'
  <1>1. /\ UNCHANGED <<at, setup, table, fdOf, awaited, closeErrs, state>>
        /\ writer[w] = "in"
        /\ inside' = [inside EXCEPT ![w] = NoFile]
    BY Zenon DEF PwriteReturns, LastUse, Unhold, devs
  <1>2. Mine' = Mine /\ UNCHANGED <<round, stressor, idx, toOpen, up, fdOf, closeErrs, at>>
    BY <1>1, SameRound DEF setup
  <1>3. PICK x \in {"loop", "done"} : writer' = [writer EXCEPT ![w] = x]
    BY Zenon DEF PwriteReturns
  <1>4. StressTypeOK'
    BY <1>1, <1>2, <1>3 DEF StressInv, StressTypeOK
  <1>5. WritersInv'
    <2>1. /\ \A v \in Writers \ {w} : writer'[v] = writer[v] /\ inside'[v] = inside[v]
          /\ writer'[w] = x
      BY <1>1, <1>3 DEF StressInv, StressTypeOK
    <2> QED
      BY <1>1, <1>2, <2>1 DEF StressInv, WritersInv
  <1> QED
    BY <1>1, <1>4, <1>5, Undisturbed DEF StressInv

(* The stressor closes an fd of its round.                                 *)
LEMMA StressCloseFdStep ==
    ASSUME StressInv, StressNext, StressCloseFd
    PROVE  StressInv'
  <1>1. /\ UNCHANGED <<at, setup, fdOf, writer, inside, awaited, closeErrs, state>>
        /\ table' = [table EXCEPT ![Min(OpenFds)] = NoFile]
        /\ at = "closefd"
    BY Zenon DEF StressCloseFd, LastUse, Unhold, devs
  <1>2. \A n \in FdNums : table'[n] = table[n] \/ table'[n] = NoFile
    <2> DEFINE m == Min(OpenFds)
    <2> HIDE DEF m
    <2>1. table' = [table EXCEPT ![m] = NoFile]
      BY <1>1 DEF m
    <2> QED
      BY <2>1 DEF StressInv, StressTypeOK
  <1>3. StressTypeOK'
    <2>1. table' \in [FdNums -> {NoFile} \cup Devs \X Nat]
      <3> DEFINE m == Min(OpenFds)
      <3> HIDE DEF m
      <3>1. table' = [table EXCEPT ![m] = NoFile]
        BY <1>1 DEF m
      <3> QED
        BY Zenon, <3>1 DEF StressInv, StressTypeOK
    <2> QED
      BY <1>1, <2>1 DEF StressInv, StressTypeOK, setup
  <1>4. SetupInv'
    BY <1>1, <1>2, SetupKept
  <1>5. FilesInv'
    BY <1>1, <1>2, FilesKept
  <1>6. WritersInv' /\ UpInv'
    <2>1. at' = at /\ awaited \subseteq awaited' /\ (closeErrs => closeErrs')
      BY <1>1
    <2> QED
      BY <1>1, <2>1, WritersKept, UpKept
  <1> QED
    BY <1>3, <1>4, <1>5, <1>6 DEF StressInv

(* Close is called on a device of the round, and is waited for.            *)
LEMMA StressCloseStep ==
    ASSUME StressInv, StressNext, NEW d \in Devs, StressClose(d)
    PROVE  StressInv'
  <1>1. /\ UNCHANGED <<at, setup, table, fdOf, writer, inside, closeErrs>>
        /\ at = "close" /\ d \in up /\ state' = [state EXCEPT ![d] = "closing"]
        /\ awaited' = awaited \cup {d}
    BY Zenon DEF StressClose, BeginClose, Become
  <1>2. \A e \in Devs : state'[e] = IF e = d THEN "closing" ELSE state[e]
    BY <1>1 DEF StressInv, StressTypeOK
  <1>3. StressTypeOK'
    BY <1>1, StressDevices DEF StressInv, StressTypeOK, setup
  <1>4. SetupInv' /\ FilesInv' /\ WritersInv'
    <2>1. at' = at /\ (closeErrs => closeErrs')
      BY <1>1
    <2> QED
      BY <1>1, <2>1, StressDevices, SetupKept, FilesKept, WritersKept
  <1>5. UpInv'
    <2>1. UNCHANGED up
      BY <1>1 DEF setup
    <2> QED
      BY <1>1, <1>2, <2>1 DEF StressInv, UpInv
  <1> QED
    BY <1>3, <1>4, <1>5 DEF StressInv

(* The kernel has removed a device; New's handles are closed.              *)
LEMMA StressRemoveStep ==
    ASSUME StressInv, StressNext, NEW d \in Devs, StressRemove(d)
    PROVE  StressInv'
  <1>1. /\ UNCHANGED <<at, setup, fdOf, writer, inside, awaited, closeErrs>>
        /\ table' = [n \in FdNums |-> IF table[n] = <<d, 0>> THEN NoFile ELSE table[n]]
        /\ Become(d, "gone") \/ Become(d, "left")
    BY Zenon DEF StressRemove, Delete, DeleteRefused
  <1>2. \A e \in Devs : IF e = d THEN state'[e] \in {"gone", "left"} ELSE state'[e] = state[e]
    BY <1>1 DEF StressInv, StressTypeOK, Become
  <1>3. \A n \in FdNums : table'[n] = table[n] \/ (table'[n] = NoFile /\ table[n][2] = 0)
    BY <1>1
  <1>4. StressTypeOK'
    <2>1. table' \in [FdNums -> {NoFile} \cup Devs \X Nat]
      BY <1>1 DEF StressInv, StressTypeOK
    <2> QED
      BY <1>1, <2>1, StressDevices DEF StressInv, StressTypeOK, setup
  <1>5. SetupInv' /\ FilesInv' /\ WritersInv'
    <2>1. at' = at /\ (closeErrs => closeErrs')
      BY <1>1
    <2>2. \A n \in FdNums : table'[n] = table[n] \/ table'[n] = NoFile
      BY <1>3
    <2> QED
      BY <1>1, <1>3, <2>1, <2>2, StressDevices, SetupKept, FilesKept, WritersKept
  <1>6. UpInv'
    <2>1. UNCHANGED up /\ Dev' = Dev
      BY <1>1, SameRound DEF setup
    <2> HIDE DEF Dev
    <2> QED
      BY <1>1, <1>2, <2>1 DEF StressInv, UpInv
  <1> QED
    BY <1>4, <1>5, <1>6 DEF StressInv

(* Close has returned, or a watchdog has given up: an error is counted     *)
(* unless the device is gone.                                              *)
LEMMA CloseAwaitedStep ==
    ASSUME StressInv, StressNext, NEW d \in Devs, CloseAwaited(d)
    PROVE  StressInv'
  <1>1. /\ UNCHANGED <<at, setup, table, fdOf, writer, inside, state>>
        /\ awaited' = awaited \ {d}
        /\ closeErrs' <=> (closeErrs \/ state[d] # "gone")
    BY Zenon DEF CloseAwaited, devs
  <1>2. at' = at /\ (closeErrs => closeErrs')
    BY <1>1
  <1>3. StressTypeOK'
    BY <1>1 DEF StressInv, StressTypeOK, setup
  <1>4. SetupInv' /\ FilesInv' /\ WritersInv'
    BY <1>1, <1>2, SetupKept, FilesKept, WritersKept
  <1>5. UpInv'
    <2>1. UNCHANGED up /\ Dev' = Dev
      BY <1>1, SameRound DEF setup
    <2> HIDE DEF Dev
    <2> QED
      BY <1>1, <1>2, <2>1 DEF StressInv, UpInv
  <1> QED
    BY <1>3, <1>4, <1>5 DEF StressInv

(* The round is over: no device is live, and none is waited for.           *)
LEMMA RoundOverStep ==
    ASSUME StressInv, StressNext, RoundOver
    PROVE  StressInv'
  <1>1. /\ UNCHANGED <<setup, table, fdOf, writer, inside, awaited, closeErrs, state>>
        /\ at = "close" /\ at' = "top" /\ awaited = {}
        /\ \A d \in up : state[d] # "live"
    BY Zenon DEF RoundOver, devs
  <1>2. at' \notin Setup \cup {"run", "closefd"}
    BY <1>1 DEF Setup
  <1>3. StressTypeOK'
    BY <1>1 DEF StressInv, StressTypeOK, setup
  <1>4. SetupInv' /\ FilesInv'
    BY <1>1, <1>2, SetupKept, FilesKept
  <1>5. WritersInv'
    BY <1>1, WritersIdle DEF StressInv, WritersInv
  <1>6. UpInv'
    BY <1>1 DEF StressInv, UpInv, setup
  <1> QED
    BY <1>3, <1>4, <1>5, <1>6 DEF StressInv

(* A round begins, or the program ends.                                    *)
LEMMA TopStep ==
    ASSUME StressInv, StressNext, Top
    PROVE  StressInv'
  <1>1. /\ UNCHANGED <<toOpen, table, fdOf, writer, inside, awaited, closeErrs, state>>
        /\ at = "top"
        /\ \/ /\ round < Len(RoundDevs) /\ round' = round + 1
              /\ stressor' \in DOMAIN Stressors
              /\ idx' = 1 /\ up' = {} /\ at' = "new"
           \/ at' = "exit" /\ UNCHANGED <<round, stressor, idx, up>>
    BY Zenon DEF Top, devs
  <1>2. /\ round \in 0 .. Len(RoundDevs) /\ Len(RoundDevs) \in Nat
        /\ DOMAIN Stressors = 1 .. 4
    BY StressAssumption DEF StressInv, StressTypeOK, Stressors
  <1>3. WritersInv'
    BY <1>1, WritersIdle DEF StressInv, WritersInv
  <1>4. UpInv'
    BY <1>1 DEF StressInv, UpInv
  <1>5. CASE at' = "exit"
    <2>1. UNCHANGED <<round, stressor, idx, up>> /\ UNCHANGED setup
      BY <1>1, <1>5 DEF setup
    <2>2. at' \notin Setup \cup {"run", "closefd"}
      BY <1>5 DEF Setup
    <2>3. SetupInv' /\ FilesInv'
      BY <1>1, <2>1, <2>2, SetupKept, FilesKept
    <2>4. StressTypeOK'
      BY <1>1, <1>5, <2>1 DEF StressInv, StressTypeOK
    <2> QED
      BY <1>3, <1>4, <2>3, <2>4 DEF StressInv
  <1>6. CASE at' = "new"
    <2>1. /\ round' = round + 1 /\ stressor' \in 1 .. 4 /\ idx' = 1 /\ up' = {}
          /\ round' \in 1 .. Len(RoundDevs)
      BY <1>1, <1>2, <1>6
    <2>2. StressTypeOK'
      BY <1>1, <1>2, <1>6, <2>1 DEF StressInv, StressTypeOK
    <2>3. SetupInv'
      <3>1. Count' \in Nat \ {0}
        BY Zenon, <2>1, WriterPairs DEF Count
      <3> QED
        BY <1>6, <2>1, <3>1 DEF SetupInv
    <2>4. FilesInv'
      <3>1. \A w \in Writers : w[1] \in Nat
        BY WriterPairs
      <3>2. \A w \in Writers : w[1] >= round' => fdOf'[w] = 0
        BY <1>1, <1>2, <2>1, <3>1 DEF StressInv, FilesInv
      <3>3. \A w \in Mine' : fdOf'[w] = 0
        BY <1>2, <2>1, <3>2 DEF Mine
      <3>4. \A w \in Writers : w[1] > round' => fdOf'[w] = 0
        BY <1>2, <2>1, <3>1, <3>2
      <3> QED
        BY Zenon, <1>1, <3>3, <3>4 DEF StressInv, FilesInv
    <2> QED
      BY <1>3, <1>4, <2>2, <2>3, <2>4 DEF StressInv
  <1> QED
    BY <1>1, <1>5, <1>6

(* Main goes on to the next device, to the writers or, if it has brought   *)
(* up no device, to the end of the round.                                  *)
LEMMA OnwardsStep ==
    ASSUME StressInv, at \in Setup, Onwards(up),
           UNCHANGED <<state, round, stressor, toOpen, table, fdOf, inside, awaited, closeErrs>>,
           at = "drop" => state[Dev] \notin {"live", "closing"}
    PROVE  StressInv'
  <1>1. /\ round \in 1 .. Len(RoundDevs) /\ Count \in Nat /\ idx \in 1 .. Count
        /\ at \in {"new", "open", "drop"}
    BY Place DEF Setup
  <1>2. /\ up' = up /\ at' \in {"new", "run", "top"}
        /\ at' = "new" => idx' = idx + 1 /\ idx < Count /\ UNCHANGED writer
        /\ at' # "new" =>
              /\ UNCHANGED idx /\ (at' = "top" => up = {})
              /\ writer' = [w \in Writers |->
                              IF w \in Mine /\ fdOf[w] # 0 THEN "loop" ELSE writer[w]]
    BY DEF Onwards
  <1>3. Mine' = Mine /\ Count' = Count
    BY Zenon DEF Mine, Count, Is
  <1>4. StressTypeOK'
    <2>1. idx' \in Nat
      BY <1>1, <1>2
    <2>2. writer' \in [Writers -> {"none", "loop", "in", "done"}]
      BY <1>2 DEF StressInv, StressTypeOK
    <2> QED
      BY <1>2, <2>1, <2>2 DEF StressInv, StressTypeOK
  <1>5. SetupInv'
    <2>1. at' \in Setup => round # 0 /\ idx' \in 1 .. Count
      BY <1>1, <1>2 DEF Setup
    <2>2. at' # "open" /\ round' = round /\ up' = up /\ Count' = Count
      BY <1>2, <1>3
    <2>3. /\ up \subseteq Devs
          /\ \A d \in up : round # 0 /\ d \in {RoundDevs[round][i] : i \in DOMAIN RoundDevs[round]}
      BY Zenon DEF StressInv, SetupInv
    <2> QED
      BY Zenon, <2>1, <2>2, <2>3 DEF SetupInv
  <1>6. FilesInv'
    <2>1. /\ at' \in Setup \cup {"run"} => at \in Setup \cup {"run"}
          /\ at' # "closefd"
      BY <1>2 DEF Setup
    <2> QED
      BY Zenon, <1>2, <1>3, <2>1 DEF StressInv, FilesInv
  <1>7. WritersInv'
    <2>1. ASSUME NEW w \in Writers, ~closeErrs PROVE writer[w] \notin {"loop", "in"}
      BY <1>1, <2>1 DEF StressInv, WritersInv
    <2>2. CASE at' = "new"
      BY <1>2, <2>1, <2>2, WritersIdle
    <2>3. CASE at' # "new"
      <3>1. ASSUME NEW w \in Writers, ~closeErrs, writer'[w] \in {"loop", "in"}
            PROVE  w \in Mine /\ fdOf[w] # 0 /\ writer'[w] # "in"
        BY <1>2, <2>1, <2>3, <3>1
      <3>2. ASSUME NEW w \in Mine, fdOf[w] # 0 PROVE at' = "run"
        <4>1. table[fdOf[w]][1] \in up
          BY <3>2 DEF StressInv, FilesInv
        <4> QED
          BY <1>2, <2>3, <4>1
      <3> QED
        BY <1>2, <1>3, <3>1, <3>2 DEF WritersInv
    <2> QED
      BY <2>2, <2>3
  <1>8. UpInv'
    <2> HIDE DEF Dev
    <2>1. ASSUME NEW d \in Devs, ~closeErrs, state[d] \in {"live", "closing"}
          PROVE  d \in up /\ (state[d] = "closing" => d \in awaited)
      <3>1. \/ d \in up /\ (state[d] = "closing" => d \in awaited)
            \/ at = "drop" /\ d = Dev
        BY <2>1 DEF StressInv, UpInv
      <3> QED
        BY <2>1, <3>1
    <2> QED
      BY <1>2, <2>1 DEF UpInv
  <1> QED
    BY <1>4, <1>5, <1>6, <1>7, <1>8 DEF StressInv

(* New brings up a device, or fails.                                       *)
LEMMA StressNewStep ==
    ASSUME StressInv, StressNext, StressNew
    PROVE  StressInv'
  <1>1. at = "new" /\ at \in Setup /\ UNCHANGED <<round, stressor, fdOf, inside, awaited, closeErrs>>
    BY DEF StressNew, Setup
  <1>2. CASE Onwards(up) /\ UNCHANGED <<devs, table, toOpen>>
    BY <1>1, <1>2, OnwardsStep DEF devs
  <1>3. CASE /\ Free # {} /\ Create(Dev)
             /\ table' = [table EXCEPT ![Lowest] = <<Dev, 0>>]
             /\ toOpen' = WritersOf(idx) /\ up' = up \cup {Dev} /\ at' = "open"
             /\ UNCHANGED <<idx, writer>>
    <2>1. PICK m \in FdNums : m = Lowest /\ table[m] = NoFile
      BY Zenon, <1>3, MinOf, StressAssumption DEF Lowest, Free
    <2>2. PICK d \in Devs : d = Dev
      BY <1>1, Place
    <2>3. /\ Dev' = d /\ Mine' = Mine /\ Count' = Count
          /\ \A names : Is(names)' <=> Is(names)
      BY Zenon, <1>1, <1>3, <2>2 DEF Dev, Mine, Count, Is
    <2>4. /\ d # "none" /\ state[d] = "none" /\ state' = [state EXCEPT ![d] = "live"]
          /\ d \in {RoundDevs[round][i] : i \in DOMAIN RoundDevs[round]}
          /\ round # 0 /\ idx \in 1 .. Count
      BY <1>1, <1>3, <2>2, Place DEF Create, Become
    <2>5. \A n \in FdNums : table'[n] = IF n = m THEN <<d, 0>> ELSE table[n]
      BY <1>3, <2>1, <2>2 DEF StressInv, StressTypeOK
    <2>6. \A e \in Devs : state'[e] = IF e = d THEN "live" ELSE state[e]
      BY <2>4 DEF StressInv, StressTypeOK
    <2>7. \A n \in FdNums : table[n] # NoFile => table[n][1] \in Devs /\ table[n][1] # d
      BY <2>4 DEF StressInv, StressTypeOK, FilesInv
    <2>8. NoFile[1] = "none" /\ NoFile[2] = 0 /\ "none" \notin Devs
      BY StressAssumption DEF NoFile
    <2>9. StressTypeOK'
      <3>1. table' \in [FdNums -> {NoFile} \cup Devs \X Nat]
        BY <1>3, <2>1, <2>2 DEF StressInv, StressTypeOK
      <3> QED
        BY <1>1, <1>3, <3>1, StressDevices DEF StressInv, StressTypeOK
    <2>10. SetupInv'
      <3>1. \A n \in FdNums : table'[n][1] = d => table'[n][2] = 0
        BY <2>4, <2>5, <2>7, <2>8
      <3>2. \A i \in toOpen' : i # 0 /\ <<round, i>> \in Writers
        BY <1>1, <1>3, Openers
      <3>3. Is({"many"}) => toOpen' \subseteq {idx}
        BY <1>1, <1>3, Openers
      <3>4. /\ up' = up \cup {d} /\ UNCHANGED <<round, idx>> /\ up \subseteq Devs
            /\ \A e \in up : e \in {RoundDevs[round][i] : i \in DOMAIN RoundDevs[round]}
        BY <1>1, <1>3, <2>2 DEF StressInv, SetupInv
      <3> HIDE DEF Dev, Count, Is
      <3>5. \A e \in up' : e \in {RoundDevs[round][i] : i \in DOMAIN RoundDevs[round]}
        BY Zenon, <2>4, <3>4
      <3>6. up' \subseteq Devs /\ d \in up'
        BY <2>2, <3>4
      <3> QED
        BY Zenon, <2>3, <2>4, <3>1, <3>2, <3>3, <3>4, <3>5, <3>6 DEF SetupInv
    <2>11. FilesInv'
      <3>1. \A n \in FdNums : table'[n] # NoFile => state'[table'[n][1]] # "none"
        <4>1. \A n \in FdNums : table[n] # NoFile => state'[table[n][1]] # "none"
          BY <2>6, <2>7 DEF StressInv, FilesInv
        <4>2. state'[d] # "none" /\ <<d, 0>>[1] = d
          BY <2>6
        <4> QED
          BY Zenon, <2>5, <4>1, <4>2
      <3>2. ASSUME NEW w \in Mine, fdOf[w] # 0
            PROVE  table'[fdOf[w]][1] \in up' /\ table'[fdOf[w]][2] # 0
        <4>1. table[fdOf[w]][1] \in up /\ table[fdOf[w]][2] # 0
          BY <1>1, <3>2 DEF StressInv, FilesInv
        <4>2. fdOf[w] \in FdNums /\ fdOf[w] # m
          BY <2>1, <2>8, <3>2, <4>1 DEF StressInv, StressTypeOK, Mine
        <4> QED
          BY <1>3, <2>5, <4>1, <4>2
      <3>3. at' # "closefd"
        BY <1>3
      <3> QED
        BY Zenon, <1>1, <2>3, <3>1, <3>2, <3>3 DEF StressInv, FilesInv
    <2>12. WritersInv'
      BY <1>1, <1>3, WritersIdle DEF StressInv, WritersInv
    <2>13. UpInv'
      <3> HIDE DEF Dev
      <3> QED
        BY <1>1, <1>3, <2>2, <2>6 DEF StressInv, UpInv
    <2> QED
      BY <2>9, <2>10, <2>11, <2>12, <2>13 DEF StressInv
  <1> QED
    BY <1>2, <1>3 DEF StressNew

(* unix.Open gives a writer of the round the lowest free number, or fails; *)
(* many then closes the device, of which it has no other fd.               *)
LEMMA StressOpenStep ==
    ASSUME StressInv, StressNext, StressOpen
    PROVE  StressInv'
  <1>1. /\ at = "open" /\ at \in Setup /\ toOpen # {}
        /\ UNCHANGED <<round, stressor, idx, writer, inside, awaited, closeErrs>>
    BY DEF StressOpen, Setup
  <1>2. PICK d \in Devs : d = Dev
    BY <1>1, Place
  <1>3. /\ Dev' = d /\ Mine' = Mine /\ Count' = Count
        /\ \A names : Is(names)' <=> Is(names)
    BY Zenon, <1>1, <1>2 DEF Dev, Mine, Count, Is
  <1>4. /\ \A i \in toOpen : i \in Nat /\ i # 0 /\ <<round, i>> \in Writers
        /\ round \in Nat /\ round # 0 /\ d \in up /\ (Is({"many"}) => toOpen \subseteq {idx})
        /\ \A e \in up : e \in {RoundDevs[round][i] : i \in DOMAIN RoundDevs[round]}
        /\ up \subseteq Devs /\ idx \in 1 .. Count
        /\ Is({"many"}) => \A n \in FdNums : table[n][1] = d => table[n][2] = 0
    <2>1. \A i \in toOpen : i # 0 /\ <<round, i>> \in Writers
      BY <1>1 DEF StressInv, SetupInv
    <2>2. \A i \in toOpen : i \in Nat
      <3>1. \A i : <<round, i>>[2] = i
        OBVIOUS
      <3> QED
        BY ZenonT(30), <2>1, <3>1, WriterPairs
    <2>3. round \in Nat /\ round # 0 /\ idx \in 1 .. Count
      BY <1>1, Place
    <2>4. /\ d \in up /\ (Is({"many"}) => toOpen \subseteq {idx}) /\ up \subseteq Devs
          /\ \A e \in up : e \in {RoundDevs[round][i] : i \in DOMAIN RoundDevs[round]}
          /\ Is({"many"}) => \A n \in FdNums : table[n][1] = d => table[n][2] = 0
      BY Zenon, <1>1, <1>2 DEF StressInv, SetupInv
    <2> QED
      BY <2>1, <2>2, <2>3, <2>4
  <1>5. PICK i \in toOpen : i = Min(toOpen)
    BY Zenon, <1>1, <1>4, MinOf
  <1>6. /\ toOpen' = toOpen \ {i}
        /\ Is({"many"}) => toOpen' = {}
    BY <1>1, <1>4, <1>5 DEF StressOpen
  <1>7. \A w \in Writers : ~closeErrs => writer[w] \notin {"loop", "in"}
    BY <1>1 DEF StressInv, WritersInv
  <1>8. WritersInv'
    BY <1>1, <1>7, WritersIdle
  <1>9. NoFile[1] = "none" /\ NoFile[2] = 0 /\ "none" \notin Devs
    BY StressAssumption DEF NoFile
  <1>10. CASE /\ Free # {} /\ Hold(Dev, i)
              /\ table' = [table EXCEPT ![Lowest] = <<Dev, i>>]
              /\ fdOf' = [fdOf EXCEPT ![<<round, i>>] = Lowest]
              /\ UNCHANGED <<at, up>>
    <2>1. PICK m \in FdNums : m = Lowest /\ table[m] = NoFile
      BY Zenon, <1>10, MinOf, StressAssumption DEF Lowest, Free
    <2>2. UNCHANGED <<state, at, up>> /\ state[d] # "none"
      BY <1>2, <1>10 DEF Hold
    <2>3. /\ table' \in [FdNums -> {NoFile} \cup Devs \X Nat]
          /\ \A n \in FdNums : table'[n] = IF n = m THEN <<d, i>> ELSE table[n]
      BY <1>2, <1>4, <1>10, <2>1 DEF StressInv, StressTypeOK
    <2>4. /\ fdOf' \in [Writers -> {0} \cup FdNums]
          /\ \A w \in Writers : fdOf'[w] = IF w = <<round, i>> THEN m ELSE fdOf[w]
      BY <1>4, <1>10, <2>1 DEF StressInv, StressTypeOK
    <2>5. StressTypeOK'
      BY <1>1, <2>2, <2>3, <2>4 DEF StressInv, StressTypeOK
    <2>6. SetupInv'
      <3>1. /\ \A j \in toOpen' : j # 0 /\ <<round, j>> \in Writers
            /\ Is({"many"}) => toOpen' \subseteq {idx}
        BY <1>4, <1>6
      <3> HIDE DEF Dev, Count, Is
      <3> QED
        BY Zenon, <1>1, <1>3, <1>4, <1>6, <2>2, <3>1 DEF SetupInv
    <2>7. FilesInv'
      <3>1. \A n \in FdNums : table'[n] # NoFile => state'[table'[n][1]] # "none"
        <4>1. <<d, i>>[1] = d
          OBVIOUS
        <4> QED
          BY Zenon, <2>2, <2>3, <4>1 DEF StressInv, FilesInv
      <3>2. \A w \in Writers : w[1] > round => fdOf'[w] = 0
        <4>1. \A w \in Writers : w[1] > round => w # <<round, i>>
          BY <1>4
        <4> QED
          BY Zenon, <2>4, <4>1 DEF StressInv, FilesInv
      <3>3. ASSUME NEW w \in Mine, fdOf'[w] # 0
            PROVE  table'[fdOf'[w]][1] \in up /\ table'[fdOf'[w]][2] # 0
        <4>1. CASE w = <<round, i>>
          <5>1. table'[fdOf'[w]] = <<d, i>>
            BY <2>3, <2>4, <3>3, <4>1 DEF Mine
          <5>2. <<d, i>>[1] = d /\ <<d, i>>[2] = i
            BY SMTT(30)
          <5> QED
            BY Zenon, <1>4, <5>1, <5>2
        <4>2. CASE w # <<round, i>>
          <5>1. fdOf'[w] = fdOf[w] /\ fdOf[w] \in FdNums
            BY SMTT(30), <2>4, <3>3, <4>2 DEF StressInv, StressTypeOK, Mine
          <5>2. table[fdOf[w]][1] \in up /\ table[fdOf[w]][2] # 0
            BY <1>1, <3>3, <5>1 DEF StressInv, FilesInv
          <5> QED
            BY <1>9, <2>1, <2>3, <5>1, <5>2
        <4> QED
          BY <4>1, <4>2
      <3>4. at' # "closefd"
        BY <1>1, <2>2
      <3> QED
        BY Zenon, <1>1, <1>3, <2>2, <3>1, <3>2, <3>3, <3>4 DEF FilesInv
    <2>8. UpInv'
      <3> HIDE DEF Dev
      <3> QED
        BY Zenon, <1>1, <1>2, <1>3, <2>2 DEF StressInv, UpInv
    <2> QED
      BY <1>8, <2>5, <2>6, <2>7, <2>8 DEF StressInv
  <1>11. CASE /\ at' = IF Is({"many"}) THEN "drop" ELSE at
              /\ IF Is({"many"}) THEN BeginClose(Dev) /\ up' = up \ {Dev}
                 ELSE UNCHANGED <<devs, up>>
              /\ UNCHANGED <<table, fdOf>>
    <2>1. CASE ~Is({"many"})
      <3>1. UNCHANGED <<at, up, state, table, fdOf>>
        BY <1>11, <2>1 DEF devs
      <3>2. StressTypeOK'
        BY <1>1, <3>1 DEF StressInv, StressTypeOK
      <3>3. SetupInv'
        <4>1. \A j \in toOpen' : j # 0 /\ <<round, j>> \in Writers
          BY <1>4, <1>6
        <4> HIDE DEF Dev, Count, Is
        <4> QED
          BY Zenon, <1>1, <1>3, <1>4, <2>1, <3>1, <4>1 DEF SetupInv
      <3>4. FilesInv'
        BY Zenon, <1>1, <1>3, <3>1 DEF StressInv, FilesInv
      <3>5. UpInv'
        BY Zenon, <1>1, <1>2, <1>3, <3>1 DEF StressInv, UpInv
      <3> QED
        BY <1>8, <3>2, <3>3, <3>4, <3>5 DEF StressInv
    <2>2. CASE Is({"many"})
      <3>1. /\ at' = "drop" /\ up' = up \ {d} /\ UNCHANGED <<table, fdOf>>
            /\ state' = [state EXCEPT ![d] = "closing"]
        BY Zenon, <1>2, <1>11, <2>2 DEF BeginClose, Become
      <3>2. \A e \in Devs : state'[e] = IF e = d THEN "closing" ELSE state[e]
        BY <3>1 DEF StressInv, StressTypeOK
      <3>3. StressTypeOK'
        BY <1>1, <3>1, StressDevices DEF StressInv, StressTypeOK
      <3>4. SetupInv'
        <4>1. /\ at' # "open" /\ up' \subseteq Devs /\ UNCHANGED <<round, idx>>
              /\ \A e \in up' : e \in {RoundDevs[round][j] : j \in DOMAIN RoundDevs[round]}
          BY <1>1, <1>4, <3>1
        <4> HIDE DEF Dev, Count, Is
        <4> QED
          BY Zenon, <1>3, <1>4, <4>1 DEF SetupInv
      <3>5. FilesInv'
        <4>1. \A n \in FdNums : table[n] # NoFile => state'[table[n][1]] # "none"
          BY <3>2 DEF StressInv, StressTypeOK, FilesInv
        <4>2. ASSUME NEW w \in Mine, fdOf[w] # 0
              PROVE  table[fdOf[w]][1] \in up' /\ table[fdOf[w]][2] # 0
          <5>1. fdOf[w] \in FdNums
            BY <4>2 DEF StressInv, StressTypeOK, Mine
          <5>2. table[fdOf[w]][1] \in up /\ table[fdOf[w]][2] # 0
            BY <1>1, <4>2 DEF StressInv, FilesInv
          <5> QED
            BY <1>4, <2>2, <3>1, <5>1, <5>2
        <4>3. at' # "closefd"
          BY <3>1
        <4> QED
          BY Zenon, <1>1, <1>3, <3>1, <4>1, <4>2, <4>3 DEF StressInv, FilesInv
      <3>6. UpInv'
        <4> HIDE DEF Dev
        <4> QED
          BY <1>1, <1>3, <3>1, <3>2 DEF StressInv, UpInv
      <3> QED
        BY <1>8, <3>3, <3>4, <3>5, <3>6 DEF StressInv
    <2> QED
      BY <2>1, <2>2
  <1> QED
    BY Zenon, <1>5, <1>10, <1>11 DEF StressOpen

(* The invariant of stress is inductive.                                   *)
LEMMA StressStep ==
    ASSUME StressInv, StressNext
    PROVE  StressInv'
  <1>1. CASE StressOpened
    <2>1. /\ at \in Setup /\ (at = "drop" => state[Dev] \in {"gone", "left"})
          /\ Onwards(up)
          /\ UNCHANGED <<state, round, stressor, toOpen, table, fdOf, inside, awaited, closeErrs>>
      BY <1>1 DEF StressOpened, Setup, devs
    <2>2. at = "drop" => state[Dev] \notin {"live", "closing"}
      BY <2>1
    <2> QED
      BY <2>1, <2>2, OnwardsStep
  <1> QED
    BY Zenon, <1>1, TopStep, StressNewStep, StressOpenStep, WaitStep, StressCloseFdStep,
       RoundOverStep, PwriteStep, PwriteReturnsStep, StressCloseStep, StressRemoveStep,
       CloseAwaitedStep DEF StressNext, StressMain
=============================================================================
