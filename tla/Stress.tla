------------------------------ MODULE Stress -------------------------------
(***************************************************************************)
(* The stress program: four stressors, one after the other, each running   *)
(* rounds of New, opens, writers, closes of the fds, Close, with watchdogs *)
(* that give up waiting and count a close error.  A file descriptor is a   *)
(* number, the lowest that is free, and a writer that is still alive when  *)
(* its number is given to another file writes to that file.                *)
(***************************************************************************)
EXTENDS Devices, Naturals, Sequences, FiniteSetsExt

CONSTANTS
    RoundDevs,  \* per round, the devices it may create; bounds the rounds
    FdNums      \* bound on file descriptor numbers

ASSUME StressAssumption ==
    /\ RoundDevs \in Seq(Seq(Devs) \ {<<>>}) /\ "none" \notin Devs
    /\ FdNums \subseteq Nat \ {0}

VARIABLES
    at,         \* where the stressor is in its round
    round,      \* rounds begun
    stressor,   \* index of the stressor in Stressors
    idx,        \* the device of the round being set up
    toOpen,     \* its writers' files still to be opened
    up,         \* devices of this round
    table,      \* fd number -> file, or NoFile
    fdOf,       \* writer -> its fd number, 0 for none
    writer,     \* writer -> none, loop, in (inside Pwrite), done
    inside,     \* writer -> the file its Pwrite is on
    awaited,    \* devices whose Close is waited for
    closeErrs   \* whether a close error has been counted

stressVars == <<at, round, stressor, idx, toOpen, up, table, fdOf, writer,
                inside, awaited, closeErrs>>
setup == <<round, stressor, idx, toOpen, up>>

Stressors == <<"churn", "ioWhileClose", "concurrentClose", "many">>
Is(names) == stressor # 0 /\ Stressors[stressor] \in names

(* A file: the device and which of its openers has it, 0 for the handles   *)
(* New itself keeps open.                                                  *)
NoFile == <<"none", 0>>
Writers == UNION {{r} \X ({1, 2} \cup DOMAIN RoundDevs[r]) : r \in DOMAIN RoundDevs}
Dev == RoundDevs[round][idx]
Mine == {w \in Writers : w[1] = round}

(* How many devices a round has, and the writers of its i-th.              *)
Count == IF Is({"many"}) THEN Len(RoundDevs[round]) ELSE 1
WritersOf(i) ==
    CASE Is({"churn"}) -> {1} [] Is({"ioWhileClose"}) -> {1, 2}
      [] Is({"concurrentClose"}) -> {} [] OTHER -> {i}

StressInit ==
    /\ at = "top" /\ round = 0 /\ stressor = 0 /\ idx = 0
    /\ toOpen = {} /\ up = {} /\ awaited = {} /\ closeErrs = FALSE
    /\ table = [n \in FdNums |-> NoFile]
    /\ fdOf = [w \in Writers |-> 0] /\ writer = [w \in Writers |-> "none"]
    /\ inside = [w \in Writers |-> NoFile]

-----------------------------------------------------------------------------
(* The head of a stressor's loop, and main's: another round of the same    *)
(* stressor or of a later one, or, when time is up or at a signal, the end.*)
Top ==
    /\ at = "top"
    /\ \/ /\ round < Len(RoundDevs)
          /\ \E s \in DOMAIN Stressors : s >= stressor /\ stressor' = s
          /\ round' = round + 1 /\ idx' = 1 /\ up' = {} /\ at' = "new"
       \/ at' = "exit" /\ UNCHANGED <<round, stressor, idx, up>>
    /\ UNCHANGED <<devs, toOpen, table, fdOf, writer, inside, awaited, closeErrs>>

Free == {n \in FdNums : table[n] = NoFile}
Lowest == Min(Free)

(* On to the next device of the round or, with all set up, to the writers. *)
Onwards(u) ==
    /\ up' = u
    /\ IF idx < Count
       THEN idx' = idx + 1 /\ at' = "new" /\ UNCHANGED writer
       ELSE /\ UNCHANGED idx
            /\ at' = IF u = {} THEN "top" ELSE "run"
            /\ writer' = [w \in Writers |->
                            IF w \in Mine /\ fdOf[w] # 0 THEN "loop" ELSE writer[w]]

StressNew ==
    /\ at = "new"
    /\ \/ /\ Free # {} /\ Create(Dev)
          /\ table' = [table EXCEPT ![Lowest] = <<Dev, 0>>]
          /\ toOpen' = WritersOf(idx) /\ up' = up \cup {Dev} /\ at' = "open"
          /\ UNCHANGED <<idx, writer>>
       \/ Onwards(up) /\ UNCHANGED <<devs, table, toOpen>>
    /\ UNCHANGED <<round, stressor, fdOf, inside, awaited, closeErrs>>

(* unix.Open for the next writer.  If it fails, many closes the device.    *)
StressOpen ==
    /\ at = "open" /\ toOpen # {}
    /\ LET i == Min(toOpen) IN
       /\ toOpen' = toOpen \ {i}
       /\ \/ /\ Free # {} /\ Hold(Dev, i)
             /\ table' = [table EXCEPT ![Lowest] = <<Dev, i>>]
             /\ fdOf' = [fdOf EXCEPT ![<<round, i>>] = Lowest]
             /\ UNCHANGED <<at, up>>
          \/ /\ at' = IF Is({"many"}) THEN "drop" ELSE at
             /\ IF Is({"many"}) THEN BeginClose(Dev) /\ up' = up \ {Dev}
                ELSE UNCHANGED <<devs, up>>
             /\ UNCHANGED <<table, fdOf>>
    /\ UNCHANGED <<round, stressor, idx, writer, inside, awaited, closeErrs>>

(* The device is set up; or the one many could not open is closed.         *)
StressOpened ==
    /\ \/ at = "open" /\ toOpen = {}
       \/ at = "drop" /\ state[Dev] \in {"gone", "left"}
    /\ Onwards(up)
    /\ UNCHANGED <<devs, round, stressor, toOpen, table, fdOf, inside, awaited,
                   closeErrs>>

-----------------------------------------------------------------------------
(* A writer calls Pwrite: on whatever file its number stands for now.      *)
Pwrite(w) ==
    /\ at # "exit" /\ writer[w] = "loop"
    /\ LET f == table[fdOf[w]] IN
       IF f[2] = 0
       THEN writer' = [writer EXCEPT ![w] = "done"] /\ UNCHANGED inside
       ELSE /\ writer' = [writer EXCEPT ![w] = "in"]
            /\ inside' = [inside EXCEPT ![w] = f]
    /\ UNCHANGED <<devs, at, setup, table, fdOf, awaited, closeErrs>>

(* The file is released when neither an fd nor a system call uses it.      *)
LastUse(f, fs, ins) ==
    IF f \in {fs[n] : n \in FdNums} \cup {ins[w] : w \in Writers}
    THEN UNCHANGED devs ELSE Unhold(f[1], f[2])

(* Pwrite returns; churn writes once, the others until an error.           *)
PwriteReturns(w) ==
    /\ at # "exit" /\ writer[w] = "in"
    /\ inside' = [inside EXCEPT ![w] = NoFile]
    /\ \E ok \in BOOLEAN :
          writer' = [writer EXCEPT ![w] =
                        IF ok /\ ~Is({"churn"}) THEN "loop" ELSE "done"]
    /\ LastUse(inside[w], table, inside')
    /\ UNCHANGED <<at, setup, table, fdOf, awaited, closeErrs>>

(* After a while, churn after its own write, the stressor closes its fds,  *)
(* one by one.                                                             *)
Slept ==
    /\ at = "run"
    /\ Is({"churn"}) => \A w \in Mine : writer[w] \in {"none", "done"}
    /\ at' = "closefd"
    /\ UNCHANGED <<devs, setup, table, fdOf, writer, inside, awaited, closeErrs>>
MutKeepsFds == {}

(* The fds of the round that are still open.                               *)
OpenFds == {fdOf[w] : w \in Mine} \cap {n \in FdNums : table[n][1] \in up /\ table[n][2] # 0}
StressCloseFd ==
    /\ at = "closefd" /\ OpenFds # {}
    /\ table' = [table EXCEPT ![Min(OpenFds)] = NoFile]
    /\ LastUse(table[Min(OpenFds)], table', inside)
    /\ UNCHANGED <<at, setup, fdOf, writer, inside, awaited, closeErrs>>

MutDoesNotWait ==
    /\ at = "closefd" /\ OpenFds = {}
    /\ at' = "close" /\ UNCHANGED closeErrs
    /\ UNCHANGED <<devs, setup, table, fdOf, writer, inside, awaited>>

(* wg.Wait for the writers, for at most 3 seconds.                         *)
WaitWriters ==
    /\ at = "closefd" /\ OpenFds = {}
    /\ \A w \in Mine : writer[w] \in {"none", "done"}
    /\ at' = "close" /\ UNCHANGED closeErrs
    /\ UNCHANGED <<devs, setup, table, fdOf, writer, inside, awaited>>
WaitTimeout ==
    /\ at = "closefd" /\ OpenFds = {} /\ Is({"ioWhileClose", "many"})
    /\ at' = "close" /\ closeErrs' = TRUE
    /\ UNCHANGED <<devs, setup, table, fdOf, writer, inside, awaited>>

(* Close of every device of the round, in a goroutine of its own.          *)
StressClose(d) ==
    /\ at = "close" /\ d \in up
    /\ BeginClose(d)
    /\ awaited' = awaited \cup {d}
    /\ UNCHANGED <<at, setup, table, fdOf, writer, inside, closeErrs>>

(* DEL_DEV; New's handles are released.                                    *)
StressRemove(d) ==
    /\ at # "exit"
    /\ Delete(d) \/ DeleteRefused(d)
    /\ table' = [n \in FdNums |-> IF table[n] = <<d, 0>> THEN NoFile ELSE table[n]]
    /\ UNCHANGED <<at, setup, fdOf, writer, inside, awaited, closeErrs>>

MutNotCounted(d) ==
    /\ d \in awaited
    /\ awaited' = awaited \ {d}
    /\ Is({"ioWhileClose", "many"}) \/ state[d] \in {"gone", "left"}
    /\ closeErrs' = (closeErrs \/ state[d] = "left")
    /\ UNCHANGED <<devs, at, setup, table, fdOf, writer, inside>>

(* Close has returned, or a watchdog gives up on it after 5 seconds.       *)
CloseAwaited(d) ==
    /\ d \in awaited
    /\ awaited' = awaited \ {d}
    /\ Is({"ioWhileClose", "many"}) \/ state[d] \in {"gone", "left"}
    /\ closeErrs' = (closeErrs \/ state[d] # "gone")
    /\ UNCHANGED <<devs, at, setup, table, fdOf, writer, inside>>

RoundOver ==
    /\ at = "close" /\ awaited = {}
    /\ \A d \in up : state[d] # "live"
    /\ at' = "top"
    /\ UNCHANGED <<devs, setup, table, fdOf, writer, inside, awaited, closeErrs>>

StressMain ==
    Top \/ StressNew \/ StressOpen \/ StressOpened \/ Slept \/ StressCloseFd
    \/ WaitWriters \/ RoundOver
StressNext ==
    \/ StressMain \/ WaitTimeout
    \/ \E w \in Writers : Pwrite(w) \/ PwriteReturns(w)
    \/ \E d \in Devs : StressClose(d) \/ StressRemove(d) \/ CloseAwaited(d)

-----------------------------------------------------------------------------
(***************************************************************************)
(* What holds as long as no close error has been counted.                  *)
(***************************************************************************)
StressTypeOK ==
    /\ state \in [Devs -> {"none", "live", "closing", "gone", "left"}]
    /\ round \in 0 .. Len(RoundDevs) /\ stressor \in 0 .. 4 /\ idx \in Nat
    /\ at \in {"top", "new", "open", "drop", "run", "closefd", "close", "exit"}
    /\ table \in [FdNums -> {NoFile} \cup Devs \X Nat]
    /\ fdOf \in [Writers -> {0} \cup FdNums]
    /\ writer \in [Writers -> {"none", "loop", "in", "done"}]
    /\ DOMAIN inside = Writers

(* Where main is in a round: it sets up the idx-th device, whose files it  *)
(* opens for writers of this round; many has opened none of them when an   *)
(* open fails.                                                             *)
Setup == {"new", "open", "drop"}
SetupInv ==
    /\ at \in Setup => round # 0 /\ idx \in 1 .. Count
    /\ up \subseteq Devs
    /\ \A d \in up : round # 0 /\ d \in {RoundDevs[round][i] : i \in DOMAIN RoundDevs[round]}
    /\ at = "open" => \A i \in toOpen : i # 0 /\ <<round, i>> \in Writers
    /\ at = "open" => Dev \in up /\ (Is({"many"}) => toOpen \subseteq {idx})
    /\ at = "open" /\ Is({"many"}) /\ toOpen # {} =>
          \A n \in FdNums : table[n][1] = Dev => table[n][2] = 0

(* The fds of the round's writers are files of the round's devices, until  *)
(* they are closed, and nothing else gets their numbers before the writers *)
(* have returned.                                                          *)
FilesInv ==
    /\ \A n \in FdNums : table[n] # NoFile => state[table[n][1]] # "none"
    /\ \A w \in Writers : w[1] > round => fdOf[w] = 0
    /\ \A w \in Mine : fdOf[w] # 0 =>
          /\ at \in Setup \cup {"run"} =>
                table[fdOf[w]][1] \in up /\ table[fdOf[w]][2] # 0
          /\ at = "closefd" => table[fdOf[w]][1] \in up \/ table[fdOf[w]] = NoFile
WritersInv ==
    /\ \A w \in Writers : ~closeErrs /\ writer[w] \in {"loop", "in"} =>
          w \in Mine /\ fdOf[w] # 0 /\ at \in {"run", "closefd"}
    /\ \A w \in Writers : ~closeErrs /\ writer[w] = "in" => inside[w][1] \in up

(* A device that is up is one of the round's, and one that is being closed *)
(* is waited for.                                                          *)
UpInv ==
    ~closeErrs => \A d \in Devs : state[d] \in {"live", "closing"} =>
        \/ /\ d \in up /\ at \notin {"top", "exit"}
           /\ state[d] = "closing" => d \in awaited
        \/ at = "drop" /\ d = Dev

StressInv == StressTypeOK /\ SetupInv /\ FilesInv /\ WritersInv /\ UpInv
=============================================================================
