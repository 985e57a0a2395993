--------------------------- MODULE ProgramsSteps ----------------------------
(***************************************************************************)
(* The steps of the sequential example programs: what their lists say, and *)
(* that every step, for every number of attempts and of roundtrips, keeps  *)
(* what is held and what is deferred in order.                             *)
(***************************************************************************)
EXTENDS Programs, TLAPS

-----------------------------------------------------------------------------
(***************************************************************************)
(* The lists of steps.                                                     *)
(***************************************************************************)

(* The scenarios of fault, by name.                                        *)
LEMMA FaultNames ==
    /\ FaultProgs = {"lowRate", "totalWriteFail", "totalReadFail", "closeWithErrors"}
    /\ Len(Fault) = 4
    /\ Progs = {"main", "chain", "fsdemo", "flushbench"} \cup FaultProgs
  <1>1. DOMAIN Fault = {1, 2, 3, 4} /\ Len(Fault) = 4
    BY DEF Fault
  <1>2. FaultProgs = {"lowRate", "totalWriteFail", "totalReadFail", "closeWithErrors"}
    BY <1>1 DEF Fault, FaultProgs
  <1> QED
    BY <1>1, <1>2 DEF Progs, Sequential

(* Every program has its own list.                                         *)
LEMMA Lists ==
    /\ Steps("main") = mainProgram /\ Steps("chain") = runChain
    /\ Steps("fsdemo") = fsdemo /\ Steps("flushbench") = flushbench
    /\ Steps("closeWithErrors") = closeWithErrors
    /\ \A p \in {"lowRate", "totalWriteFail", "totalReadFail"} : Steps(p) = Scenario(p)
  BY Zenon DEF Steps

(* roundtrip, element by element.                                          *)
LEMMA RoundtripSteps ==
    /\ roundtrip \in Seq({roundtrip[i] : i \in 1 .. 3 * Roundtrips}) /\ Len(roundtrip) = 3 * Roundtrips
    /\ \A i \in 1 .. 3 * Roundtrips :
          /\ roundtrip[i].dev = "proxy" /\ roundtrip[i].defer = "none"
          /\ roundtrip[i].val = (i + 2) \div 3
          /\ i % 3 = 1 => roundtrip[i].do = "write"
          /\ i % 3 = 2 => roundtrip[i].do = "read"
          /\ i % 3 = 0 => roundtrip[i].do = "compare"
  <1> DEFINE N == 3 * Roundtrips
             kind(i) == CASE i % 3 = 1 -> "write" [] i % 3 = 2 -> "read" [] OTHER -> "compare"
  <1>1. N \in Nat
    BY ProgramsAssumption
  <1>2. roundtrip = [i \in 1 .. N |->
                        [do |-> kind(i), dev |-> "proxy", defer |-> "none", val |-> (i + 2) \div 3]]
    BY Zenon DEF roundtrip
  <1>3. \A i \in 1 .. N : roundtrip[i] =
            [do |-> kind(i), dev |-> "proxy", defer |-> "none", val |-> (i + 2) \div 3]
    BY Zenon, <1>2
  <1>4. \A i \in 1 .. N : /\ i % 3 = 1 => kind(i) = "write"
                          /\ i % 3 = 2 => kind(i) = "read"
                          /\ i % 3 = 0 => kind(i) = "compare"
    <2>1. 0 # 1 /\ 0 # 2 /\ 2 # 1
      OBVIOUS
    <2> QED
      BY Zenon, <2>1
  <1> HIDE DEF N, kind
  <1>5. roundtrip \in Seq({roundtrip[i] : i \in 1 .. N}) /\ Len(roundtrip) = N
    <2>1. roundtrip \in [1 .. N -> {roundtrip[i] : i \in 1 .. N}]
      BY Zenon, <1>2
    <2>2. roundtrip \in Seq({roundtrip[i] : i \in 1 .. N})
      BY <1>1, <2>1
    <2> QED
      BY <1>1, <2>1, <2>2
  <1> QED
    BY <1>3, <1>4, <1>5 DEF N

(* Two lists, one after the other.                                         *)
LEMMA Appended ==
    ASSUME NEW E, NEW s \in Seq(E), NEW t \in Seq(E)
    PROVE  /\ s \o t \in Seq(E) /\ Len(s \o t) = Len(s) + Len(t)
           /\ \A i \in 1 .. Len(s) : (s \o t)[i] = s[i]
           /\ \A i \in Len(s) + 1 .. Len(s) + Len(t) : (s \o t)[i] = t[i - Len(s)]
  OBVIOUS

(* chain's list, element by element.                                       *)
LEMMA ChainSteps ==
    /\ Len(runChain) = 3 * Roundtrips + 6 /\ DOMAIN runChain = 1 .. 3 * Roundtrips + 6
    /\ runChain[1] = D("new", "storage", "close") /\ runChain[2] = D("open", "storage", "closefd")
    /\ runChain[3] = D("new", "proxy", "close") /\ runChain[4] = D("open", "proxy", "closefd")
    /\ \A i \in 5 .. 3 * Roundtrips + 4 : runChain[i] = roundtrip[i - 4]
    /\ runChain[3 * Roundtrips + 5] = S("load", "proxy")
    /\ runChain[3 * Roundtrips + 6] = S("stats", "proxy")
  <1> DEFINE N == 3 * Roundtrips
             head == <<D("new", "storage", "close"), D("open", "storage", "closefd"), D("new", "proxy", "close"),
                       D("open", "proxy", "closefd")>>
             tail == <<S("load", "proxy"), S("stats", "proxy")>>
             R == {roundtrip[i] : i \in 1 .. N} \cup {head[i] : i \in 1 .. 4} \cup {tail[1], tail[2]}
  <1>1. N \in Nat /\ Len(roundtrip) = N /\ roundtrip \in Seq({roundtrip[i] : i \in 1 .. N})
    BY RoundtripSteps, ProgramsAssumption
  <1>2. runChain = head \o roundtrip \o tail
    BY DEF runChain
  <1>3. /\ head[1] = D("new", "storage", "close") /\ head[2] = D("open", "storage", "closefd")
        /\ head[3] = D("new", "proxy", "close") /\ head[4] = D("open", "proxy", "closefd")
        /\ Len(head) = 4 /\ Len(tail) = 2
        /\ tail[1] = S("load", "proxy") /\ tail[2] = S("stats", "proxy")
    OBVIOUS
  <1>4. head \in Seq(R) /\ tail \in Seq(R) /\ roundtrip \in Seq(R)
    <2>1. head \in Seq({head[i] : i \in 1 .. 4}) /\ tail \in Seq({tail[1], tail[2]})
      OBVIOUS
    <2> HIDE DEF head, tail, N
    <2> QED
      BY <1>1, <1>3, <2>1
  <1> HIDE DEF head, tail, N, R
  <1> DEFINE both == head \o roundtrip
  <1>5. /\ both \in Seq(R) /\ Len(both) = Len(head) + Len(roundtrip)
        /\ \A i \in 1 .. Len(head) : both[i] = head[i]
        /\ \A i \in Len(head) + 1 .. Len(head) + Len(roundtrip) :
              both[i] = roundtrip[i - Len(head)]
    BY Zenon, <1>4, Appended
  <1> HIDE DEF both
  <1>6. /\ runChain \in Seq(R) /\ Len(runChain) = Len(both) + Len(tail)
        /\ \A i \in 1 .. Len(both) : runChain[i] = both[i]
        /\ \A i \in Len(both) + 1 .. Len(both) + Len(tail) :
              runChain[i] = tail[i - Len(both)]
    <2>1. runChain = both \o tail
      BY <1>2 DEF both
    <2>2. both \in Seq(R) /\ tail \in Seq(R)
      BY <1>4, <1>5
    <2>3. /\ both \o tail \in Seq(R) /\ Len(both \o tail) = Len(both) + Len(tail)
          /\ \A i \in 1 .. Len(both) : (both \o tail)[i] = both[i]
          /\ \A i \in Len(both) + 1 .. Len(both) + Len(tail) :
                (both \o tail)[i] = tail[i - Len(both)]
      BY Zenon, <2>2, Appended
    <2> QED
      BY Zenon, <2>1, <2>3
  <1>7. Len(runChain) = N + 6 /\ DOMAIN runChain = 1 .. N + 6
    BY <1>1, <1>3, <1>5, <1>6
  <1>8. \A i \in 1 .. 4 : i \in 1 .. N + 4 /\ runChain[i] = head[i]
    BY <1>1, <1>3, <1>5, <1>6
  <1>9. ASSUME NEW i \in 5 .. N + 4 PROVE runChain[i] = roundtrip[i - 4]
    <2>1. /\ i \in 1 .. Len(both) /\ i - Len(head) = i - 4
          /\ i \in Len(head) + 1 .. Len(head) + Len(roundtrip)
      BY <1>1, <1>3, <1>5
    <2> QED
      BY Zenon, <1>5, <1>6, <2>1
  <1>10. runChain[N + 5] = tail[1] /\ runChain[N + 6] = tail[2]
    <2> DEFINE i == N + 5
               k == N + 6
    <2>1. i \in Len(both) + 1 .. Len(both) + Len(tail) /\ i - Len(both) = 1
      BY <1>1, <1>3, <1>5
    <2>2. k \in Len(both) + 1 .. Len(both) + Len(tail) /\ k - Len(both) = 2
      BY <1>1, <1>3, <1>5
    <2> HIDE DEF i, k
    <2>3. runChain[i] = tail[i - Len(both)] /\ runChain[k] = tail[k - Len(both)]
      BY Zenon, <1>6, <2>1, <2>2
    <2> QED
      BY Zenon, <2>1, <2>2, <2>3 DEF i, k
  <1>11. 1 \in 1 .. 4 /\ 2 \in 1 .. 4 /\ 3 \in 1 .. 4 /\ 4 \in 1 .. 4
    OBVIOUS
  <1> QED
    BY Zenon, <1>3, <1>7, <1>8, <1>9, <1>10, <1>11 DEF N

(* What a step says about the program it is a step of, and its place.      *)
StepOK(p, i, c) ==
    /\ i \in Nat \ {0} /\ c.dev \in Devs
    /\ c.do \notin {"new", "open", "mount"} => c.defer = "none"
    /\ c.defer # "none" => p \notin Explicit
    /\ c.do = "new" =>
          \/ c.defer = "close"
          \/ c.defer = "none" /\ p \in Explicit /\ i = 1 /\ c.dev = p
    /\ c.do = "open" =>
          \/ c.defer = "closefd"
          \/ c.defer = "none" /\ p = "closeWithErrors" /\ i = 2 /\ c.dev = p
    /\ c.do = "mount" => c.defer = "umount"
    /\ c.do = "try" => p \notin Explicit
    /\ c.do = "go" => p # "closeWithErrors" /\ (p = "main" => i = 2)
    /\ c.do = "closefd" => p = "closeWithErrors" /\ i = 4 /\ c.dev = p
    /\ c.do = "close" => p \in Explicit /\ i = Length(p) /\ c.dev = p
    /\ c.do = "loop" => p \in FaultProgs /\ i = 3 /\ c.dev = p
    /\ c.do = "judge" => p \in FaultProgs /\ p # "closeWithErrors" /\ i = 4
    /\ c.do \in {"write", "read", "compare"} => p = "chain" /\ c.dev = "proxy"
    /\ c.do \in {"load", "stats"} => p = "chain"
    /\ p \in FaultProgs => c.dev = p /\ (i = 1 => c.do = "new") /\ (i = 3 => c.do = "loop")
    /\ p = "chain" => c.do \notin {"close", "closefd", "loop", "judge", "mount", "try", "go"}

(* Every step of every list satisfies StepOK: the lists are finite, and    *)
(* the lemmas below use no more of them than this.                         *)
LEMMA StepFacts ==
    ASSUME NEW p \in Progs, NEW i \in DOMAIN Steps(p)
    PROVE  StepOK(p, i, Steps(p)[i])
  <1> DEFINE c == Steps(p)[i]
  <1> SUFFICES StepOK(p, i, c)
    OBVIOUS
  <1>0. {"main", "storage", "proxy", "fsdemo", "flushbench"} \cup FaultProgs \subseteq Devs
    BY ProgramsAssumption
  <1>1. CASE p = "main"
    <2>1. i \in 1 .. 3 /\ Len(Steps(p)) = 3 /\ c.dev = p
      BY <1>1, Lists DEF mainProgram, S, D
    <2>2. /\ i = 1 => c.do = "new" /\ c.defer = "none"
          /\ i = 2 => c.do = "go" /\ c.defer = "none"
          /\ i = 3 => c.do = "close" /\ c.defer = "none"
      BY <1>1, Lists DEF mainProgram, S, D
    <2> HIDE DEF c
    <2> QED
      BY <1>0, <1>1, <2>1, <2>2, FaultNames DEF StepOK, Explicit, Length
  <1>2. CASE p = "fsdemo"
    <2>1. i \in 1 .. 8 /\ Len(Steps(p)) = 8 /\ c.dev = p
      BY <1>2, Lists DEF fsdemo, S, D
    <2>2. /\ i = 1 => c.do = "new" /\ c.defer = "close"
          /\ i = 2 => c.do = "try" /\ c.defer = "none"
          /\ i = 3 => c.do = "try" /\ c.defer = "none"
          /\ i = 4 => c.do = "mount" /\ c.defer = "umount"
          /\ i = 5 => c.do = "try" /\ c.defer = "none"
          /\ i = 6 => c.do = "try" /\ c.defer = "none"
          /\ i = 7 => c.do = "try" /\ c.defer = "none"
          /\ i = 8 => c.do = "go" /\ c.defer = "none"
      BY <1>2, Lists DEF fsdemo, S, D
    <2> HIDE DEF c
    <2> QED
      BY <1>0, <1>2, <2>1, <2>2, FaultNames DEF StepOK, Explicit
  <1>3. CASE p = "flushbench"
    <2>1. i \in 1 .. 5 /\ Len(Steps(p)) = 5 /\ c.dev = p
      BY <1>3, Lists DEF flushbench, S, D
    <2>2. /\ i = 1 => c.do = "new" /\ c.defer = "close"
          /\ i = 2 => c.do = "try" /\ c.defer = "none"
          /\ i = 3 => c.do = "try" /\ c.defer = "none"
          /\ i = 4 => c.do = "mount" /\ c.defer = "umount"
          /\ i = 5 => c.do = "go" /\ c.defer = "none"
      BY <1>3, Lists DEF flushbench, S, D
    <2> HIDE DEF c
    <2> QED
      BY <1>0, <1>3, <2>1, <2>2, FaultNames DEF StepOK, Explicit
  <1>4. CASE p = "closeWithErrors"
    <2>1. i \in 1 .. 5 /\ Len(Steps(p)) = 5 /\ c.dev = p
      BY <1>4, Lists DEF closeWithErrors, S, D
    <2>2. /\ i = 1 => c.do = "new" /\ c.defer = "none"
          /\ i = 2 => c.do = "open" /\ c.defer = "none"
          /\ i = 3 => c.do = "loop" /\ c.defer = "none"
          /\ i = 4 => c.do = "closefd" /\ c.defer = "none"
          /\ i = 5 => c.do = "close" /\ c.defer = "none"
      BY <1>4, Lists DEF closeWithErrors, S, D
    <2> HIDE DEF c
    <2> QED
      BY <1>0, <1>4, <2>1, <2>2, FaultNames DEF StepOK, Explicit, Length
  <1>5. CASE p \in {"lowRate", "totalWriteFail", "totalReadFail"}
    <2>0. Steps(p) = Scenario(p)
      BY <1>5, Lists
    <2>1. i \in 1 .. 4 /\ Len(Steps(p)) = 4 /\ c.dev = p
      BY <1>5, <2>0 DEF Scenario, S, D
    <2>2. /\ i = 1 => c.do = "new" /\ c.defer = "close"
          /\ i = 2 => c.do = "open" /\ c.defer = "closefd"
          /\ i = 3 => c.do = "loop" /\ c.defer = "none"
          /\ i = 4 => c.do = "judge" /\ c.defer = "none"
      BY <1>5, <2>0 DEF Scenario, S, D
    <2> HIDE DEF c
    <2> QED
      BY <1>0, <1>5, <2>1, <2>2, FaultNames DEF StepOK, Explicit
  <1>6. CASE p = "chain"
    <2>1. Steps(p) = runChain /\ i \in 1 .. 3 * Roundtrips + 6
      BY <1>6, Lists, ChainSteps
    <2>2. CASE i \in 5 .. 3 * Roundtrips + 4
      <3>1. c = roundtrip[i - 4] /\ i - 4 \in 1 .. 3 * Roundtrips
        BY <2>1, <2>2, ChainSteps, ProgramsAssumption
      <3>2. c.do \in {"write", "read", "compare"} /\ c.dev = "proxy" /\ c.defer = "none"
        <4>1. (i - 4) % 3 \in {0, 1, 2}
          BY <3>1
        <4> QED
          BY Zenon, <3>1, <4>1, RoundtripSteps
      <3> HIDE DEF c
      <3>3. i \in Nat \ {0} /\ i # 1 /\ i # 2 /\ i # 3
        BY <2>2, ProgramsAssumption
      <3> QED
        BY <1>0, <1>6, <3>2, <3>3, FaultNames DEF StepOK, Explicit
    <2>3. CASE i \in {3 * Roundtrips + 5, 3 * Roundtrips + 6}
      <3>1. c.do \in {"load", "stats"} /\ c.dev = "proxy" /\ c.defer = "none" /\ i \in Nat \ {0}
        BY <2>1, <2>3, ChainSteps, ProgramsAssumption DEF S
      <3> HIDE DEF c
      <3> QED
        BY <1>0, <1>6, <3>1, FaultNames DEF StepOK, Explicit
    <2>4. CASE i \in 1 .. 4
      <3>1. /\ c.dev \in {"storage", "proxy"}
            /\ \/ c.do = "new" /\ c.defer = "close"
               \/ c.do = "open" /\ c.defer = "closefd"
        BY <2>1, <2>4, ChainSteps DEF D
      <3> HIDE DEF c
      <3> QED
        BY <1>0, <1>6, <2>4, <3>1, FaultNames DEF StepOK, Explicit
    <2> QED
      BY <2>1, <2>2, <2>3, <2>4, ProgramsAssumption
  <1> QED
    BY <1>1, <1>2, <1>3, <1>4, <1>5, <1>6, FaultNames

-----------------------------------------------------------------------------
(***************************************************************************)
(* Steps that neither hold nor release anything.                           *)
(***************************************************************************)

(* The step a program is at is one of its list.                            *)
LEMMA AtStep ==
    ASSUME ProgTypeOK, NEW dos, At(dos)
    PROVE  StepOK(prog, pos, Cur) /\ Cur.do \in dos
  BY Zenon, StepFacts DEF At, Cur, ProgTypeOK

(* Nothing moves.                                                          *)
LEMMA QuietRelease ==
    ASSUME ReleaseInv, UNCHANGED <<progVars, devs>>
    PROVE  ReleaseInv'
  <1>1. UNCHANGED <<prog, pos, defers, mode, verdict, state, holds>>
    BY Zenon DEF progVars, devs
  <1>2. /\ \A d \in Devs : (OwnsFd(d))' = OwnsFd(d) /\ (OwnsDevice(d))' = OwnsDevice(d)
        /\ \A x, d : (Deferred(x, d))' = Deferred(x, d)
        /\ (In({"close"}))' = In({"close"})
    BY Zenon, <1>1 DEF OwnsFd, OwnsDevice, Deferred, In, At, Cur, Abandoned
  <1>3. DefersInOrder' /\ FdsOwned'
    BY Zenon, <1>1, <1>2 DEF ReleaseInv, DefersInOrder, FdsOwned
  <1>4. DevicesOwned' /\ ClosedInOrder'
    BY Zenon, <1>1, <1>2 DEF ReleaseInv, DevicesOwned, ClosedInOrder
  <1> QED
    BY <1>3, <1>4 DEF ReleaseInv

(* The program unwinds, or goes on unwinding, and leaves nothing behind    *)
(* that only the step it was at would have released.                       *)
LEMMA UnwindsRelease ==
    ASSUME ReleaseInv, UNCHANGED <<prog, defers, devs>>, mode # "exit", mode' = "unwind",
           \A d \in Devs : ~OwnsFd(d),
           verdict' = "hung" \/ (verdict # "hung" /\ \A d \in Devs :
                                    OwnsDevice(d) => state[d] \notin {"live", "closing"})
    PROVE  ReleaseInv'
  <1>1. UNCHANGED <<prog, defers, state, holds>>
    BY Zenon DEF devs
  <1>2. \A d \in Devs : ~(OwnsFd(d))' /\ ~(OwnsDevice(d))'
    BY Zenon DEF OwnsFd, OwnsDevice
  <1>3. \A x, d : (Deferred(x, d))' = Deferred(x, d)
    BY Zenon, <1>1 DEF Deferred
  <1>4. DefersInOrder' /\ FdsOwned'
    BY Zenon, <1>1, <1>2, <1>3 DEF ReleaseInv, DefersInOrder, FdsOwned
  <1>5. DevicesOwned' /\ ClosedInOrder'
    BY Zenon, <1>1, <1>2, <1>3 DEF ReleaseInv, DevicesOwned, ClosedInOrder
  <1> QED
    BY <1>4, <1>5 DEF ReleaseInv

(* The program is ended by a watchdog.                                     *)
LEMMA ExitsRelease ==
    ASSUME ReleaseInv, UNCHANGED <<prog, defers, devs>>, mode' = "exit", verdict' = "hung"
    PROVE  ReleaseInv'
  <1>1. UNCHANGED <<prog, defers, state, holds>>
    BY Zenon DEF devs
  <1>2. \A d \in Devs : ~(OwnsFd(d))' /\ ~(OwnsDevice(d))'
    BY Zenon DEF OwnsFd, OwnsDevice
  <1> QED
    BY Zenon, <1>1, <1>2
       DEF ReleaseInv, DefersInOrder, FdsOwned, DevicesOwned, ClosedInOrder

(* The steps that acquire and release nothing.                             *)
Plain == {"try", "go", "loop", "write", "read", "compare", "judge", "load", "stats"}

(* The program goes on after a step that acquires and releases nothing.    *)
LEMMA AdvanceRelease ==
    ASSUME ProgTypeOK, ReleaseInv, In(Plain), Advance, UNCHANGED <<defers, devs>>
    PROVE  ReleaseInv'
  <1>1. /\ UNCHANGED <<prog, defers, mode, verdict, state, holds>> /\ pos' = pos + 1
        /\ mode = "run" /\ pos \in Nat
    BY Zenon DEF devs, Advance, In, ProgTypeOK
  <1>2. StepOK(prog, pos, Cur) /\ Cur.do \in Plain
    BY Zenon, AtStep DEF In
  <1>3. /\ prog = "main" => pos = 2
        /\ prog = "closeWithErrors" => pos = 3
    BY <1>2, FaultNames DEF StepOK, Plain, Explicit
  <1>4. \A d \in Devs : /\ (OwnsFd(d))' <=> OwnsFd(d)
                        /\ (OwnsDevice(d))' <=> OwnsDevice(d)
    BY <1>1, <1>3 DEF OwnsFd, OwnsDevice, Explicit, Length
  <1>5. \A x, d : (Deferred(x, d))' = Deferred(x, d)
    BY Zenon, <1>1 DEF Deferred
  <1>6. \A d \in Devs : state[d] # "closing"
    BY <1>1, <1>2 DEF ReleaseInv, ClosedInOrder, In, At, Plain
  <1>7. DefersInOrder' /\ FdsOwned'
    BY Zenon, <1>1, <1>4, <1>5 DEF ReleaseInv, DefersInOrder, FdsOwned
  <1>8. DevicesOwned' /\ ClosedInOrder'
    BY Zenon, <1>1, <1>4, <1>5, <1>6 DEF ReleaseInv, DevicesOwned, ClosedInOrder
  <1> QED
    BY <1>7, <1>8 DEF ReleaseInv

-----------------------------------------------------------------------------
(***************************************************************************)
(* Steps that acquire something.                                           *)
(***************************************************************************)

(* A release releases something of a device.                               *)
LEMMA ReleaseTypes ==
    ASSUME defers \in Seq(Releases)
    PROVE  \A i \in DOMAIN defers : /\ defers[i] \in Releases /\ defers[i].dev \in Devs
                                    /\ defers[i] = S(defers[i].do, defers[i].dev)
  <1>1. \A i \in DOMAIN defers : defers[i] \in Releases
    OBVIOUS
  <1>2. \A x \in Releases : x.dev \in Devs /\ x = S(x.do, x.dev)
    BY DEF Releases, S
  <1> QED
    BY <1>1, <1>2

(* One more release is deferred.                                           *)
LEMMA Pushed ==
    ASSUME defers \in Seq(Releases), NEW x \in Releases, defers' = Append(defers, x)
    PROVE  /\ defers' \in Seq(Releases)
           /\ Len(defers) + 1 \in DOMAIN defers' /\ defers'[Len(defers) + 1] = x
           /\ \A i \in DOMAIN defers : /\ i \in DOMAIN defers' /\ defers'[i] = defers[i]
                                       /\ i < Len(defers) + 1
           /\ \A i \in DOMAIN defers' : i \in DOMAIN defers \/ i = Len(defers) + 1
  OBVIOUS

(* ublk.New succeeds: the device was none of those known.                  *)
LEMMA CreateRelease ==
    ASSUME ProgTypeOK, ReleaseInv, In({"new"}), Create(Cur.dev), Advance, Defer
    PROVE  ReleaseInv' /\ defers' \in Seq(Releases)
  <1>1. /\ UNCHANGED <<prog, mode, verdict, holds>> /\ pos' = pos + 1
        /\ mode = "run" /\ pos \in Nat /\ defers \in Seq(Releases)
        /\ state[Cur.dev] = "none"
    BY Zenon DEF Advance, In, ProgTypeOK, Create
  <1>2. StepOK(prog, pos, Cur) /\ Cur.do = "new"
    BY AtStep DEF In
  <1>3. PICK d0 \in Devs : d0 = Cur.dev
    BY <1>2 DEF StepOK
  <1>4. state'[d0] = "live" /\ \A d \in Devs : d # d0 => state'[d] = state[d]
    BY <1>3 DEF ProgTypeOK, Create, Become
  <1>5. /\ \A d \in Devs : state[d] # "closing"
        /\ "open" \notin holds[d0]
    BY <1>1, <1>2, <1>3 DEF ReleaseInv, ClosedInOrder, In, At
  <1>6. CASE Cur.defer = "close"
    <2>1. prog \notin Explicit
      BY <1>2, <1>6 DEF StepOK
    <2>2. S("close", d0) \in Releases /\ defers' = Append(defers, S("close", d0))
      BY <1>3, <1>6 DEF Defer, Releases, S
    <2>3. /\ defers' \in Seq(Releases)
          /\ Len(defers) + 1 \in DOMAIN defers' /\ defers'[Len(defers) + 1] = S("close", d0)
          /\ \A i \in DOMAIN defers : /\ i \in DOMAIN defers' /\ defers'[i] = defers[i]
                                       /\ i < Len(defers) + 1
          /\ \A i \in DOMAIN defers' : i \in DOMAIN defers \/ i = Len(defers) + 1
      BY Zenon, <1>1, <2>2, Pushed
    <2>4. \A d \in Devs : ~OwnsFd(d) /\ ~OwnsDevice(d) /\ ~OwnsFd(d)' /\ ~OwnsDevice(d)'
      BY <1>1, <2>1 DEF OwnsFd, OwnsDevice, Explicit
    <2>5. \A x, d : Deferred(x, d) => Deferred(x, d)'
      BY Zenon, <2>3 DEF Deferred
    <2>6. Deferred("close", d0)'
      BY Zenon, <2>3 DEF Deferred
    <2>7. \A i \in DOMAIN defers : defers[i].dev # d0 /\ defers[i].dev \in Devs
      BY <1>1, <1>3, ReleaseTypes DEF ReleaseInv, DefersInOrder
    <2>8. DefersInOrder'
      <3>1. \A i \in DOMAIN defers' : state'[defers'[i].dev] # "none"
        BY <1>4, <2>3, <2>7 DEF ReleaseInv, DefersInOrder, S
      <3>2. \A i, j \in DOMAIN defers' :
               defers'[i].dev = defers'[j].dev /\ defers'[i].do = "close" /\ defers'[j].do = "closefd"
                  => i < j
        BY <2>3, <2>7 DEF ReleaseInv, DefersInOrder, S
      <3>3. ~(mode' = "run" /\ prog' \in Explicit)
        BY <1>1, <2>1 DEF Explicit
      <3> QED
        BY Zenon, <3>1, <3>2, <3>3 DEF DefersInOrder
    <2>9. FdsOwned' /\ ClosedInOrder'
      BY Zenon, <1>1, <1>4, <1>5, <2>4, <2>5 DEF ReleaseInv, FdsOwned, ClosedInOrder
    <2>10. DevicesOwned'
      BY Zenon, <1>1, <1>4, <2>4, <2>5, <2>6 DEF ReleaseInv, DevicesOwned
    <2> QED
      BY <2>3, <2>8, <2>9, <2>10 DEF ReleaseInv
  <1>7. CASE Cur.defer = "none"
    <2>1. prog \in Explicit /\ pos = 1 /\ prog = d0 /\ UNCHANGED defers
      BY <1>2, <1>3, <1>7 DEF StepOK, Defer
    <2>2. /\ \A d \in Devs : ~OwnsFd(d) /\ ~OwnsDevice(d) /\ ~OwnsFd(d)'
          /\ \A d \in Devs : OwnsDevice(d)' <=> d = d0
      BY <1>1, <1>3, <2>1 DEF OwnsFd, OwnsDevice, Explicit, Length
    <2>3. defers = <<>> /\ ~\E x, d : Deferred(x, d)
      BY <1>1, <2>1 DEF ReleaseInv, DefersInOrder, Deferred
    <2>4. DefersInOrder' /\ FdsOwned'
      BY <1>1, <2>1, <2>2, <2>3 DEF ReleaseInv, DefersInOrder, FdsOwned
    <2>5. DevicesOwned' /\ ClosedInOrder'
      BY <1>1, <1>4, <1>5, <2>1, <2>2, <2>3 DEF ReleaseInv, DevicesOwned, ClosedInOrder
    <2> QED
      BY <1>1, <2>1, <2>4, <2>5 DEF ReleaseInv
  <1> QED
    BY <1>2, <1>6, <1>7 DEF StepOK

(* unix.Open or mount succeeds.                                            *)
LEMMA HoldRelease ==
    ASSUME ProgTypeOK, ReleaseInv, In({"open", "mount"}), Hold(Cur.dev, Cur.do),
           Advance, Defer
    PROVE  ReleaseInv' /\ defers' \in Seq(Releases)
  <1>1. /\ UNCHANGED <<prog, mode, verdict, state>> /\ pos' = pos + 1
        /\ mode = "run" /\ pos \in Nat /\ defers \in Seq(Releases)
        /\ state[Cur.dev] \in {"live", "closing", "left"}
    BY Zenon DEF Advance, In, ProgTypeOK, Hold
  <1>2. StepOK(prog, pos, Cur) /\ Cur.do \in {"open", "mount"}
    BY AtStep DEF In
  <1>3. PICK d0 \in Devs : d0 = Cur.dev
    BY <1>2 DEF StepOK
  <1>4. \A d \in Devs : "open" \in holds'[d] <=>
                           "open" \in holds[d] \/ (d = d0 /\ Cur.do = "open")
    BY <1>2, <1>3 DEF ProgTypeOK, Hold
  <1>5. /\ \A d \in Devs : state[d] # "closing"
        /\ state[d0] # "none"
    BY <1>1, <1>2, <1>3 DEF ReleaseInv, ClosedInOrder, In, At
  <1>6. ClosedInOrder'
    BY <1>1, <1>4, <1>5 DEF ReleaseInv, ClosedInOrder
  <1>7. CASE Cur.defer # "none"
    <2>1. PICK x \in {"closefd", "umount"} :
             x = Cur.defer /\ (Cur.do = "open" => x = "closefd") /\ prog \notin Explicit
      BY <1>2, <1>7 DEF StepOK
    <2>2. S(x, d0) \in Releases /\ defers' = Append(defers, S(x, d0))
      BY <1>3, <2>1 DEF Defer, Releases, S
    <2>3. /\ defers' \in Seq(Releases)
          /\ Len(defers) + 1 \in DOMAIN defers' /\ defers'[Len(defers) + 1] = S(x, d0)
          /\ \A i \in DOMAIN defers : /\ i \in DOMAIN defers' /\ defers'[i] = defers[i]
                                       /\ i < Len(defers) + 1
          /\ \A i \in DOMAIN defers' : i \in DOMAIN defers \/ i = Len(defers) + 1
      BY Zenon, <1>1, <2>2, Pushed
    <2>4. \A d \in Devs : ~OwnsFd(d) /\ ~OwnsDevice(d) /\ ~OwnsFd(d)' /\ ~OwnsDevice(d)'
      BY <1>1, <2>1 DEF OwnsFd, OwnsDevice, Explicit
    <2>5. \A y, d : Deferred(y, d) => Deferred(y, d)'
      BY Zenon, <2>3 DEF Deferred
    <2>6. Deferred(x, d0)'
      BY Zenon, <2>3 DEF Deferred
    <2>7. DefersInOrder'
      BY <1>1, <1>5, <2>1, <2>3 DEF ReleaseInv, DefersInOrder, S
    <2>8. FdsOwned'
      BY Zenon, <1>1, <1>4, <2>1, <2>4, <2>5, <2>6 DEF ReleaseInv, FdsOwned
    <2>9. DevicesOwned'
      BY Zenon, <1>1, <2>4, <2>5 DEF ReleaseInv, DevicesOwned
    <2> QED
      BY <1>6, <2>3, <2>7, <2>8, <2>9 DEF ReleaseInv
  <1>8. CASE Cur.defer = "none"
    <2>1. /\ prog = "closeWithErrors" /\ pos = 2 /\ prog = d0 /\ UNCHANGED defers
          /\ Cur.do = "open"
      BY <1>2, <1>3, <1>8 DEF StepOK, Defer
    <2>2. /\ \A d \in Devs : ~OwnsFd(d) /\ (OwnsFd(d)' <=> d = d0)
          /\ \A d \in Devs : OwnsDevice(d)' <=> OwnsDevice(d)
      BY <1>1, <2>1 DEF OwnsFd, OwnsDevice, Explicit, Length
    <2>3. \A x, d : Deferred(x, d)' <=> Deferred(x, d)
      BY Zenon, <2>1 DEF Deferred
    <2>4. DefersInOrder' /\ FdsOwned'
      BY Zenon, <1>1, <1>4, <2>1, <2>2, <2>3 DEF ReleaseInv, DefersInOrder, FdsOwned
    <2>5. DevicesOwned'
      BY Zenon, <1>1, <2>1, <2>2, <2>3 DEF ReleaseInv, DevicesOwned
    <2> QED
      BY <1>1, <1>6, <2>1, <2>4, <2>5 DEF ReleaseInv
  <1> QED
    BY <1>7, <1>8

(* closeWithErrors cannot open its device: it closes it.                   *)
LEMMA OpenFails ==
    ASSUME ProgTypeOK, ReleaseInv, In({"open", "mount"}), Return("env"), UNCHANGED devs,
           defers' = IF Cur.defer = "none" THEN Append(defers, S("close", Cur.dev)) ELSE defers
    PROVE  ReleaseInv' /\ defers' \in Seq(Releases)
  <1>1. /\ mode = "run" /\ mode' = "unwind" /\ verdict' = "env" /\ UNCHANGED <<prog, pos>>
        /\ UNCHANGED <<state, holds>> /\ pos \in Nat /\ defers \in Seq(Releases)
    BY DEF In, Return, Abandoned, devs, ProgTypeOK
  <1>2. StepOK(prog, pos, Cur) /\ Cur.do \in {"open", "mount"}
    BY AtStep DEF In
  <1>3. PICK d0 \in Devs : d0 = Cur.dev
    BY <1>2 DEF StepOK
  <1>4. \A d \in Devs : ~OwnsFd(d) /\ (Cur.defer # "none" => ~OwnsDevice(d))
    BY <1>2, FaultNames DEF OwnsFd, OwnsDevice, StepOK, Explicit
  <1>5. CASE Cur.defer # "none"
    <2>1. UNCHANGED <<prog, defers, devs>> /\ verdict # "hung"
      BY <1>1, <1>5 DEF ProgTypeOK
    <2> QED
      BY <1>1, <1>4, <1>5, <2>1, UnwindsRelease
  <1>6. CASE Cur.defer = "none"
    <2>1. prog = "closeWithErrors" /\ pos = 2 /\ d0 = prog /\ prog \in Explicit
      BY <1>2, <1>3, <1>6 DEF StepOK, Explicit
    <2>2. defers = <<>> /\ defers' = <<S("close", d0)>> /\ S("close", d0) \in Releases
      BY <1>1, <1>3, <1>6, <2>1 DEF ReleaseInv, DefersInOrder, Releases, S
    <2>3. /\ defers' \in Seq(Releases) /\ DOMAIN defers' = {1} /\ defers'[1] = S("close", d0)
      BY <2>2
    <2>4. /\ \A d \in Devs : OwnsDevice(d) => d = d0
          /\ \A d \in Devs : ~OwnsFd(d)' /\ ~OwnsDevice(d)'
          /\ \A x, d : ~Deferred(x, d) /\ (Deferred(x, d)' <=> x = "close" /\ d = d0)
      BY <1>1, <2>1, <2>2, <2>3 DEF OwnsFd, OwnsDevice, Deferred, S
    <2>5. OwnsDevice(d0)
      BY <1>1, <2>1 DEF OwnsDevice, Length
    <2>6. DefersInOrder'
      BY <1>1, <2>3, <2>5 DEF ReleaseInv, DevicesOwned, DefersInOrder, S
    <2>7. FdsOwned' /\ DevicesOwned'
      BY <1>1, <1>4, <2>4 DEF ReleaseInv, DevicesOwned, FdsOwned, ProgTypeOK
    <2>8. ClosedInOrder'
      BY <1>1 DEF ReleaseInv, ClosedInOrder
    <2> QED
      BY <2>3, <2>6, <2>7, <2>8 DEF ReleaseInv
  <1> QED
    BY <1>5, <1>6

-----------------------------------------------------------------------------
(***************************************************************************)
(* Steps that release something.                                           *)
(***************************************************************************)

(* closeWithErrors closes its fd.                                          *)
LEMMA CloseFdRelease ==
    ASSUME ProgTypeOK, ReleaseInv, DoCloseFd
    PROVE  ReleaseInv'
  <1>1. /\ UNCHANGED <<prog, mode, verdict, state, defers>> /\ pos' = pos + 1
        /\ mode = "run" /\ pos \in Nat
    BY Zenon DEF DoCloseFd, Advance, In, ProgTypeOK, Unhold
  <1>2. StepOK(prog, pos, Cur) /\ Cur.do = "closefd"
    BY AtStep DEF DoCloseFd, In
  <1>3. /\ prog = "closeWithErrors" /\ pos = 4 /\ Cur.dev = "closeWithErrors"
        /\ "closeWithErrors" \in Devs
    BY <1>2 DEF StepOK
  <1>4. \A d \in Devs : "open" \in holds'[d] <=>
                           "open" \in holds[d] /\ d # "closeWithErrors"
    BY <1>3 DEF ProgTypeOK, DoCloseFd, Unhold
  <1>5. /\ \A d \in Devs : ~OwnsFd(d)' /\ (OwnsFd(d) <=> d = "closeWithErrors")
        /\ \A d \in Devs : OwnsDevice(d)' <=> OwnsDevice(d)
    BY <1>1, <1>3 DEF OwnsFd, OwnsDevice, Explicit, Length
  <1>6. \A x, d : Deferred(x, d)' <=> Deferred(x, d)
    BY Zenon, <1>1 DEF Deferred
  <1>7. \A d \in Devs : state[d] # "closing"
    BY <1>1, <1>2 DEF ReleaseInv, ClosedInOrder, In, At
  <1>8. DefersInOrder' /\ FdsOwned'
    BY Zenon, <1>1, <1>4, <1>5, <1>6 DEF ReleaseInv, DefersInOrder, FdsOwned
  <1>9. DevicesOwned'
    BY Zenon, <1>1, <1>5, <1>6 DEF ReleaseInv, DevicesOwned
  <1>10. ClosedInOrder'
    BY Zenon, <1>1, <1>4, <1>7 DEF ReleaseInv, ClosedInOrder
  <1> QED
    BY <1>8, <1>9, <1>10 DEF ReleaseInv

(* Close is called on a device with no fd left.                            *)
LEMMA BeginRelease ==
    ASSUME ProgTypeOK, ReleaseInv, UNCHANGED progVars, NEW d0 \in Devs, BeginClose(d0),
           "open" \notin holds[d0], mode = "unwind" \/ In({"close"})
    PROVE  ReleaseInv'
  <1>1. UNCHANGED <<prog, pos, mode, verdict, defers, holds>> /\ mode # "exit"
    BY Zenon DEF progVars, BeginClose, In
  <1>2. /\ state'[d0] = "closing" /\ state[d0] = "live"
        /\ \A d \in Devs : d # d0 => state'[d] = state[d]
    BY DEF ProgTypeOK, BeginClose, Become
  <1>3. /\ \A d \in Devs : (OwnsFd(d)' <=> OwnsFd(d)) /\ (OwnsDevice(d)' <=> OwnsDevice(d))
        /\ \A x, d : Deferred(x, d)' <=> Deferred(x, d)
        /\ In({"close"})' <=> In({"close"})
    BY Zenon, <1>1 DEF OwnsFd, OwnsDevice, Deferred, In, At, Cur, Abandoned
  <1>4. \A i \in DOMAIN defers : defers[i].dev \in Devs
    BY ReleaseTypes DEF ProgTypeOK
  <1>5. DefersInOrder' /\ FdsOwned'
    BY <1>1, <1>2, <1>3, <1>4 DEF ReleaseInv, DefersInOrder, FdsOwned
  <1>6. DevicesOwned' /\ ClosedInOrder'
    BY <1>1, <1>2, <1>3 DEF ReleaseInv, DevicesOwned, ClosedInOrder
  <1> QED
    BY <1>5, <1>6 DEF ReleaseInv

(* A deferred call has run.                                                *)
LEMMA PoppedDefers ==
    ASSUME defers \in Seq(Releases), defers # <<>>, defers' = Popped
    PROVE  /\ defers' \in Seq(Releases) /\ Len(defers) \in DOMAIN defers /\ Last \in Releases
           /\ \A i : i \in DOMAIN defers' <=> i \in DOMAIN defers /\ i # Len(defers)
           /\ \A i \in DOMAIN defers' : defers'[i] = defers[i]
           /\ \A i \in DOMAIN defers : i < Len(defers) \/ i = Len(defers)
  BY DEF Popped, Last

(* What is deferred and is not the call that has run is still deferred.    *)
LEMMA PoppedRelease ==
    ASSUME ProgTypeOK, ReleaseInv, mode = "unwind", defers # <<>>, defers' = Popped,
           UNCHANGED <<prog, pos, mode, verdict, state>>,
           \A d \in Devs : "open" \in holds'[d] => "open" \in holds[d] /\ Last # S("closefd", d),
           \A d \in Devs : state[d] \in {"live", "closing"} => Last # S("close", d)
    PROVE  ReleaseInv' /\ defers' \in Seq(Releases)
  <1>1. /\ defers' \in Seq(Releases)
        /\ \A i : i \in DOMAIN defers' <=> i \in DOMAIN defers /\ i # Len(defers)
        /\ \A i \in DOMAIN defers' : defers'[i] = defers[i]
    BY PoppedDefers DEF ProgTypeOK
  <1>2. \A x, d : Deferred(x, d) /\ Last # S(x, d) => Deferred(x, d)'
    BY Zenon, <1>1 DEF Deferred, Last
  <1>3. \A d \in Devs : ~OwnsFd(d) /\ ~OwnsDevice(d) /\ ~OwnsFd(d)' /\ ~OwnsDevice(d)'
    BY DEF OwnsFd, OwnsDevice
  <1>4. DefersInOrder'
    <2>1. mode' # "run"
      OBVIOUS
    <2>2. \A i \in DOMAIN defers' : i \in DOMAIN defers /\ defers'[i] = defers[i]
      BY Zenon, <1>1
    <2> QED
      BY <2>1, <2>2 DEF ReleaseInv, DefersInOrder
  <1>5. FdsOwned' /\ DevicesOwned'
    BY Zenon, <1>2, <1>3 DEF ReleaseInv, FdsOwned, DevicesOwned
  <1>6. ClosedInOrder'
    BY Zenon DEF ReleaseInv, ClosedInOrder
  <1> QED
    BY <1>1, <1>4, <1>5, <1>6 DEF ReleaseInv

(* A deferred close of a descriptor or a deferred unmount runs.            *)
LEMMA UnwindReleaseStep ==
    ASSUME ProgTypeOK, ReleaseInv, UnwindRelease
    PROVE  ReleaseInv' /\ defers' \in Seq(Releases)
  <1>1. /\ mode = "unwind" /\ defers # <<>> /\ Last.do \in {"closefd", "umount"}
        /\ defers' = Popped /\ UNCHANGED <<prog, pos, mode, verdict, state>>
    BY Zenon DEF UnwindRelease, Unhold, devs
  <1>2. PICK d0 \in Devs : d0 = Last.dev
    <2>1. Last \in Releases
      BY <1>1, PoppedDefers DEF ProgTypeOK
    <2> QED
      BY <2>1 DEF Releases
  <1>3. \A d \in Devs : "open" \in holds'[d] =>
                           "open" \in holds[d] /\ (Last.do = "closefd" => d # d0)
    <2>1. CASE Unhold(Last.dev, IF Last.do = "closefd" THEN "open" ELSE "mount")
      BY <1>2, <2>1 DEF Unhold, ProgTypeOK
    <2>2. CASE Last.do = "umount" /\ UNCHANGED devs
      BY <2>2 DEF devs
    <2> QED
      BY <2>1, <2>2 DEF UnwindRelease
  <1>4. \A d : /\ Last = S("closefd", d) => Last.do = "closefd" /\ d = d0
               /\ Last # S("close", d)
    BY <1>1, <1>2 DEF S
  <1> QED
    BY <1>1, <1>3, <1>4, PoppedRelease

(* A deferred Close runs: nothing deferred after it is left when it        *)
(* starts, so the descriptor on the device is already closed.              *)
LEMMA UnwindCloseStep ==
    ASSUME ProgTypeOK, ReleaseInv, UnwindClose
    PROVE  ReleaseInv' /\ defers' \in Seq(Releases)
  <1>1. /\ mode = "unwind" /\ defers # <<>> /\ Last.do = "close"
        /\ UNCHANGED <<prog, pos, mode, verdict, holds>>
    BY Zenon DEF UnwindClose, BeginClose, devs
  <1>2. /\ Last \in Releases /\ Len(defers) \in DOMAIN defers
        /\ defers \in Seq(Releases) /\ Len(defers) \in Nat
        /\ \A i \in DOMAIN defers : i \in Nat /\ i <= Len(defers)
    BY <1>1 DEF ProgTypeOK, Last
  <1>3. PICK d0 \in Devs : d0 = Last.dev
    BY <1>2 DEF Releases
  <1>4. CASE BeginClose(Last.dev) /\ UNCHANGED defers
    <2>1. ASSUME "open" \in holds[d0] PROVE FALSE
      <3>1. Deferred("closefd", d0)
        BY <1>1, <2>1 DEF ReleaseInv, FdsOwned, OwnsFd
      <3>2. PICK j \in DOMAIN defers : defers[j] = S("closefd", d0)
        BY <3>1 DEF Deferred
      <3>3. defers[j].do = "closefd" /\ defers[j].dev = d0
        BY <3>2 DEF S
      <3>4. Len(defers) < j
        BY Zenon, <1>1, <1>2, <1>3, <3>3 DEF ReleaseInv, DefersInOrder, Last
      <3> QED
        BY <1>2, <3>4
    <2>2. UNCHANGED progVars /\ BeginClose(d0)
      BY <1>1, <1>3, <1>4 DEF progVars
    <2> QED
      BY <1>1, <1>2, <1>4, <2>1, <2>2, BeginRelease
  <1>5. CASE /\ state[Last.dev] \in {"gone", "left"}
             /\ defers' = Popped /\ UNCHANGED devs
    <2>1. \A d : /\ Last # S("closefd", d)
                 /\ Last = S("close", d) => d = d0
      BY <1>1, <1>3 DEF S
    <2>2. state' = state /\ holds' = holds
      BY <1>5 DEF devs
    <2>3. /\ \A d \in Devs : "open" \in holds'[d] => "open" \in holds[d] /\ Last # S("closefd", d)
          /\ \A d \in Devs : state[d] \in {"live", "closing"} => Last # S("close", d)
      <3>1. \A d \in Devs : state[d] \in {"live", "closing"} => d # d0
        BY <1>3, <1>5
      <3> QED
        BY Zenon, <2>1, <2>2, <3>1
    <2> QED
      BY Zenon, <1>1, <1>5, <2>2, <2>3, PoppedRelease
  <1> QED
    BY <1>4, <1>5 DEF UnwindClose

(* The program ends, or fault goes on: nothing is held.                    *)
LEMMA LeaveStep ==
    ASSUME ProgTypeOK, ReleaseInv, Leave
    PROVE  /\ ReleaseInv' /\ UNCHANGED <<defers, verdict, state, holds>>
           /\ \/ mode' = "exit" /\ UNCHANGED <<prog, pos, calls, errs, saw, rest, unseen>>
              \/ /\ mode' = "run" /\ verdict = "ok" /\ pos' = 1 /\ errs' = 0 /\ saw' = 0
                 /\ rest' = Attempts /\ prog \in FaultProgs /\ prog' \in FaultProgs
                 /\ prog' # "lowRate" /\ unseen' = 0
                 /\ calls' = [calls EXCEPT ![prog] = NoCalls]
  <1>1. /\ mode = "unwind" /\ defers = <<>>
        /\ UNCHANGED <<defers, verdict, state, holds>>
    BY Zenon DEF Leave, devs
  <1>2. \A d \in Devs : ~OwnsFd(d) /\ ~OwnsDevice(d)
    BY <1>1 DEF OwnsFd, OwnsDevice
  <1>3. \A x, d : ~Deferred(x, d) /\ ~Deferred(x, d)'
    BY <1>1 DEF Deferred
  <1>4. \A d \in Devs : /\ "open" \notin holds[d]
                        /\ verdict # "hung" => state[d] \notin {"live", "closing"}
    BY <1>1, <1>2, <1>3 DEF ReleaseInv, FdsOwned, DevicesOwned
  <1>5. \/ mode' = "exit" /\ UNCHANGED <<prog, pos, calls, errs, saw, rest, unseen>>
        \/ /\ mode' = "run" /\ verdict = "ok" /\ pos' = 1 /\ errs' = 0 /\ saw' = 0
           /\ rest' = Attempts /\ prog \in FaultProgs /\ prog' \in FaultProgs
           /\ prog' # "lowRate" /\ unseen' = 0
           /\ calls' = [calls EXCEPT ![prog] = NoCalls]
    <2>1. /\ DOMAIN Fault = {1, 2, 3, 4} /\ 1 .. Len(Fault) - 1 = {1, 2, 3}
          /\ \A i \in {1, 2, 3} : i + 1 \in {2, 3, 4} /\ Fault[i + 1] # "lowRate"
      BY DEF Fault
    <2>2. \A i \in {1, 2, 3} : Fault[i] \in FaultProgs /\ Fault[i + 1] \in FaultProgs
      BY <2>1 DEF FaultProgs
    <2> QED
      BY Zenon, <2>1, <2>2 DEF Leave
  <1>6. \A d \in Devs : ~OwnsFd(d)' /\ ~OwnsDevice(d)'
    BY <1>5 DEF OwnsFd, OwnsDevice
  <1>7. DefersInOrder' /\ FdsOwned'
    BY <1>1, <1>3, <1>4, <1>6 DEF DefersInOrder, FdsOwned
  <1>8. DevicesOwned' /\ ClosedInOrder'
    BY <1>1, <1>4, <1>5, <1>6 DEF ReleaseInv, DevicesOwned, ClosedInOrder
  <1> QED
    BY <1>1, <1>5, <1>7, <1>8 DEF ReleaseInv

(* DEL_DEV succeeds or is refused; udev comes and goes.                    *)
LEMMA DeviceRelease ==
    ASSUME ProgTypeOK, ReleaseInv, NEW d0 \in Devs,
           Remove(d0) \/ UdevOpens(d0) \/ UdevLeaves(d0)
    PROVE  ReleaseInv' /\ UNCHANGED progVars
  <1>1. UNCHANGED progVars
    BY Zenon DEF Remove, UdevOpens, UdevLeaves
  <1>2. UNCHANGED <<prog, pos, mode, verdict, defers>>
    BY Zenon, <1>1 DEF progVars
  <1>3. /\ \A d \in Devs : state'[d] = state[d] \/ (state[d] = "closing" /\ state'[d] \in {"gone", "left"})
        /\ \A d \in Devs : "open" \in holds'[d] <=> "open" \in holds[d]
    <2>1. CASE Remove(d0)
      BY <2>1 DEF Remove, Delete, DeleteRefused, Become, ProgTypeOK
    <2>2. CASE UdevOpens(d0)
      BY <2>2 DEF UdevOpens, Hold, ProgTypeOK
    <2>3. CASE UdevLeaves(d0)
      BY <2>3 DEF UdevLeaves, Unhold, ProgTypeOK
    <2> QED
      BY <2>1, <2>2, <2>3
  <1>4. /\ \A d \in Devs : (OwnsFd(d)' <=> OwnsFd(d)) /\ (OwnsDevice(d)' <=> OwnsDevice(d))
        /\ \A x, d : Deferred(x, d)' <=> Deferred(x, d)
        /\ In({"close"})' <=> In({"close"})
    BY Zenon, <1>2 DEF OwnsFd, OwnsDevice, Deferred, In, At, Cur, Abandoned
  <1>5. \A i \in DOMAIN defers : defers[i].dev \in Devs
    BY Zenon, ReleaseTypes DEF ProgTypeOK
  <1>6. DefersInOrder' /\ FdsOwned'
    BY Zenon, <1>2, <1>3, <1>4, <1>5 DEF ReleaseInv, DefersInOrder, FdsOwned
  <1>7. DevicesOwned' /\ ClosedInOrder'
    BY <1>2, <1>3, <1>4 DEF ReleaseInv, DevicesOwned, ClosedInOrder
  <1> QED
    BY <1>1, <1>6, <1>7 DEF ReleaseInv

-----------------------------------------------------------------------------
(***************************************************************************)
(* Every step keeps what is held and what is deferred in order.            *)
(***************************************************************************)

(* A program that defers its releases returns at any step.                 *)
LEMMA ReturnRelease ==
    ASSUME ProgTypeOK, ReleaseInv, NEW dos, At(dos), NEW v, Return(v), UNCHANGED <<defers, devs>>,
           mode = "run" => prog \notin Explicit
    PROVE  ReleaseInv'
  <1>1. /\ UNCHANGED <<prog, defers, devs>> /\ mode # "exit" /\ mode' = "unwind"
        /\ mode = "run" => verdict # "hung"
        /\ mode = "unwind" => verdict' = "hung"
    BY DEF Return, Abandoned, At, ProgTypeOK
  <1>2. \A d \in Devs : ~OwnsFd(d) /\ ~OwnsDevice(d)
    BY DEF OwnsFd, OwnsDevice, Explicit
  <1>3. verdict' = "hung" \/ verdict # "hung"
    BY <1>1 DEF At, Abandoned
  <1> QED
    BY Zenon, <1>1, <1>2, <1>3, UnwindsRelease

(* Abandoned, the goroutine of a step of chain goes on or ends.            *)
LEMMA AbandonedRelease ==
    ASSUME ReleaseInv, Abandoned, UNCHANGED <<prog, mode, verdict, defers, devs>>
    PROVE  ReleaseInv'
  <1>1. /\ mode # "exit" /\ mode' = "unwind" /\ verdict' = "hung"
        /\ \A d \in Devs : ~OwnsFd(d)
    BY DEF Abandoned, OwnsFd
  <1>2. UNCHANGED <<prog, defers, devs>>
    OBVIOUS
  <1> QED
    BY Zenon, <1>1, <1>2, UnwindsRelease

(* Every step taken while the program goes forward keeps the releases.     *)
LEMMA ForwardRelease ==
    ASSUME ProgTypeOK, ReleaseInv, Forward
    PROVE  ReleaseInv' /\ defers' \in Seq(Releases)
  <1>0. defers \in Seq(Releases)
    BY DEF ProgTypeOK
  <1>1. CASE DoNew
    <2>1. In({"new"}) /\ At({"new"}) /\ mode = "run"
      BY <1>1 DEF DoNew, In
    <2>2. CASE Create(Cur.dev) /\ Advance /\ Defer
      BY <2>1, <2>2, CreateRelease
    <2>3. CASE Return("env") /\ UNCHANGED <<devs, defers>>
      <3>1. /\ UNCHANGED <<prog, defers, devs>> /\ mode' = "unwind" /\ mode # "exit"
            /\ verdict # "hung"
        BY <2>1, <2>3 DEF Return, Abandoned, ProgTypeOK
      <3>2. StepOK(prog, pos, Cur) /\ Cur.do = "new"
        BY <2>1, AtStep
      <3>3. \A d \in Devs : ~OwnsFd(d) /\ ~OwnsDevice(d)
        BY <3>2 DEF StepOK, OwnsFd, OwnsDevice, Explicit
      <3> QED
        BY Zenon, <1>0, <3>1, <3>3, UnwindsRelease
    <2> QED
      BY <1>1, <2>2, <2>3 DEF DoNew
  <1>2. CASE DoAcquire
    BY <1>2, HoldRelease, OpenFails DEF DoAcquire
  <1>3. CASE DoTry
    <2>1. UNCHANGED <<defers, devs>>
      BY <1>3 DEF DoTry
    <2>2. CASE In({"try"}) /\ Return("env")
      <3>1. At({"try"}) /\ prog \notin Explicit
        BY <2>2, AtStep DEF In, StepOK
      <3> QED
        BY <1>0, <2>1, <2>2, <3>1, ReturnRelease
    <2>3. CASE In({"try", "go"}) /\ Advance
      <3>1. In(Plain)
        BY <2>3 DEF In, At, Plain
      <3> QED
        BY <1>0, <2>1, <2>3, <3>1, AdvanceRelease
    <2> QED
      BY <1>3, <2>2, <2>3 DEF DoTry
  <1>4. CASE DoIssue
    <2>1. UNCHANGED devs /\ At({"write", "read", "loop"})
      BY <1>4 DEF DoIssue
    <2>2. CASE "open" \in holds[Cur.dev]
      <3>1. UNCHANGED progVars
        BY <1>4, <2>2 DEF DoIssue
      <3> QED
        BY <1>0, <2>1, <3>1, QuietRelease DEF progVars
    <2>3. CASE "open" \notin holds[Cur.dev]
      <3>1. Return("env") /\ UNCHANGED defers
        BY <1>4, <2>3 DEF DoIssue
      <3>2. StepOK(prog, pos, Cur) /\ Cur.do \in {"write", "read", "loop"}
        BY <2>1, AtStep
      <3>3. mode = "run" => prog \notin Explicit
        BY <2>3, <3>2, FaultNames
           DEF StepOK, Explicit, ReleaseInv, FdsOwned, OwnsFd
      <3> QED
        BY <1>0, <2>1, <3>1, <3>3, ReturnRelease
    <2> QED
      BY <2>2, <2>3
  <1>5. CASE DoReturned
    <2>1. UNCHANGED devs /\ UNCHANGED defers /\ At({"write", "read", "loop"})
      BY <1>5 DEF DoReturned
    <2>2. StepOK(prog, pos, Cur) /\ Cur.do \in {"write", "read", "loop"}
      BY <2>1, AtStep
    <2>3. CASE Advance
      <3>1. CASE mode = "run"
        BY <1>0, <2>1, <2>3, <3>1, AdvanceRelease DEF In, At, Plain
      <3>2. CASE Abandoned
        BY <1>0, <2>1, <2>3, <3>2, AbandonedRelease DEF Advance
      <3> QED
        BY <2>1, <3>1, <3>2 DEF At
    <2>4. CASE UNCHANGED <<prog, pos, mode, verdict>>
      BY <1>0, <2>1, <2>4, QuietRelease DEF progVars
    <2>5. CASE Cur.do # "loop" /\ Return("env")
      <3>1. prog \notin Explicit
        BY <2>2, <2>5 DEF StepOK, Explicit
      <3> QED
        BY <1>0, <2>1, <2>5, <3>1, ReturnRelease
    <2> QED
      BY Zenon, <1>5, <2>3, <2>4, <2>5 DEF DoReturned
  <1>6. CASE DoCompare
    <2>1. UNCHANGED <<defers, devs>> /\ At({"compare"})
      BY <1>6 DEF DoCompare
    <2>2. StepOK(prog, pos, Cur) /\ Cur.do = "compare"
      BY <2>1, AtStep
    <2>3. prog \notin Explicit
      BY <2>2 DEF StepOK, Explicit
    <2>4. CASE Abandoned /\ UNCHANGED <<prog, mode, verdict>>
      BY <1>0, <2>1, <2>4, AbandonedRelease
    <2>5. CASE ~Abandoned /\ Advance
      BY <1>0, <2>1, <2>5, AdvanceRelease DEF In, At, Plain
    <2>6. CASE Return("mismatch")
      BY <1>0, <2>1, <2>3, <2>6, ReturnRelease
    <2> QED
      BY Zenon, <1>6, <2>4, <2>5, <2>6 DEF DoCompare, Advance
  <1>7. CASE DoJudge
    <2>1. UNCHANGED <<defers, devs>> /\ In({"stats", "judge"}) /\ At({"stats", "judge"})
      BY <1>7 DEF DoJudge, In
    <2>2. StepOK(prog, pos, Cur) /\ Cur.do \in {"stats", "judge"}
      BY <2>1, AtStep
    <2>3. prog \notin Explicit
      BY <2>2, FaultNames DEF StepOK, Explicit
    <2>4. CASE Advance
      BY <1>0, <2>1, <2>4, AdvanceRelease DEF In, At, Plain
    <2>5. CASE Return(Judgement)
      BY <1>0, <2>1, <2>3, <2>5, ReturnRelease
    <2> QED
      BY Zenon, <1>7, <2>4, <2>5 DEF DoJudge
  <1>8. CASE DoCloseFd
    BY <1>0, <1>8, CloseFdRelease DEF DoCloseFd
  <1>9. CASE DoClose
    <2>1. In({"close"}) /\ At({"close"}) /\ mode = "run"
      BY <1>9 DEF DoClose, In
    <2>2. StepOK(prog, pos, Cur) /\ Cur.do = "close"
      BY <2>1, AtStep
    <2>3. /\ prog \in Explicit /\ pos = Length(prog) /\ Cur.dev = prog /\ Cur.dev \in Devs
          /\ defers = <<>>
      BY <2>1, <2>2 DEF StepOK, ReleaseInv, DefersInOrder
    <2>4. \A d \in Devs : ~OwnsFd(d) /\ (OwnsDevice(d) => d = prog)
      BY <2>3 DEF OwnsFd, OwnsDevice, Length, Explicit
    <2>5. "open" \notin holds[Cur.dev]
      BY <2>1, <2>3, <2>4 DEF ReleaseInv, FdsOwned, Deferred
    <2>6. CASE BeginClose(Cur.dev) /\ UNCHANGED progVars
      BY <1>0, <2>1, <2>3, <2>5, <2>6, BeginRelease DEF progVars
    <2>7. CASE /\ state[Cur.dev] \in {"gone", "left"} /\ UNCHANGED <<defers, devs>>
               /\ Return("env")
      <3>1. /\ UNCHANGED <<prog, defers, devs>> /\ mode' = "unwind" /\ mode # "exit"
            /\ verdict # "hung"
        BY <2>1, <2>7 DEF Return, Abandoned, ProgTypeOK
      <3>2. \A d \in Devs : OwnsDevice(d) => state[d] \notin {"live", "closing"}
        BY <2>3, <2>4, <2>7
      <3> QED
        BY Zenon, <1>0, <2>4, <3>1, <3>2, UnwindsRelease
    <2>8. CASE state[Cur.dev] = "gone" /\ UNCHANGED <<defers, devs>> /\ Advance
      <3>1. /\ UNCHANGED <<prog, mode, verdict, defers, state, holds>> /\ pos' = pos + 1
            /\ mode # "exit" /\ verdict # "hung"
        BY <2>1, <2>8 DEF Advance, devs, ProgTypeOK
      <3>2. \A d \in Devs : ~OwnsFd(d)' /\ ~OwnsDevice(d)'
        BY <2>3, <3>1 DEF OwnsFd, OwnsDevice, Length, Explicit
      <3>3. \A x, d : ~Deferred(x, d) /\ ~Deferred(x, d)'
        BY <2>3, <3>1 DEF Deferred
      <3>4. \A d \in Devs : state[d] \notin {"live", "closing"} /\ "open" \notin holds[d]
        BY <2>3, <2>4, <2>8, <3>1, <3>3 DEF ReleaseInv, DevicesOwned, FdsOwned
      <3>5. DefersInOrder' /\ FdsOwned'
        BY <2>3, <3>1, <3>2, <3>4 DEF DefersInOrder, FdsOwned
      <3>6. DevicesOwned' /\ ClosedInOrder'
        BY <3>1, <3>2, <3>4 DEF DevicesOwned, ClosedInOrder
      <3> QED
        BY <1>0, <3>1, <3>5, <3>6 DEF ReleaseInv
    <2> QED
      BY Zenon, <1>9, <2>6, <2>7, <2>8 DEF DoClose
  <1>10. CASE DoReturn
    <2>1. /\ UNCHANGED <<prog, pos, verdict, defers, devs>> /\ mode' = "unwind" /\ mode = "run"
          /\ verdict # "hung" /\ pos = Len(Steps(prog)) + 1
      BY <1>10 DEF DoReturn, ProgTypeOK
    <2>2. \A d \in Devs : ~OwnsFd(d) /\ ~OwnsDevice(d)
      BY <2>1, Lists DEF OwnsFd, OwnsDevice, Explicit, Length, mainProgram, closeWithErrors
    <2> QED
      BY Zenon, <1>0, <2>1, <2>2, UnwindsRelease
  <1>11. CASE DoLoad
    BY <1>0, <1>11, AdvanceRelease DEF DoLoad, In, At, Plain
  <1> QED
    BY Zenon, <1>1, <1>2, <1>3, <1>4, <1>5, <1>6, <1>7, <1>8, <1>9, <1>10, <1>11 DEF Forward

(* Serving, failing or retrying a request moves neither the program nor    *)
(* the devices.                                                            *)
LEMMA ServeQuiet ==
    ASSUME NEW d \in Devs, Serve(d) \/ Fail(d) \/ KRetry(d)
    PROVE  UNCHANGED <<progVars, devs, loopVars>>
  BY Zenon DEF Serve, Fail, Take, Answer, TakeLook, AnswerLook, KFail, FailLook, KRetry

(* Every step of a sequential program keeps ReleaseInv.                    *)
LEMMA ReleaseStep ==
    ASSUME ProgTypeOK, ReleaseInv, ProgNext
    PROVE  ReleaseInv' /\ defers' \in Seq(Releases)
  <1>0. defers \in Seq(Releases)
    BY DEF ProgTypeOK
  <1>1. CASE Forward
    BY <1>1, ForwardRelease
  <1>2. CASE Unwind
    BY <1>0, <1>2, UnwindReleaseStep, UnwindCloseStep, LeaveStep DEF Unwind
  <1>3. CASE Hang
    <2>1. UNCHANGED <<defers, devs>>
      BY <1>3 DEF Hang
    <2>2. CASE In({"write", "read"}) /\ Return("hung")
      <3>1. At({"write", "read"}) /\ prog \notin Explicit
        BY <2>2, AtStep DEF In, StepOK, Explicit
      <3> QED
        BY <1>0, <2>1, <2>2, <3>1, ReturnRelease
    <2>3. CASE In({"close"}) /\ prog = "closeWithErrors" /\ Return("hung")
      <3>1. /\ UNCHANGED <<prog, defers, devs>> /\ mode' = "unwind" /\ mode # "exit"
            /\ verdict' = "hung"
        BY <2>1, <2>3 DEF Return, Abandoned, In
      <3>2. StepOK(prog, pos, Cur) /\ Cur.do = "close"
        BY <2>3, AtStep DEF In
      <3>3. \A d \in Devs : ~OwnsFd(d)
        BY <3>2 DEF StepOK, OwnsFd, Length
      <3> QED
        BY Zenon, <1>0, <2>1, <3>1, <3>3, UnwindsRelease
    <2>4. CASE mode' = "exit" /\ verdict' = "hung" /\ UNCHANGED <<prog, pos>>
      BY <1>0, <2>1, <2>4, ExitsRelease
    <2> QED
      BY Zenon, <1>3, <2>2, <2>3, <2>4 DEF Hang
  <1>4. CASE \E d \in Devs : Serve(d) \/ Fail(d) \/ KRetry(d)
    <2>1. UNCHANGED <<progVars, devs>>
      BY Zenon, <1>4, ServeQuiet
    <2> QED
      BY <1>0, <2>1, QuietRelease DEF progVars
  <1>5. CASE \E d \in Devs : Remove(d) \/ UdevOpens(d) \/ UdevLeaves(d)
    <2>1. ReleaseInv' /\ UNCHANGED progVars
      BY Zenon, <1>5, DeviceRelease
    <2> QED
      BY <1>0, <2>1 DEF progVars
  <1> QED
    BY Zenon, <1>1, <1>2, <1>3, <1>4, <1>5 DEF ProgNext, Device

-----------------------------------------------------------------------------
(***************************************************************************)
(* The sequential programs: what a step may do to a device, to the place   *)
(* in the list and to a request.                                           *)
(***************************************************************************)

(* A step of a program is a step of a device or none.                      *)
LEMMA DeviceSteps ==
    ASSUME ProgTypeOK, ProgNext
    PROVE  \/ UNCHANGED devs
           \/ \E d \in Devs :
                 \/ Create(d) \/ BeginClose(d) \/ Delete(d) \/ DeleteRefused(d)
                 \/ \E h \in {"open", "mount", "udev"} : Hold(d, h) \/ Unhold(d, h)
  <1>1. CASE DoNew \/ DoAcquire \/ DoCloseFd \/ DoClose
    <2>1. At({"new", "open", "mount", "closefd", "close"})
      BY Zenon, <1>1 DEF DoNew, DoAcquire, DoCloseFd, DoClose, In, At
    <2>2. Cur.dev \in Devs
      BY <2>1, AtStep DEF StepOK
    <2>3. DoAcquire => Cur.do \in {"open", "mount"}
      BY DEF DoAcquire, In, At
    <2> QED
      BY Zenon, <1>1, <2>2, <2>3 DEF DoNew, DoAcquire, DoCloseFd, DoClose
  <1>2. CASE UnwindRelease \/ UnwindClose
    <2>1. defers # <<>> /\ defers \in Seq(Releases)
      BY <1>2 DEF UnwindRelease, UnwindClose, ProgTypeOK
    <2>2. Last \in Releases
      BY <2>1 DEF Last
    <2>3. Last.dev \in Devs
      BY <2>2 DEF Releases
    <2> QED
      BY Zenon, <1>2, <2>3 DEF UnwindRelease, UnwindClose
  <1>3. CASE \E d \in Devs : Remove(d) \/ UdevOpens(d) \/ UdevLeaves(d)
    BY Zenon, <1>3 DEF Remove, UdevOpens, UdevLeaves
  <1>4. CASE DoTry \/ DoIssue \/ DoReturned \/ DoCompare \/ DoLoad \/ DoJudge \/ DoReturn
             \/ Hang \/ Leave
    BY Zenon, <1>4 DEF DoTry, DoIssue, DoReturned, DoCompare, DoLoad, DoJudge, DoReturn,
                       Hang, Leave
  <1>5. CASE \E d \in Devs : Serve(d) \/ Fail(d) \/ KRetry(d)
    BY Zenon, <1>5, ServeQuiet
  <1> QED
    BY Zenon, <1>1, <1>2, <1>3, <1>4, <1>5 DEF ProgNext, Forward, Unwind, Device

(* No step of a device moves the program.                                  *)
LEMMA DevicesQuiet ==
    ASSUME NEW d \in Devs, Device(d)
    PROVE  UNCHANGED <<progVars, loopVars>>
  BY Zenon, ServeQuiet DEF Device, Remove, UdevOpens, UdevLeaves

(* The states of the devices; what has been created stays so.              *)
LEMMA DeviceTypes ==
    ASSUME ProgTypeOK, ProgNext
    PROVE  /\ state' \in [Devs -> {"none", "live", "closing", "gone", "left"}]
           /\ holds' \in [Devs -> SUBSET {"open", "mount", "udev"}]
           /\ \A d \in Devs : state[d] # "none" => state'[d] # "none"
  <1>1. CASE UNCHANGED devs
    BY <1>1 DEF devs, ProgTypeOK
  <1>2. CASE \E d \in Devs : Create(d) \/ BeginClose(d) \/ Delete(d) \/ DeleteRefused(d)
    BY Zenon, <1>2 DEF Create, BeginClose, Delete, DeleteRefused, Become, ProgTypeOK
  <1>3. CASE \E d \in Devs, h \in {"open", "mount", "udev"} : Hold(d, h) \/ Unhold(d, h)
    <2>1. PICK d \in Devs, h \in {"open", "mount", "udev"} : Hold(d, h) \/ Unhold(d, h)
      BY <1>3
    <2>2. PICK H \in SUBSET {"open", "mount", "udev"} : holds' = [holds EXCEPT ![d] = H]
      <3>1. holds[d] \in SUBSET {"open", "mount", "udev"}
        BY DEF ProgTypeOK
      <3> QED
        BY Zenon, <2>1, <3>1 DEF Hold, Unhold
    <2>3. UNCHANGED state
      BY <2>1 DEF Hold, Unhold
    <2> QED
      BY <2>2, <2>3 DEF ProgTypeOK
  <1> QED
    BY Zenon, <1>1, <1>2, <1>3, DeviceSteps

(* checkStats misses no more than has failed unseen or is on its way, and  *)
(* only lowRate finds errors swallowed, those the kernel has retried.      *)
LEMMA JudgementFair ==
    ASSUME ProgInv, In({"stats", "judge"})
    PROVE  /\ Judgement \in {"ok", "env", "lost", "swallowed"}
           /\ Judgement = "lost" =>
                 \A op \in Ops : counted[op] <= calls["storage"][op] + unseen
                                    + (IF look["proxy"] = "backend" THEN 1 ELSE 0)
           /\ Judgement = "swallowed" => prog = "lowRate" /\ errs <= unseen
  <1>1. /\ mode = "run" /\ StepOK(prog, pos, Cur) /\ Cur.do \in {"stats", "judge"}
        /\ pos \in Nat /\ saw \in Nat /\ errs \in Nat /\ unseen \in Nat
    BY AtStep DEF In, ProgInv, ProgTypeOK
  <1>2. CASE Cur.do = "stats"
    <2>1. prog = "chain" /\ In({"stats"})
      BY <1>1, <1>2 DEF StepOK, In, At
    <2>2. io["proxy"] = "none"
      BY <1>1, <1>2, <2>1 DEF ProgInv, ChainInv, InLine, In, At
    <2>3. ASSUME NEW op \in Ops
          PROVE  counted[op] <= calls["storage"][op] + unseen
                                  + (IF look["proxy"] = "backend" THEN 1 ELSE 0)
      <3>1. "proxy" \in Devs /\ "storage" \in Devs
        BY ProgramsAssumption
      <3>2. /\ calls["proxy"][op] \in Nat /\ calls["storage"][op] \in Nat
            /\ counted[op] \in Nat
        BY <3>1 DEF ProgInv, ProgTypeOK, Ops
      <3>3. Slack(op) <= (IF look["proxy"] = "backend" THEN 1 ELSE 0) /\ Slack(op) \in Nat
        BY <2>2 DEF Slack, OnWay, ToFail
      <3>4. Forwards(op) /\ counted[op] <= calls["proxy"][op]
        BY Zenon, <1>1, <2>1 DEF ProgInv, ChainInv
      <3> QED
        BY <1>1, <3>2, <3>3, <3>4 DEF Forwards
    <2>4. Judgement \in {"ok", "lost"}
      BY Zenon, <2>1 DEF Judgement
    <2> QED
      BY <2>3, <2>4
  <1>3. CASE Cur.do = "judge"
    <2>1. prog \in FaultProgs /\ prog # "closeWithErrors" /\ pos = 4 /\ prog # "chain"
      BY <1>1, <1>3, FaultNames DEF StepOK
    <2>2. CASE prog = "lowRate"
      <3>1. io["lowRate"] = "none"
        BY <1>1, <2>1, <2>2 DEF ProgInv, CountInv
      <3>2. saw = 0 => errs <= unseen
        BY <1>1, <2>2, <3>1 DEF ProgInv, CountInv
      <3>3. Judgement \in {"ok", "env"} \/ (Judgement = "swallowed" /\ saw = 0)
        BY Zenon, <2>1, <2>2 DEF Judgement
      <3> QED
        BY <2>2, <3>2, <3>3
    <2>3. CASE prog # "lowRate"
      <3>1. saw = Attempts /\ ~(saw < Attempts)
        BY <1>1, <2>1, <2>3, ProgramsAssumption DEF ProgInv, CountInv
      <3>2. Judgement = "ok"
        BY Zenon, <2>1, <2>3, <3>1 DEF Judgement
      <3> QED
        BY <3>2
    <2> QED
      BY <2>2, <2>3
  <1> QED
    BY <1>1, <1>2, <1>3

(* Where a step leads.                                                     *)
Moved ==
    \/ UNCHANGED <<prog, pos, mode, verdict>>
    \/ Advance
    \/ \E v \in {"env", "hung", "lost", "swallowed"} : Return(v)
    \/ Abandoned /\ pos' = 0 /\ UNCHANGED <<prog, mode, verdict>>
    \/ mode' = "unwind" /\ UNCHANGED <<prog, pos, verdict>>
    \/ mode' = "exit" /\ verdict' \in {verdict, "hung"} /\ UNCHANGED <<prog, pos>>
    \/ mode' = "run" /\ verdict = "ok" /\ UNCHANGED verdict /\ pos' = 1 /\ prog' \in FaultProgs

(* Every step of a program moves its place in one of the ways of Moved.    *)
LEMMA Moves ==
    ASSUME ProgInv, ProgNext
    PROVE  Moved
  <1>1. CASE DoNew \/ DoAcquire \/ DoTry \/ DoIssue \/ DoLoad \/ DoCloseFd \/ DoClose \/ DoReturn
    BY Zenon, <1>1 DEF DoNew, DoAcquire, DoTry, DoIssue, DoLoad, DoCloseFd, DoClose, DoReturn,
                       Moved, progVars
  <1>2. CASE DoReturned
    BY Zenon, <1>2 DEF DoReturned, Moved
  <1>3. CASE DoCompare
    <2>1. mode = "run" => got = Cur.val /\ stored = Cur.val
      <3>1. mode = "run" => In({"compare"}) /\ prog = "chain"
        BY <1>3, AtStep DEF DoCompare, In, ProgInv, StepOK
      <3> QED
        BY Zenon, <3>1 DEF ProgInv, ChainInv, DataThrough
    <2>2. mode # "run" => Abandoned
      BY <1>3 DEF DoCompare, At
    <2> QED
      BY Zenon, <1>3, <2>1, <2>2 DEF DoCompare, Return, Moved
  <1>4. CASE DoJudge
    <2>1. Judgement \in {"ok", "env", "lost", "swallowed"}
      BY <1>4, JudgementFair DEF DoJudge
    <2> QED
      BY Zenon, <1>4, <2>1 DEF DoJudge, Moved
  <1>5. CASE UnwindRelease \/ UnwindClose \/ Hang
    BY Zenon, <1>5 DEF UnwindRelease, UnwindClose, Hang, Moved
  <1>6. CASE Leave
    BY <1>6, LeaveStep DEF Moved, ProgInv
  <1>7. CASE \E d \in Devs : Device(d)
    BY Zenon, <1>7, DevicesQuiet DEF Moved, progVars
  <1> QED
    BY Zenon, <1>1, <1>2, <1>3, <1>4, <1>5, <1>6, <1>7 DEF ProgNext, Forward, Unwind

(* The place in the list stays one.                                        *)
LEMMA PlaceTypes ==
    ASSUME ProgTypeOK, Moved
    PROVE  /\ prog' \in Progs /\ pos' \in Nat /\ mode' \in {"run", "unwind", "exit"}
           /\ verdict' \in {"ok", "env", "hung", "lost", "swallowed"}
           /\ mode' = "run" => pos' # 0 /\ verdict' = "ok"
           /\ mode' = "run" /\ prog' = "chain" => mode = "run" /\ prog = "chain"
  BY FaultNames DEF Moved, Advance, Return, Abandoned, ProgTypeOK

(* A backend answers with success or an error; the ones that always fail   *)
(* never with success.                                                     *)
LEMMA AnswerKinds ==
    /\ \A d : Answers(d) \subseteq {"ok", "err"}
    /\ \A d \in FaultProgs \ {"lowRate"} : Answers(d) = {"err"}
    /\ Answers("storage") = {"ok"}
  <1>1. \A d : Answers(d) = {"ok", "err"} \/ Answers(d) = {"err"} \/ Answers(d) = {"ok"}
    BY Zenon DEF Answers
  <1>2. \A d \in FaultProgs \ {"lowRate"} : Answers(d) = {"err"}
    BY Zenon DEF Answers
  <1>3. "storage" # "lowRate" /\ "storage" \notin FaultProgs \ {"lowRate"}
    BY FaultNames
  <1>4. Answers("storage") = {"ok"}
    BY Zenon, <1>3 DEF Answers
  <1> QED
    BY <1>1, <1>2, <1>4

(* The steps that change a request or a counter.                           *)
LEMMA RequestSteps ==
    ASSUME ProgNext
    PROVE  \/ UNCHANGED <<ioVars, saw, rest>>
           \/ DoIssue \/ DoReturned \/ Leave
           \/ \E d \in Devs : Serve(d) \/ Fail(d) \/ KRetry(d) \/ UdevOpens(d)
  <1>1. CASE DoNew \/ DoAcquire \/ DoTry \/ DoCompare \/ DoLoad \/ DoJudge \/ DoCloseFd \/ DoClose
             \/ DoReturn \/ UnwindRelease \/ UnwindClose \/ Hang
    BY Zenon, <1>1 DEF DoNew, DoAcquire, DoTry, DoCompare, DoLoad, DoJudge, DoCloseFd, DoClose,
                       DoReturn, UnwindRelease, UnwindClose, Hang, loopVars
  <1>2. CASE \E d \in Devs : Remove(d) \/ UdevLeaves(d)
    BY Zenon, <1>2 DEF Remove, UdevLeaves, loopVars
  <1> QED
    BY Zenon, <1>1, <1>2 DEF ProgNext, Forward, Unwind, Device

(* checkStats alone reads the counters.                                    *)
LEMMA CountedSteps ==
    ASSUME ProgNext, ~DoLoad
    PROVE  UNCHANGED counted
  <1>1. CASE DoNew \/ DoAcquire \/ DoTry \/ DoIssue \/ DoReturned \/ DoCompare \/ DoJudge
             \/ DoCloseFd \/ DoClose \/ DoReturn
    BY Zenon, <1>1 DEF DoNew, DoAcquire, DoTry, DoIssue, DoReturned, DoCompare, DoJudge,
                       DoCloseFd, DoClose, DoReturn, loopVars
  <1>2. CASE UnwindRelease \/ UnwindClose \/ Leave \/ Hang
    BY Zenon, <1>2 DEF UnwindRelease, UnwindClose, Leave, Hang, loopVars
  <1>3. CASE \E d \in Devs : Device(d)
    BY Zenon, <1>3, DevicesQuiet DEF loopVars
  <1> QED
    BY Zenon, <1>1, <1>2, <1>3 DEF ProgNext, Forward, Unwind

(* A backend has been called once more.                                    *)
LEMMA Bumped ==
    ASSUME NEW c \in [read : Nat, write : Nat], NEW op \in {"read", "write"}
    PROVE  /\ [c EXCEPT ![op] = @ + 1] \in [read : Nat, write : Nat]
           /\ \A o \in {"read", "write"} :
                 [c EXCEPT ![op] = @ + 1][o] = IF o = op THEN c[o] + 1 ELSE c[o]
  <1>1. DOMAIN c = {"read", "write"} /\ c["read"] \in Nat /\ c["write"] \in Nat
    OBVIOUS
  <1>2. \A o \in {"read", "write"} :
           [c EXCEPT ![op] = @ + 1][o] = IF o = op THEN c[o] + 1 ELSE c[o]
    BY <1>1
  <1>3. \A a \in Nat, b \in Nat : [read |-> a, write |-> b] \in [read : Nat, write : Nat]
    OBVIOUS
  <1>4. PICK a \in Nat, b \in Nat : c = [read |-> a, write |-> b]
    OBVIOUS
  <1>5. CASE op = "read"
    <2>1. [c EXCEPT ![op] = @ + 1] = [read |-> a + 1, write |-> b]
      BY <1>4, <1>5
    <2> QED
      BY <1>2, <1>3, <2>1
  <1>6. CASE op = "write"
    <2>1. [c EXCEPT ![op] = @ + 1] = [read |-> a, write |-> b + 1]
      BY <1>4, <1>6
    <2> QED
      BY <1>2, <1>3, <2>1
  <1> QED
    BY <1>5, <1>6

(* A worker takes a request.                                               *)
LEMMA TakenTypes ==
    ASSUME ProgTypeOK, NEW d \in Devs, Take(d) \/ TakeLook(d)
    PROVE  /\ io' \in [Devs -> {"none", "queued", "backend", "ok", "err"}]
           /\ calls' \in [Devs -> [read : Nat, write : Nat]]
           /\ look' \in [Devs -> {"none", "queued", "backend"}]
           /\ UNCHANGED <<looked, unseen, errs>>
  <1> USE DEF ProgTypeOK
  <1>1. io' \in [Devs -> {"none", "queued", "backend", "ok", "err"}]
    <2>1. ToStorage \in {"none", "queued", "backend", "ok", "err"}
      BY DEF ToStorage
    <2>2. CASE Take(d)
      BY <2>1, <2>2 DEF Take
    <2>3. CASE TakeLook(d)
      BY Zenon, <2>1, <2>3 DEF TakeLook
    <2> QED
      BY <2>2, <2>3
  <1>2. look' \in [Devs -> {"none", "queued", "backend"}] /\ UNCHANGED <<looked, unseen, errs>>
    BY Zenon DEF Take, TakeLook, lookVars
  <1>3. PICK op \in {"read", "write"} : calls' \in {calls, [calls EXCEPT ![d][op] = @ + 1]}
    <2>1. Op \in {"read", "write"}
      BY Zenon DEF Op, ProgOp
    <2> QED
      BY Zenon, <2>1 DEF Take, TakeLook
  <1>4. calls' \in [Devs -> [read : Nat, write : Nat]]
    <2>1. calls[d] \in [read : Nat, write : Nat]
      OBVIOUS
    <2>2. [calls[d] EXCEPT ![op] = @ + 1] \in [read : Nat, write : Nat]
      BY <2>1, Bumped
    <2>3. PICK c \in [read : Nat, write : Nat] : calls' \in {calls, [calls EXCEPT ![d] = c]}
      BY Zenon, <1>3, <2>2
    <2> QED
      BY Zenon, <2>3
  <1> QED
    BY <1>1, <1>2, <1>4

(* The requests and the counters.                                          *)
LEMMA RequestTypes ==
    ASSUME ProgInv, ProgNext
    PROVE  /\ io' \in [Devs -> {"none", "queued", "backend", "ok", "err"}]
           /\ calls' \in [Devs -> [read : Nat, write : Nat]]
           /\ look' \in [Devs -> {"none", "queued", "backend"}]
           /\ looked' \in Nat /\ unseen' \in Nat
           /\ errs' \in Nat /\ saw' \in Nat /\ rest' \in Nat
  <1> USE DEF ProgInv, ProgTypeOK
  <1>1. CASE UNCHANGED <<ioVars, saw, rest>>
    BY <1>1 DEF ioVars, lookVars
  <1>2. CASE DoIssue
    <2>1. Cur.dev \in Devs
      BY <1>2, AtStep DEF DoIssue, StepOK
    <2>2. io' = io \/ io' = [io EXCEPT ![Cur.dev] = "queued"]
      BY Zenon, <1>2 DEF DoIssue
    <2>3. UNCHANGED <<calls, errs, look, looked, unseen, saw, rest>>
      BY Zenon, <1>2 DEF DoIssue, lookVars, loopVars
    <2> QED
      BY <2>1, <2>2, <2>3
  <1>3. CASE DoReturned
    <2>1. StepOK(prog, pos, Cur) /\ UNCHANGED <<calls, errs, look, looked, unseen>>
      BY <1>3, AtStep DEF DoReturned, lookVars
    <2>2. io' \in [Devs -> {"none", "queued", "backend", "ok", "err"}]
      BY Zenon, <1>3 DEF DoReturned
    <2>3. CASE Cur.do = "loop"
      <3>1. mode = "run" /\ prog \in FaultProgs /\ pos = 3
        BY <1>3, <2>1, <2>3, FaultNames DEF StepOK, DoReturned, At, Abandoned
      <3>2. rest # 0
        BY <3>1 DEF CountInv
      <3>3. rest' = rest - 1 /\ saw' \in {saw, saw + 1}
        BY Zenon, <1>3, <2>3 DEF DoReturned
      <3> QED
        BY <2>1, <2>2, <3>2, <3>3
    <2>4. CASE Cur.do # "loop"
      BY <1>3, <2>1, <2>2, <2>4 DEF DoReturned, loopVars
    <2> QED
      BY <2>3, <2>4
  <1>4. CASE \E d \in Devs : Take(d) \/ TakeLook(d)
    <2>1. UNCHANGED loopVars
      BY Zenon, <1>4 DEF Take, TakeLook
    <2> QED
      BY <1>4, <2>1, TakenTypes DEF loopVars
  <1>5. CASE \E d \in Devs : Answer(d)
    <2>1. PICK d \in Devs : Answer(d)
      BY <1>5
    <2>2. UNCHANGED <<calls, saw, rest, look, looked, unseen>>
      BY <2>1 DEF Answer, loopVars, lookVars
    <2>3. CASE d = "proxy"
      <3>1. /\ io["storage"] \in {"ok", "err"} /\ errs' = errs
            /\ io' = [io EXCEPT ![d] = io["storage"], !["storage"] = "none"]
        BY Zenon, <2>1, <2>3 DEF Answer, Forwarded
      <3>2. io' \in [Devs -> {"none", "queued", "backend", "ok", "err"}]
        BY <3>1
      <3> QED
        BY <2>2, <3>1, <3>2
    <2>4. CASE d # "proxy"
      <3>1. PICK r \in Answers(d) : io' = [io EXCEPT ![d] = r] /\ errs' \in {errs, errs + 1}
        BY Zenon, <2>1, <2>4 DEF Answer
      <3>2. r \in {"ok", "err"}
        BY AnswerKinds
      <3> QED
        BY <2>2, <3>1, <3>2
    <2> QED
      BY <2>3, <2>4
  <1>6. CASE \E d \in Devs : KFail(d) \/ FailLook(d)
    BY <1>6 DEF KFail, FailLook, lookVars, loopVars
  <1>7. CASE \E d \in Devs : KRetry(d)
    BY <1>7 DEF KRetry, loopVars
  <1>8. CASE \E d \in Devs : AnswerLook(d)
    <2>1. PICK d \in Devs : AnswerLook(d)
      BY <1>8
    <2>2. UNCHANGED <<calls, errs, saw, rest, looked>> /\ look' = [look EXCEPT ![d] = "none"]
      BY <2>1 DEF AnswerLook, loopVars
    <2>3. io' \in {io, [io EXCEPT !["storage"] = "none"]} /\ unseen' \in {unseen, unseen + 1}
      BY Zenon, <2>1 DEF AnswerLook
    <2>4. io' \in [Devs -> {"none", "queued", "backend", "ok", "err"}]
      BY <2>3
    <2>5. look' \in [Devs -> {"none", "queued", "backend"}]
      BY <2>2
    <2>6. unseen' \in Nat
      BY <2>3
    <2> QED
      BY Zenon, <2>2, <2>4, <2>5, <2>6
  <1>9. CASE \E d \in Devs : UdevOpens(d)
    <2>1. PICK d \in Devs : UdevOpens(d)
      BY <1>9
    <2>2. /\ UNCHANGED <<io, calls, unseen, errs, saw, rest>>
          /\ \/ UNCHANGED <<look, looked>>
             \/ looked' = looked + 1 /\ look' = [look EXCEPT ![d] = "queued"]
      BY Zenon, <2>1 DEF UdevOpens, loopVars
    <2>3. looked' \in Nat
      BY <2>2
    <2>4. look' \in [Devs -> {"none", "queued", "backend"}]
      BY <2>2
    <2> QED
      BY Zenon, <2>2, <2>3, <2>4
  <1>10. CASE Leave
    <2>1. UNCHANGED <<io, look, looked>>
      BY <1>10 DEF Leave
    <2>2. /\ calls' = calls \/ calls' = [calls EXCEPT ![prog] = NoCalls]
          /\ errs' \in {errs, 0} /\ saw' \in {saw, 0} /\ rest' \in {rest, Attempts}
          /\ unseen' \in {unseen, 0}
      BY Zenon, <1>10 DEF Leave
    <2>3. calls' \in [Devs -> [read : Nat, write : Nat]]
      <3>1. NoCalls \in [read : Nat, write : Nat]
        BY DEF NoCalls
      <3> QED
        BY <2>2, <3>1
    <2>4. errs' \in Nat /\ saw' \in Nat /\ rest' \in Nat /\ unseen' \in Nat
      BY <2>2, ProgramsAssumption
    <2> QED
      BY Zenon, <2>1, <2>3, <2>4
  <1> QED
    BY Zenon, <1>1, <1>2, <1>3, <1>4, <1>5, <1>6, <1>7, <1>8, <1>9, <1>10, RequestSteps
       DEF Serve, Fail

(* What checkStats has read.                                               *)
LEMMA CountedTypes ==
    ASSUME ProgTypeOK, ProgNext
    PROVE  counted' \in [read : Nat, write : Nat]
  <1>1. CASE DoLoad
    BY <1>1, ProgramsAssumption DEF DoLoad, ProgTypeOK
  <1>2. CASE ~DoLoad
    BY <1>2, CountedSteps DEF ProgTypeOK
  <1> QED
    BY <1>1, <1>2

(* ProgTypeOK is kept.                                                     *)
LEMMA ProgTypeStep ==
    ASSUME ProgInv, ProgNext
    PROVE  ProgTypeOK'
  <1>1. ProgTypeOK /\ ReleaseInv
    BY DEF ProgInv
  <1>2. Moved
    BY Zenon, Moves
  <1>3. /\ prog' \in Progs /\ pos' \in Nat /\ mode' \in {"run", "unwind", "exit"}
        /\ verdict' \in {"ok", "env", "hung", "lost", "swallowed"}
        /\ mode' = "run" => pos' # 0 /\ verdict' = "ok"
    BY Zenon, <1>1, <1>2, PlaceTypes
  <1>4. /\ state' \in [Devs -> {"none", "live", "closing", "gone", "left"}]
        /\ holds' \in [Devs -> SUBSET {"open", "mount", "udev"}]
        /\ defers' \in Seq(Releases) /\ counted' \in [read : Nat, write : Nat]
    BY Zenon, <1>1, DeviceTypes, ReleaseStep, CountedTypes
  <1> QED
    BY Zenon, <1>3, <1>4, RequestTypes DEF ProgTypeOK

-----------------------------------------------------------------------------
(***************************************************************************)
(* The scenarios of fault.                                                 *)
(***************************************************************************)

(* Only Leave changes the program, and it is the only way back to run.     *)
LEMMA SameProgram ==
    ASSUME ProgInv, ProgNext, ~Leave
    PROVE  prog' = prog /\ (mode' = "run" => mode = "run" /\ pos' \in {pos, pos + 1})
  <1>1. CASE DoNew \/ DoAcquire \/ DoTry \/ DoIssue \/ DoReturned \/ DoCompare \/ DoLoad \/ DoJudge
             \/ DoCloseFd \/ DoClose \/ DoReturn
    BY Zenon, <1>1 DEF DoNew, DoAcquire, DoTry, DoIssue, DoReturned, DoCompare, DoLoad, DoJudge,
                  At, In, DoCloseFd, DoClose, DoReturn, Advance, Return, Abandoned, progVars
  <1>2. CASE UnwindRelease \/ UnwindClose \/ Hang
    <2>1. "unwind" # "run" /\ "exit" # "run"
      OBVIOUS
    <2> QED
      BY Zenon, <1>2, <2>1 DEF UnwindRelease, UnwindClose, Hang, In, Return, Abandoned
  <1>3. CASE \E d \in Devs : Device(d)
    BY Zenon, <1>3, DevicesQuiet DEF progVars
  <1> QED
    BY Zenon, <1>1, <1>2, <1>3 DEF ProgNext, Forward, Unwind

(* Where a program goes on without a request having returned.              *)
LEMMA Advances ==
    ASSUME ProgInv, ProgNext, ~Leave, ~DoReturned, mode = "run", pos' = pos + 1
    PROVE  /\ ~Abandoned
           /\ DoNew \/ DoAcquire \/ DoTry \/ DoCompare \/ DoLoad \/ DoJudge \/ DoCloseFd \/ DoClose
           /\ At({"new", "open", "mount", "try", "go", "compare", "load", "stats", "judge",
                  "closefd", "close"})
  <1>0. pos \in Nat
    BY DEF ProgInv, ProgTypeOK
  <1>1. ~(UNCHANGED pos) /\ ~Abandoned
    BY <1>0 DEF Abandoned
  <1>2. DoNew \/ DoAcquire \/ DoTry \/ DoCompare \/ DoLoad \/ DoJudge \/ DoCloseFd \/ DoClose
    <2>1. ~(UnwindRelease \/ UnwindClose \/ Hang \/ DoReturn \/ DoIssue)
      BY Zenon, <1>1 DEF UnwindRelease, UnwindClose, Hang, DoReturn, Return, DoIssue, progVars
    <2>2. ~\E d \in Devs : Device(d)
      BY Zenon, <1>1, DevicesQuiet DEF progVars
    <2> QED
      BY Zenon, <2>1, <2>2 DEF ProgNext, Forward, Unwind
  <1>3. At({"new", "open", "mount", "try", "go", "compare", "load", "stats", "judge",
            "closefd", "close"})
    BY Zenon, <1>2 DEF DoNew, DoAcquire, DoTry, DoCompare, DoLoad, DoJudge, DoCloseFd,
                       DoClose, In, At
  <1> QED
    BY <1>1, <1>2, <1>3

(* A scenario goes on from its loop when a request has returned, and from  *)
(* its first step when its device is new.                                  *)
LEMMA ScenarioAdvances ==
    ASSUME ProgInv, ProgNext, ~Leave, ~DoReturned, mode = "run", prog \in FaultProgs,
           pos' = pos + 1
    PROVE  pos # 3 /\ (pos = 1 => state[prog] = "none")
  <1>1. /\ StepOK(prog, pos, Cur)
        /\ Cur.do \in {"new", "open", "mount", "try", "go", "compare", "load", "stats", "judge",
                       "closefd", "close"}
    BY Zenon, Advances, AtStep DEF ProgInv
  <1>2. pos # 3 /\ (pos = 1 => Cur.do = "new" /\ Cur.dev = prog)
    BY <1>1 DEF StepOK
  <1>3. ASSUME pos = 1 PROVE state[prog] = "none"
    <2>1. DoNew
      <3>1. Cur.do \notin {"open", "mount", "try", "go", "compare", "load", "stats", "judge",
                          "closefd", "close"}
        BY <1>2, <1>3
      <3> QED
        BY Zenon, <3>1, Advances
           DEF DoAcquire, DoTry, DoCompare, DoLoad, DoJudge, DoCloseFd, DoClose, In, At
    <2>2. ~(UNCHANGED pos) /\ ~Abandoned
      BY <1>3, Advances
    <2> QED
      BY Zenon, <1>2, <1>3, <2>1, <2>2 DEF DoNew, Return, Create
  <1> QED
    BY <1>2, <1>3

(* A step that makes no request and answers none.                          *)
LEMMA CountIdle ==
    ASSUME ProgInv, ProgNext, ~Leave, ~DoReturned,
           UNCHANGED <<io, errs, saw, rest, unseen>>
    PROVE  CountInv'
  <1>1. /\ pos \in Nat /\ saw \in Nat /\ rest \in Nat /\ errs \in Nat /\ unseen \in Nat
        /\ mode = "run" => pos # 0
        /\ FaultProgs \subseteq Devs
    BY ProgramsAssumption DEF ProgInv, ProgTypeOK
  <1>2. prog' = prog /\ (mode' = "run" => mode = "run" /\ pos' \in {pos, pos + 1})
    BY SameProgram
  <1>3. mode' = "run" /\ prog \in FaultProgs /\ pos' # pos =>
           pos # 3 /\ (pos = 1 => state[prog] = "none")
    BY <1>2, ScenarioAdvances
  <1>4. \A d \in Devs : state[d] # "none" => state'[d] # "none"
    BY DeviceTypes DEF ProgInv
  <1> QED
    BY <1>1, <1>2, <1>3, <1>4 DEF ProgInv, CountInv

(* A scenario makes a request.                                             *)
LEMMA CountIssue ==
    ASSUME ProgInv, DoIssue
    PROVE  CountInv'
  <1>1. StepOK(prog, pos, Cur) /\ Cur.do \in {"write", "read", "loop"}
    BY AtStep DEF DoIssue, ProgInv
  <1>2. io[Cur.dev] = "none" /\ UNCHANGED <<prog, state, holds, errs, saw, rest, unseen>>
    BY Zenon DEF DoIssue, devs, loopVars, lookVars, progVars, Return
  <1>3. /\ io \in [Devs -> {"none", "queued", "backend", "ok", "err"}]
        /\ FaultProgs \subseteq Devs
    BY ProgramsAssumption DEF ProgInv, ProgTypeOK
  <1>4. /\ prog \in FaultProgs => pos = 3 /\ Cur.dev = prog
        /\ prog \notin FaultProgs => Cur.dev = "proxy"
        /\ "proxy" \notin FaultProgs /\ "lowRate" \in FaultProgs
        /\ Cur.dev \in Devs
    BY <1>1, FaultNames DEF StepOK
  <1>5. CASE "open" \in holds[Cur.dev]
    <2>1. io' = [io EXCEPT ![Cur.dev] = "queued"] /\ UNCHANGED <<pos, mode>>
      BY Zenon, <1>5 DEF DoIssue, progVars
    <2>2. state[Cur.dev] # "none"
      BY <1>4, <1>5 DEF ProgInv, ReleaseInv, ClosedInOrder
    <2>3. \A d \in Devs : io'[d] = IF d = Cur.dev THEN "queued" ELSE io[d]
      BY <1>3, <2>1
    <2> HIDE DEF Cur
    <2> QED
      BY <1>2, <1>3, <1>4, <2>1, <2>2, <2>3 DEF ProgInv, CountInv
  <1>6. CASE "open" \notin holds[Cur.dev]
    <2>1. Return("env") /\ UNCHANGED io
      BY Zenon, <1>6 DEF DoIssue
    <2>2. mode' # "run"
      BY <2>1 DEF Return, Abandoned
    <2> QED
      BY <1>2, <2>1, <2>2 DEF ProgInv, CountInv
  <1> QED
    BY <1>5, <1>6

(* A request of a scenario returns, and its error is counted.              *)
LEMMA CountReturned ==
    ASSUME ProgInv, DoReturned
    PROVE  CountInv'
  <1>1. StepOK(prog, pos, Cur) /\ Cur.do \in {"write", "read", "loop"}
    BY AtStep DEF DoReturned, ProgInv
  <1>2. /\ io[Cur.dev] \in {"ok", "err"} /\ UNCHANGED <<prog, state, holds, errs, unseen>>
        /\ io' = [io EXCEPT ![Cur.dev] = "none"]
    BY Zenon DEF DoReturned, devs, lookVars, Return, Advance
  <1>3. /\ io \in [Devs -> {"none", "queued", "backend", "ok", "err"}]
        /\ FaultProgs \subseteq Devs
        /\ pos \in Nat /\ saw \in Nat /\ rest \in Nat /\ errs \in Nat /\ Attempts \in Nat
        /\ unseen \in Nat
    BY ProgramsAssumption DEF ProgInv, ProgTypeOK
  <1>4. /\ prog \in FaultProgs => pos = 3 /\ Cur.dev = prog /\ Cur.do = "loop"
        /\ prog \notin FaultProgs => Cur.dev = "proxy"
        /\ "proxy" \notin FaultProgs /\ "lowRate" \in FaultProgs
        /\ Cur.dev \in Devs
    BY <1>1, FaultNames DEF StepOK
  <1>5. \A d \in Devs : io'[d] = IF d = Cur.dev THEN "none" ELSE io[d]
    BY <1>2, <1>3
  <1>6. CASE prog \notin FaultProgs
    BY <1>2, <1>3, <1>4, <1>5, <1>6 DEF ProgInv, CountInv
  <1>7. CASE prog \in FaultProgs
    <2>1. /\ saw' = IF io[Cur.dev] = "err" THEN saw + 1 ELSE saw
          /\ rest' = rest - 1
          /\ mode' = mode /\ pos' = IF rest = 1 THEN pos + 1 ELSE pos
      BY <1>4, <1>7 DEF DoReturned, Advance
    <2> HIDE DEF Cur
    <2> QED
      BY <1>2, <1>3, <1>4, <1>5, <1>7, <2>1 DEF ProgInv, CountInv
  <1> QED
    BY <1>6, <1>7

(* The worker takes a request, or the kernel fails it or tries it again.   *)
LEMMA CountTaken ==
    ASSUME ProgInv, NEW d \in Devs, Take(d) \/ KFail(d) \/ KRetry(d)
    PROVE  CountInv'
  <1>1. /\ UNCHANGED <<prog, pos, mode, state, errs, saw, rest>> /\ io[d] \in {"queued", "err"}
        /\ unseen' = IF io[d] = "err" THEN unseen + 1 ELSE unseen
    <2>1. CASE Take(d) \/ KFail(d)
      BY <2>1 DEF Take, KFail, progVars, devs, loopVars, lookVars
    <2>2. CASE KRetry(d)
      BY <2>2 DEF KRetry, progVars, devs, loopVars
    <2> QED
      BY <2>1, <2>2
  <1>2. /\ io \in [Devs -> {"none", "queued", "backend", "ok", "err"}]
        /\ FaultProgs \subseteq Devs /\ "lowRate" \in FaultProgs /\ "storage" \notin FaultProgs
        /\ errs \in Nat /\ saw \in Nat /\ unseen \in Nat
    BY ProgramsAssumption, FaultNames DEF ProgInv, ProgTypeOK
  <1>3. \A e \in Devs \ {"storage"} :
           IF e = d THEN io'[e] \in {"backend", "err", "queued"} ELSE io'[e] = io[e]
    <2>1. CASE Take(d) \/ KFail(d)
      BY <1>2, <2>1 DEF Take, KFail
    <2>2. CASE KRetry(d)
      BY <1>2, <2>2 DEF KRetry
    <2> QED
      BY <2>1, <2>2
  <1> QED
    BY <1>1, <1>2, <1>3 DEF ProgInv, CountInv

(* Reads of udev's are not those of a scenario.                            *)
LEMMA CountLook ==
    ASSUME ProgInv, NEW d \in Devs, TakeLook(d) \/ AnswerLook(d) \/ FailLook(d) \/ UdevOpens(d)
    PROVE  CountInv'
  <1>1. UNCHANGED <<prog, pos, mode, errs, saw, rest>>
    BY Zenon DEF TakeLook, AnswerLook, FailLook, UdevOpens, progVars, loopVars
  <1>2. /\ io \in [Devs -> {"none", "queued", "backend", "ok", "err"}]
        /\ FaultProgs \subseteq Devs /\ "lowRate" \in FaultProgs /\ "storage" \notin FaultProgs
        /\ errs \in Nat /\ saw \in Nat /\ unseen \in Nat
    BY ProgramsAssumption, FaultNames DEF ProgInv, ProgTypeOK
  <1>3. \A e \in FaultProgs : io'[e] = io[e]
    <2>1. PICK x : io' = io \/ io' = [io EXCEPT !["storage"] = x]
      BY Zenon DEF TakeLook, AnswerLook, FailLook, UdevOpens
    <2> QED
      BY <1>2, <2>1
  <1>4. unseen' = unseen \/ unseen' = unseen + 1
    BY Zenon DEF TakeLook, AnswerLook, FailLook, UdevOpens
  <1>5. UNCHANGED state
    BY Zenon DEF TakeLook, AnswerLook, FailLook, UdevOpens, Hold, devs
  <1> QED
    BY <1>1, <1>2, <1>3, <1>4, <1>5 DEF ProgInv, CountInv

(* A backend answers.                                                      *)
LEMMA CountAnswer ==
    ASSUME ProgInv, NEW d \in Devs, Answer(d)
    PROVE  CountInv'
  <1>1. UNCHANGED <<prog, pos, mode, state, saw, rest, unseen>> /\ io[d] = "backend"
    BY Zenon DEF Answer, progVars, devs, loopVars, lookVars
  <1>2. /\ io \in [Devs -> {"none", "queued", "backend", "ok", "err"}]
        /\ FaultProgs \subseteq Devs /\ "lowRate" \in FaultProgs
        /\ "storage" \notin FaultProgs /\ "proxy" \notin FaultProgs
        /\ errs \in Nat /\ saw \in Nat /\ unseen \in Nat
    BY ProgramsAssumption, FaultNames DEF ProgInv, ProgTypeOK
  <1>3. CASE d = "proxy"
    <2>1. UNCHANGED errs /\ \A e \in FaultProgs : io'[e] = io[e]
      BY <1>2, <1>3 DEF Answer
    <2> QED
      BY <1>1, <1>2, <2>1 DEF ProgInv, CountInv
  <1>4. CASE d # "proxy"
    <2>1. PICK r \in Answers(d) :
             /\ io' = [io EXCEPT ![d] = r]
             /\ errs' = IF d = "lowRate" /\ r = "err" THEN errs + 1 ELSE errs
      BY Zenon, <1>4 DEF Answer
    <2>2. r \in {"ok", "err"} /\ (d \in FaultProgs \ {"lowRate"} => r = "err")
      BY Zenon, AnswerKinds
    <2>3. \A e \in Devs : io'[e] = IF e = d THEN r ELSE io[e]
      BY <1>2, <2>1
    <2> QED
      BY <1>1, <1>2, <2>1, <2>2, <2>3 DEF ProgInv, CountInv
  <1> QED
    BY <1>3, <1>4

(* CountInv is kept.                                                       *)
LEMMA CountStep ==
    ASSUME ProgInv, ProgNext
    PROVE  CountInv'
  <1>1. CASE Leave
    <2>1. UNCHANGED <<io, state>>
      BY Zenon, <1>1 DEF Leave, devs
    <2> QED
      BY <1>1, <2>1, LeaveStep, ProgramsAssumption DEF ProgInv, ProgTypeOK, CountInv
  <1>2. CASE UNCHANGED <<ioVars, saw, rest>> /\ ~Leave /\ ~DoReturned
    BY <1>2, CountIdle DEF ioVars, lookVars
  <1> QED
    BY Zenon, <1>1, <1>2, RequestSteps, CountIssue, CountReturned, CountTaken, CountAnswer,
       CountLook DEF Serve, Fail

-----------------------------------------------------------------------------
(***************************************************************************)
(* chain.                                                                  *)
(***************************************************************************)

(* A read follows the write of its pattern, a comparison the read, and the *)
(* verdict on the counters the reading of the proxy's.                     *)
LEMMA ChainBefore ==
    ASSUME NEW i \in DOMAIN runChain, i + 1 \in DOMAIN runChain
    PROVE  /\ runChain[i + 1].do = "read" =>
                 runChain[i].do = "write" /\ runChain[i + 1].val = runChain[i].val
           /\ runChain[i + 1].do = "compare" =>
                 runChain[i].do = "read" /\ runChain[i + 1].val = runChain[i].val
           /\ runChain[i + 1].do = "stats" => runChain[i].do = "load"
  <1> DEFINE N == 3 * Roundtrips
             j == i - 3
  <1>1. N \in Nat /\ i \in 1 .. N + 5 /\ N + 5 \in 1 .. N + 6
    BY ChainSteps, ProgramsAssumption
  <1>0. ASSUME runChain[i + 1].do = "stats" PROVE runChain[i].do = "load"
    <2>1. i + 1 \notin {1, 2, 3, 4, N + 5}
      BY <1>0, ChainSteps DEF S, D
    <2>2. i + 1 \notin 5 .. N + 4
      <3> SUFFICES ASSUME i + 1 \in 5 .. N + 4 PROVE FALSE
        OBVIOUS
      <3>1. runChain[i + 1] = roundtrip[j] /\ j \in 1 .. N
        BY <1>1, ChainSteps
      <3>2. roundtrip[j].do \in {"write", "read", "compare"}
        <4>1. j % 3 \in {0, 1, 2}
          BY <3>1
        <4> QED
          BY <3>1, <4>1, RoundtripSteps
      <3> QED
        BY <1>0, <3>1, <3>2
    <2>3. i = N + 5
      BY <1>1, <2>1, <2>2
    <2> QED
      BY <2>3, ChainSteps DEF S
  <1> SUFFICES ASSUME runChain[i + 1].do \in {"read", "compare"}
               PROVE  /\ runChain[i + 1].val = runChain[i].val
                      /\ runChain[i + 1].do = "read" => runChain[i].do = "write"
                      /\ runChain[i + 1].do = "compare" => runChain[i].do = "read"
    BY Zenon, <1>0
  <1>2. i + 1 \in 5 .. N + 4
    <2>1. \A k \in {1, 2, 3, 4, N + 5, N + 6} : runChain[k].do \in {"new", "open", "load", "stats"}
      BY ChainSteps DEF S, D
    <2> QED
      BY <1>1, <2>1
  <1>3. runChain[i + 1] = roundtrip[j] /\ j \in 1 .. N
    <2>1. \A k \in 5 .. N + 4 : runChain[k] = roundtrip[k - 4]
      BY Zenon, ChainSteps
    <2> QED
      BY <1>1, <1>2, <2>1
  <1>4. j % 3 # 1 /\ j \in Nat
    BY SMTT(30), <1>3, RoundtripSteps
  <1>5. /\ j - 1 \in 1 .. N /\ (j - 1 + 2) \div 3 = (j + 2) \div 3
        /\ j % 3 = 0 \/ j % 3 = 2
        /\ (j % 3 = 2 => (j - 1) % 3 = 1) /\ (j % 3 = 0 => (j - 1) % 3 = 2)
    <2> HIDE DEF j
    <2>1. j \in Nat \ {0} /\ (j % 3 = 0 \/ j % 3 = 2)
      BY <1>1, <1>3, <1>4
    <2>2. j - 1 + 2 = j + 1 /\ j # 1
      BY <1>4, <2>1
    <2>3. (j + 1) \div 3 = (j + 2) \div 3
      BY <2>1
    <2>4. (j % 3 = 2 => (j - 1) % 3 = 1) /\ (j % 3 = 0 => (j - 1) % 3 = 2)
      <3>1. \A k \in Nat : k % 3 = 2 => (k - 1) % 3 = 1
        OBVIOUS
      <3>2. \A k \in Nat \ {0} : k % 3 = 0 => (k - 1) % 3 = 2
        OBVIOUS
      <3> QED
        BY <2>1, <3>1, <3>2
    <2>5. j - 1 \in 1 .. N
      BY <1>1, <1>3, <2>1, <2>2
    <2> QED
      BY Zenon, <2>1, <2>2, <2>3, <2>4, <2>5
  <1>6. runChain[i] = roundtrip[j - 1]
    <2>1. i \in 5 .. N + 4 /\ i - 4 = j - 1
      BY <1>1, <1>5
    <2> QED
      BY <2>1, ChainSteps
  <1> HIDE DEF N, j
  <1> QED
    <2>1. /\ roundtrip[j].val = (j + 2) \div 3 /\ roundtrip[j - 1].val = (j - 1 + 2) \div 3
          /\ j % 3 = 2 => roundtrip[j].do = "read" /\ roundtrip[j - 1].do = "write"
          /\ j % 3 = 0 => roundtrip[j].do = "compare" /\ roundtrip[j - 1].do = "read"
      BY ZenonT(30), <1>3, <1>5, RoundtripSteps DEF N
    <2>2. "read" # "compare"
      BY Zenon
    <2> QED
      BY Zenon, <1>3, <1>5, <1>6, <2>1, <2>2

(* The program is where it was.                                            *)
LEMMA SamePlace ==
    ASSUME UNCHANGED <<prog, pos, mode, verdict>>
    PROVE  /\ Cur' = Cur /\ ProgOp' = ProgOp
           /\ \A dos : In(dos)' <=> In(dos)
  BY Zenon DEF Cur, ProgOp, In, At, Abandoned

(* What the invariant says while chain runs.                               *)
LEMMA ChainFacts ==
    ASSUME ProgInv, mode = "run", prog = "chain"
    PROVE  /\ {"storage", "proxy"} \subseteq Devs /\ pos # 0 /\ ProgOp \in Ops
           /\ io \in [Devs -> {"none", "queued", "backend", "ok", "err"}]
           /\ look \in [Devs -> {"none", "queued", "backend"}]
           /\ calls \in [Devs -> [read : Nat, write : Nat]]
           /\ \A e \in {"storage", "proxy"}, op \in Ops : calls[e][op] \in Nat
           /\ unseen \in Nat /\ (\A op \in Ops : Slack(op) \in Nat)
           /\ InLine /\ DataThrough /\ (\A op \in Ops : Forwards(op))
           /\ In({"stats"}) => \A op \in Ops : counted[op] <= calls["proxy"][op]
  <1>1. /\ {"storage", "proxy"} \subseteq Devs /\ pos # 0 /\ unseen \in Nat
        /\ io \in [Devs -> {"none", "queued", "backend", "ok", "err"}]
        /\ look \in [Devs -> {"none", "queued", "backend"}]
        /\ calls \in [Devs -> [read : Nat, write : Nat]]
    BY ProgramsAssumption DEF ProgInv, ProgTypeOK
  <1>2. \A e \in {"storage", "proxy"}, op \in Ops : calls[e][op] \in Nat
    BY <1>1 DEF Ops
  <1>3. \A op \in Ops : Slack(op) \in Nat
    BY DEF Slack, OnWay, ToFail
  <1>4. ProgOp \in Ops
    BY Zenon DEF ProgOp, Ops
  <1> QED
    BY Zenon, <1>1, <1>2, <1>3, <1>4 DEF ProgInv, ChainInv

(* Enough that a step which does not move chain keeps its invariant.       *)
LEMMA ChainKept ==
    ASSUME ProgInv, mode = "run", prog = "chain",
           UNCHANGED <<prog, pos, mode, verdict, counted, stored, got>>,
           InLine', Done' => Done, \A op \in Ops : Forwards(op)',
           In({"stats"}) => \A op \in Ops : calls["proxy"][op] \in Nat /\ calls'["proxy"][op] \in Nat
                                            /\ calls["proxy"][op] <= calls'["proxy"][op]
    PROVE  ChainInv'
  <1>1. /\ Cur' = Cur
        /\ \A dos : In(dos)' <=> In(dos)
    BY SamePlace
  <1>2. DataThrough'
    BY Zenon, <1>1, ChainFacts DEF DataThrough
  <1>3. ASSUME In({"stats"}), NEW op \in Ops
        PROVE  counted'[op] <= calls'["proxy"][op]
    <2>1. counted[op] \in Nat
      BY DEF ProgInv, ProgTypeOK, Ops
    <2>2. counted[op] <= calls["proxy"][op]
      BY Zenon, <1>3, ChainFacts
    <2> QED
      BY <1>3, <2>1, <2>2
  <1> QED
    BY Zenon, <1>1, <1>2, <1>3 DEF ChainInv

(* A step that touches neither the requests of chain nor its counters, but *)
(* perhaps udev's reads.                                                   *)
LEMMA ChainQuiet ==
    ASSUME ProgInv, mode = "run", prog = "chain",
           UNCHANGED <<prog, pos, mode, verdict, counted, stored, got>>,
           io'["proxy"] = io["proxy"], calls'["proxy"] = calls["proxy"],
           look'["proxy"] = "backend" <=> look["proxy"] = "backend",
           io'["storage"] = "none" <=> io["storage"] = "none",
           io'["storage"] = "ok" <=> io["storage"] = "ok",
           io'["storage"] \in {"queued", "err"} <=> io["storage"] \in {"queued", "err"},
           \A op \in Ops : calls'["storage"][op] \in Nat
                           /\ calls["storage"][op] <= calls'["storage"][op],
           unseen' \in Nat, unseen <= unseen'
    PROVE  ChainInv'
  <1>1. /\ ProgOp' = ProgOp
        /\ \A dos : In(dos)' <=> In(dos)
    BY SamePlace
  <1>2. (Done' <=> Done) /\ \A op \in Ops : Slack(op)' = Slack(op)
    BY Zenon, <1>1 DEF Done, Slack, OnWay, ToFail
  <1>3. InLine'
    <2>1. InLine
      BY ChainFacts
    <2> QED
      BY <1>1, <2>1 DEF InLine
  <1>4. ASSUME NEW op \in Ops PROVE Forwards(op)'
    <2>1. /\ calls["proxy"][op] \in Nat /\ calls["storage"][op] \in Nat /\ unseen \in Nat
          /\ Slack(op) \in Nat /\ Forwards(op)
      BY Zenon, ChainFacts
    <2>2. Slack(op)' = Slack(op) /\ calls'["proxy"][op] = calls["proxy"][op]
      BY <1>2
    <2> HIDE DEF Slack
    <2> QED
      BY <2>1, <2>2 DEF Forwards
  <1>5. \A op \in Ops : calls["proxy"][op] \in Nat /\ calls["proxy"][op] <= calls["proxy"][op]
    BY ChainFacts
  <1> QED
    BY Zenon, <1>2, <1>3, <1>4, <1>5, ChainKept

(* chain goes on to its next step: no call of its own is under way, and it *)
(* has what that step needs.                                               *)
LEMMA ChainGoesOn ==
    ASSUME ProgInv, mode = "run", prog = "chain", pos \in DOMAIN runChain,
           pos' = pos + 1, UNCHANGED <<prog, mode, calls, stored, got, look, unseen>>,
           io'["storage"] = io["storage"], io'["proxy"] = "none", io["proxy"] \in {"none", "ok"},
           Cur.do = "write" => stored = Cur.val,
           Cur.do = "read" => stored = Cur.val /\ got = Cur.val,
           Cur.do = "load" => counted' = calls["proxy"]
    PROVE  ChainInv'
  <1>1. Steps("chain") = runChain
    BY Lists
  <1>2. Cur = runChain[pos] /\ Cur' = runChain[pos + 1]
    BY Zenon, <1>1 DEF Cur
  <1>3. \A dos : In(dos)' => pos + 1 \in DOMAIN runChain /\ Cur'.do \in dos
    BY Zenon, <1>1 DEF In, At
  <1>4. In({"read"})' => Cur.do = "write" /\ Cur'.val = Cur.val
    BY <1>2, <1>3, ChainBefore
  <1>5. In({"compare"})' => Cur.do = "read" /\ Cur'.val = Cur.val
    BY <1>2, <1>3, ChainBefore
  <1>6. In({"stats"})' => Cur.do = "load"
    BY <1>2, <1>3, ChainBefore
  <1>7. ~Done' /\ \A op \in Ops : Slack(op)' = Slack(op)
    BY DEF Done, Slack, OnWay, ToFail
  <1>8. InLine'
    <2>1. InLine
      BY ChainFacts
    <2> QED
      BY <2>1 DEF InLine
  <1>9. DataThrough'
    BY Zenon, <1>4, <1>5, <1>7 DEF DataThrough
  <1>10. ASSUME NEW op \in Ops PROVE Forwards(op)'
    BY Zenon, <1>7, ChainFacts DEF Forwards
  <1>11. ASSUME In({"stats"})', NEW op \in Ops PROVE counted'[op] <= calls'["proxy"][op]
    <2>1. calls["proxy"][op] \in Nat /\ counted' = calls["proxy"]
      BY Zenon, <1>6, <1>11, ChainFacts
    <2> QED
      BY <2>1
  <1> QED
    BY Zenon, <1>8, <1>9, <1>10, <1>11 DEF ChainInv

(* chain does something else than a request.                               *)
LEMMA ChainIdle ==
    ASSUME ProgInv, ProgNext, ~Leave, ~DoReturned, mode' = "run", prog' = "chain",
           UNCHANGED ioVars
    PROVE  ChainInv'
  <1>1. mode = "run" /\ prog = "chain" /\ pos \in Nat /\ pos' \in {pos, pos + 1}
    BY SameProgram DEF ProgInv, ProgTypeOK
  <1>2. verdict' = "ok" /\ verdict = "ok"
    BY <1>1, ProgTypeStep DEF ProgInv, ProgTypeOK
  <1>3. UNCHANGED <<io, calls, stored, got, look, unseen>>
    BY Zenon DEF ioVars, lookVars
  <1>4. CASE pos' = pos
    <2>1. UNCHANGED counted
      <3>1. ~DoLoad
        BY <1>1, <1>4 DEF DoLoad, Advance
      <3> QED
        BY <3>1, CountedSteps
    <2>2. /\ unseen \in Nat /\ unseen <= unseen
          /\ \A op \in Ops : calls["storage"][op] \in Nat
                             /\ calls["storage"][op] <= calls["storage"][op]
      BY <1>1, ChainFacts
    <2> QED
      BY Zenon, <1>1, <1>2, <1>3, <1>4, <2>1, <2>2, ChainQuiet
  <1>5. CASE pos' = pos + 1
    <2>1. /\ DoNew \/ DoAcquire \/ DoTry \/ DoCompare \/ DoLoad \/ DoJudge \/ DoCloseFd \/ DoClose
          /\ At({"new", "open", "mount", "try", "go", "compare", "load", "stats", "judge",
                 "closefd", "close"})
      BY Zenon, <1>1, <1>5, Advances
    <2>2. pos \in DOMAIN runChain /\ Cur.do # "write" /\ Cur.do # "read"
      BY <1>1, <2>1, Lists DEF At
    <2>3. io["proxy"] = "none"
      <3>1. ~In({"write", "read"})
        BY Zenon, <2>2 DEF In, At
      <3> QED
        BY Zenon, <1>1, <3>1, ChainFacts DEF InLine
    <2>4. Cur.do = "load" => counted' = calls["proxy"]
      <3>1. SUFFICES ASSUME Cur.do = "load" PROVE DoLoad
        BY Zenon DEF DoLoad
      <3>2. Cur.do \notin {"new", "open", "mount", "try", "go", "compare", "stats", "judge",
                           "closefd", "close"}
        BY <3>1
      <3> QED
        BY Zenon, <2>1, <3>2 DEF DoNew, DoAcquire, DoTry, DoCompare, DoJudge, DoCloseFd, DoClose,
                                 In, At
    <2> QED
      BY <1>1, <1>3, <1>5, <2>2, <2>3, <2>4, ChainGoesOn
  <1> QED
    BY <1>1, <1>4, <1>5

(* roundtrip calls Pwrite or Pread.                                        *)
LEMMA ChainIssue ==
    ASSUME ProgInv, DoIssue, mode' = "run", prog' = "chain"
    PROVE  ChainInv'
  <1>1. "open" \in holds[Cur.dev]
    <2>1. SUFFICES ASSUME Return("env") PROVE FALSE
      BY Zenon DEF DoIssue
    <2> QED
      BY <2>1 DEF Return, Abandoned
  <1>2. /\ io' = [io EXCEPT ![Cur.dev] = "queued"] /\ io[Cur.dev] = "none"
        /\ UNCHANGED <<prog, pos, mode, verdict, calls, stored, got, look, unseen, counted>>
    BY Zenon, <1>1 DEF DoIssue, progVars, lookVars, loopVars
  <1>3. Cur.dev = "proxy" /\ Cur.do \in {"write", "read"}
    <2>1. StepOK(prog, pos, Cur) /\ Cur.do \in {"write", "read", "loop"}
      BY AtStep DEF DoIssue, ProgInv
    <2> QED
      BY Zenon, <1>2, <2>1, FaultNames DEF StepOK
  <1>4. In({"write", "read"})
    BY <1>2, <1>3 DEF In, DoIssue, At
  <1>5. /\ ProgOp' = ProgOp
        /\ \A dos : In(dos)' <=> In(dos)
    BY <1>2, SamePlace
  <1>6. io'["storage"] = io["storage"] /\ io'["proxy"] = "queued" /\ io["proxy"] = "none"
    BY <1>2, <1>3, ChainFacts
  <1>7. ~Done' /\ \A op \in Ops : Slack(op)' = Slack(op)
    BY <1>2, <1>6 DEF Done, Slack, OnWay, ToFail
  <1>8. InLine'
    <2>1. InLine
      BY <1>2, ChainFacts
    <2> QED
      BY <1>2, <1>4, <1>5, <1>6, <2>1 DEF InLine
  <1>9. ASSUME NEW op \in Ops PROVE Forwards(op)'
    BY Zenon, <1>2, <1>7, ChainFacts DEF Forwards
  <1>10. \A op \in Ops : calls["proxy"][op] \in Nat /\ calls["proxy"][op] <= calls["proxy"][op]
    BY <1>2, ChainFacts
  <1> QED
    BY Zenon, <1>2, <1>7, <1>8, <1>9, <1>10, ChainKept

(* ... and it returns.                                                     *)
LEMMA ChainReturned ==
    ASSUME ProgInv, DoReturned, mode' = "run", prog' = "chain"
    PROVE  ChainInv'
  <1>1. /\ StepOK(prog, pos, Cur) /\ Cur.do \in {"write", "read", "loop"}
        /\ At({"write", "read", "loop"})
    BY AtStep DEF DoReturned, ProgInv
  <1>2. prog = "chain" /\ Cur.do \in {"write", "read"} /\ Cur.dev = "proxy"
    <2>1. prog = "chain"
      BY Zenon DEF DoReturned, Advance, Return
    <2> QED
      BY <1>1, <2>1 DEF StepOK
  <1>3. /\ io[Cur.dev] = "ok" /\ Advance
        /\ io' = [io EXCEPT ![Cur.dev] = "none"]
        /\ UNCHANGED <<calls, stored, got, look, unseen>>
    <2>1. Cur.do # "loop"
      BY <1>2
    <2>2. ~Return("env")
      BY DEF Return, Abandoned
    <2> QED
      BY Zenon, <2>1, <2>2 DEF DoReturned, lookVars
  <1>4. mode = "run" /\ pos \in DOMAIN runChain
    BY Zenon, <1>1, <1>2, <1>3, Lists DEF Advance, At
  <1>5. /\ Cur.do = "write" => In({"write"})
        /\ Cur.do = "read" => In({"read"})
    BY <1>1, <1>2, <1>4 DEF In, At
  <1>6. io'["storage"] = io["storage"] /\ io'["proxy"] = "none" /\ io["proxy"] = "ok"
    BY <1>2, <1>3, <1>4, ChainFacts
  <1>7. /\ Cur.do = "write" => stored = Cur.val
        /\ Cur.do = "read" => stored = Cur.val /\ got = Cur.val
    BY Zenon, <1>2, <1>4, <1>5, <1>6, ChainFacts DEF DataThrough, Done
  <1>8. Cur.do # "load"
    BY <1>2
  <1> QED
    BY <1>2, <1>3, <1>4, <1>6, <1>7, <1>8, ChainGoesOn DEF Advance

(* The counters after a call of the backend of d.                          *)
LEMMA CallCounted ==
    ASSUME ProgInv, mode = "run", prog = "chain", NEW d \in {"storage", "proxy"},
           NEW o \in Ops, calls' = [calls EXCEPT ![d][o] = @ + 1]
    PROVE  \A x \in {"storage", "proxy"}, op \in Ops :
              calls'[x][op] = IF x = d /\ op = o THEN calls[x][op] + 1 ELSE calls[x][op]
  <1>1. /\ calls \in [Devs -> [read : Nat, write : Nat]] /\ {"storage", "proxy"} \subseteq Devs
        /\ o \in {"read", "write"}
    BY ChainFacts DEF Ops
  <1>2. \A x \in Devs : calls'[x] = IF x = d THEN [calls[x] EXCEPT ![o] = @ + 1] ELSE calls[x]
    BY Zenon, <1>1
  <1>3. calls[d] \in [read : Nat, write : Nat]
    BY <1>1
  <1>4. \A op \in {"read", "write"} :
           [calls[d] EXCEPT ![o] = @ + 1][op] = IF op = o THEN calls[d][op] + 1 ELSE calls[d][op]
    BY Zenon, <1>1, <1>3, Bumped
  <1> QED
    BY Zenon, <1>1, <1>2, <1>4 DEF Ops

(* What a request adds to the calls of the proxy it adds to the slack, and *)
(* what leaves the slack is a call of the storage or an error unseen.      *)
LEMMA ChainBalanced ==
    ASSUME ProgInv, mode = "run", prog = "chain",
           UNCHANGED <<prog, pos, mode, verdict, counted, stored, got>>,
           InLine', Done' => Done,
           NEW p \in [Ops -> 0 .. 1], NEW s \in [Ops -> 0 .. 1], NEW u \in 0 .. 1,
           \A op \in Ops : /\ calls'["proxy"][op] = calls["proxy"][op] + p[op]
                           /\ calls'["storage"][op] = calls["storage"][op] + s[op]
                           /\ Slack(op)' \in Nat
                           /\ Slack(op) + p[op] <= Slack(op)' + s[op] + u,
           unseen' = unseen + u
    PROVE  ChainInv'
  <1>1. ASSUME NEW op \in Ops
        PROVE  /\ Forwards(op)'
               /\ calls["proxy"][op] \in Nat /\ calls'["proxy"][op] \in Nat
               /\ calls["proxy"][op] <= calls'["proxy"][op]
    <2>1. /\ calls["proxy"][op] \in Nat /\ calls["storage"][op] \in Nat /\ unseen \in Nat
          /\ Slack(op) \in Nat /\ calls["proxy"][op] <= calls["storage"][op] + unseen + Slack(op)
      BY Zenon, ChainFacts DEF Forwards
    <2>2. p[op] \in Nat /\ s[op] \in Nat /\ u \in Nat
      OBVIOUS
    <2> HIDE DEF Slack
    <2>3. (calls["proxy"][op] <= calls["storage"][op] + unseen + Slack(op))'
      BY <2>1, <2>2
    <2>4. calls'["proxy"][op] \in Nat /\ calls["proxy"][op] <= calls'["proxy"][op]
      BY <2>1, <2>2
    <2> QED
      BY Zenon, <2>1, <2>3, <2>4 DEF Forwards
  <1> QED
    BY Zenon, <1>1, ChainKept

(* The proxy's worker takes a request of the program or of udev: the call  *)
(* is counted at the proxy before it is counted at the storage.            *)
LEMMA ChainTakeProxy ==
    ASSUME ProgInv, Take("proxy") \/ TakeLook("proxy"), mode = "run", prog = "chain"
    PROVE  ChainInv'
  <1> DEFINE o == IF Take("proxy") THEN ProgOp ELSE "read"
             p == [op \in Ops |-> IF op = o THEN 1 ELSE 0]
             none == [op \in Ops |-> 0]
  <1>1. /\ UNCHANGED <<prog, pos, mode, verdict, stored, got, unseen, counted>>
        /\ io["storage"] = "none" /\ io["proxy"] # "backend" /\ look["proxy"] # "backend"
    BY Zenon DEF Take, TakeLook, WorkerFree, progVars, loopVars, lookVars
  <1>2. /\ ProgOp' = ProgOp
        /\ \A dos : In(dos)' <=> In(dos)
    BY <1>1, SamePlace
  <1>3. /\ "storage" \in Devs /\ "proxy" \in Devs /\ ProgOp \in Ops /\ "read" \in Ops
        /\ look \in [Devs -> {"none", "queued", "backend"}]
        /\ io \in [Devs -> {"none", "queued", "backend", "ok", "err"}]
    BY ChainFacts DEF Ops
  <1>4. o \in Ops /\ calls' = [calls EXCEPT !["proxy"][o] = @ + 1]
    <2>1. ASSUME Take("proxy") PROVE calls' = [calls EXCEPT !["proxy"][ProgOp] = @ + 1]
      BY Zenon, <1>1, <2>1 DEF Take, Op
    <2>2. ASSUME TakeLook("proxy") PROVE calls' = [calls EXCEPT !["proxy"]["read"] = @ + 1]
      BY Zenon, <2>2 DEF TakeLook
    <2> QED
      BY Zenon, <1>3, <2>1, <2>2
  <1>5. /\ io'["storage"] \in {"queued", "err"}
        /\ Take("proxy") => io["proxy"] = "queued" /\ io'["proxy"] = "backend" /\ look' = look
        /\ ~Take("proxy") => io'["proxy"] = io["proxy"] /\ look'["proxy"] = "backend"
    <2>1. ToStorage \in {"queued", "err"}
      BY DEF ToStorage
    <2>2. CASE Take("proxy")
      BY <1>3, <2>1, <2>2 DEF Take, lookVars
    <2>3. CASE ~Take("proxy")
      <3>1. TakeLook("proxy")
        BY <2>3
      <3> QED
        BY <1>3, <2>1, <2>3, <3>1 DEF TakeLook
    <2> QED
      BY <2>2, <2>3
  <1>6. InLine'
    <2>1. InLine
      BY ChainFacts
    <2> QED
      BY <1>1, <1>2, <1>5, <2>1 DEF InLine
  <1>7. Done' => Done
    BY <1>1, <1>5 DEF Done
  <1>8. ASSUME NEW op \in Ops
        PROVE  Slack(op) \in Nat /\ Slack(op)' \in Nat /\ Slack(op) + p[op] = Slack(op)'
    BY <1>1, <1>2, <1>5 DEF Slack, OnWay, ToFail
  <1>9. /\ p \in [Ops -> 0 .. 1] /\ none \in [Ops -> 0 .. 1] /\ 0 \in 0 .. 1
        /\ unseen' = unseen + 0
    BY <1>1, ChainFacts
  <1>10. ASSUME NEW op \in Ops
         PROVE  /\ calls'["proxy"][op] = calls["proxy"][op] + p[op]
                /\ calls'["storage"][op] = calls["storage"][op] + none[op]
    <2>1. \A x \in {"storage", "proxy"}, k \in Ops :
             calls'[x][k] = IF x = "proxy" /\ k = o THEN calls[x][k] + 1 ELSE calls[x][k]
      BY Zenon, <1>4, CallCounted
    <2>2. calls["proxy"][op] \in Nat /\ calls["storage"][op] \in Nat
      BY Zenon, ChainFacts
    <2> HIDE DEF o
    <2> QED
      BY <2>1, <2>2
  <1>11. \A op \in Ops : Slack(op)' \in Nat /\ Slack(op) + p[op] <= Slack(op)' + none[op] + 0
    BY <1>8
  <1> HIDE DEF p, none
  <1> QED
    BY Zenon, <1>1, <1>6, <1>7, <1>9, <1>10, <1>11, ChainBalanced

(* The storage's worker takes a request: one of the proxy's backend.       *)
LEMMA ChainTakeStorage ==
    ASSUME ProgInv, Take("storage"), mode = "run", prog = "chain"
    PROVE  ChainInv'
  <1> DEFINE s == [op \in Ops |-> IF op = Op THEN 1 ELSE 0]
             none == [op \in Ops |-> 0]
  <1>1. /\ UNCHANGED <<prog, pos, mode, verdict, stored, got, unseen, counted, look>>
        /\ io["storage"] = "queued"
    BY Zenon DEF Take, WorkerFree, progVars, loopVars, lookVars
  <1>2. /\ ProgOp' = ProgOp
        /\ \A dos : In(dos)' <=> In(dos)
    BY <1>1, SamePlace
  <1>3. /\ "storage" \in Devs /\ "proxy" \in Devs /\ Op \in Ops /\ InLine
        /\ io \in [Devs -> {"none", "queued", "backend", "ok", "err"}]
    BY ChainFacts DEF Ops, Op
  <1>4. io'["storage"] = "backend" /\ io'["proxy"] = io["proxy"]
    BY <1>3 DEF Take
  <1>5. InLine' /\ (Done' => Done)
    BY <1>1, <1>2, <1>3, <1>4 DEF InLine, Done
  <1>6. ASSUME NEW op \in Ops
        PROVE  Slack(op) \in Nat /\ Slack(op)' \in Nat /\ Slack(op) = Slack(op)' + s[op]
    BY <1>1, <1>2, <1>3, <1>4 DEF InLine, Slack, OnWay, ToFail, Op
  <1>7. /\ s \in [Ops -> 0 .. 1] /\ none \in [Ops -> 0 .. 1] /\ 0 \in 0 .. 1
        /\ unseen' = unseen + 0
    BY <1>1, ChainFacts
  <1>8. ASSUME NEW op \in Ops
        PROVE  /\ calls'["proxy"][op] = calls["proxy"][op] + none[op]
               /\ calls'["storage"][op] = calls["storage"][op] + s[op]
    <2>1. calls' = [calls EXCEPT !["storage"][Op] = @ + 1]
      BY DEF Take
    <2>2. \A x \in {"storage", "proxy"}, k \in Ops :
             calls'[x][k] = IF x = "storage" /\ k = Op THEN calls[x][k] + 1 ELSE calls[x][k]
      BY Zenon, <1>3, <2>1, CallCounted
    <2>3. calls["proxy"][op] \in Nat /\ calls["storage"][op] \in Nat
      BY Zenon, ChainFacts
    <2> QED
      BY <2>2, <2>3
  <1>9. \A op \in Ops : Slack(op)' \in Nat /\ Slack(op) + none[op] <= Slack(op)' + s[op] + 0
    BY <1>6
  <1> HIDE DEF s, none
  <1> QED
    BY Zenon, <1>1, <1>5, <1>7, <1>8, <1>9, ChainBalanced

(* The kernel fails a request of the program's to the proxy, or tries one  *)
(* that failed once more; the proxy's backend answers, to the program or   *)
(* to udev, what the storage answered.                                     *)
LEMMA ChainProxyEnds ==
    ASSUME ProgInv, KFail("proxy") \/ KRetry("proxy") \/ Answer("proxy") \/ AnswerLook("proxy"),
           mode = "run", prog = "chain"
    PROVE  ChainInv'
  <1> DEFINE none == [op \in Ops |-> 0]
             u == IF unseen' = unseen THEN 0 ELSE 1
  <1>1. /\ UNCHANGED <<prog, pos, mode, verdict, stored, got, counted, calls>>
        /\ unseen' = unseen \/ unseen' = unseen + 1
    BY Zenon DEF KFail, KRetry, Answer, AnswerLook, progVars, loopVars, lookVars
  <1>2. /\ ProgOp' = ProgOp
        /\ \A dos : In(dos)' <=> In(dos)
    BY <1>1, SamePlace
  <1>3. /\ "storage" \in Devs /\ "proxy" \in Devs /\ InLine /\ unseen \in Nat /\ unseen + 1 # unseen
        /\ io \in [Devs -> {"none", "queued", "backend", "ok", "err"}]
        /\ look \in [Devs -> {"none", "queued", "backend"}]
    BY ChainFacts
  <1>4. \/ /\ UNCHANGED <<look, unseen>> /\ io'["storage"] = io["storage"]
           /\ io["proxy"] = "queued" /\ io'["proxy"] = "err"
        \/ /\ UNCHANGED look /\ unseen' = unseen + 1 /\ io'["storage"] = io["storage"]
           /\ io["proxy"] = "err" /\ io'["proxy"] = "queued"
        \/ /\ UNCHANGED <<look, unseen>> /\ io'["storage"] = "none" /\ io["storage"] \in {"ok", "err"}
           /\ io["proxy"] = "backend" /\ io'["proxy"] = io["storage"]
        \/ /\ look["proxy"] = "backend" /\ look'["proxy"] = "none" /\ io'["proxy"] = io["proxy"]
           /\ io'["storage"] = "none" /\ io["storage"] \in {"ok", "err"}
           /\ unseen' = IF io["storage"] = "err" THEN unseen + 1 ELSE unseen
    <2>1. CASE KFail("proxy")
      BY <1>3, <2>1 DEF KFail, lookVars
    <2>2. CASE KRetry("proxy")
      BY <1>3, <2>2 DEF KRetry
    <2>3. CASE Answer("proxy")
      BY <1>3, <2>3 DEF Answer, Forwarded, lookVars
    <2>4. CASE AnswerLook("proxy")
      BY <1>3, <2>4 DEF AnswerLook
    <2> QED
      BY <2>1, <2>2, <2>3, <2>4
  <1>5. InLine'
    BY <1>2, <1>3, <1>4 DEF InLine
  <1>6. Done' => Done
    BY <1>3, <1>4 DEF InLine, Done
  <1>7. ASSUME NEW op \in Ops
        PROVE  Slack(op) \in Nat /\ Slack(op)' \in Nat /\ Slack(op) <= Slack(op)' + u
    BY <1>2, <1>3, <1>4 DEF InLine, Slack, OnWay, ToFail
  <1>8. /\ none \in [Ops -> 0 .. 1] /\ u \in 0 .. 1 /\ unseen' = unseen + u
    BY <1>1, <1>3
  <1>9. ASSUME NEW op \in Ops
        PROVE  /\ calls'["proxy"][op] = calls["proxy"][op] + none[op]
               /\ calls'["storage"][op] = calls["storage"][op] + none[op]
    <2>1. calls["proxy"][op] \in Nat /\ calls["storage"][op] \in Nat
      BY Zenon, ChainFacts
    <2> QED
      BY <1>1, <2>1
  <1>10. \A op \in Ops : Slack(op)' \in Nat /\ Slack(op) + none[op] <= Slack(op)' + none[op] + u
    BY <1>7, <1>8
  <1> HIDE DEF none, u
  <1> QED
    BY Zenon, <1>1, <1>5, <1>6, <1>8, <1>9, <1>10, ChainBalanced

(* The storage's backend stores or reads, for the program or for udev.     *)
LEMMA ChainAnswerStorage ==
    ASSUME ProgInv, Answer("storage"), mode = "run", prog = "chain"
    PROVE  ChainInv'
  <1>1. /\ UNCHANGED <<prog, pos, mode, verdict, calls, look, unseen, counted>>
        /\ io["storage"] = "backend"
    BY Zenon DEF Answer, progVars, lookVars, loopVars
  <1>2. /\ Cur' = Cur /\ ProgOp' = ProgOp
        /\ \A dos : In(dos)' <=> In(dos)
    BY <1>1, SamePlace
  <1>3. /\ "storage" \in Devs /\ "proxy" \in Devs /\ InLine /\ pos # 0
        /\ io \in [Devs -> {"none", "queued", "backend", "ok", "err"}]
    BY ChainFacts
  <1>4. /\ io' = [io EXCEPT !["storage"] = "ok"]
        /\ IF io["proxy"] = "backend"
           THEN /\ stored' = IF Cur.do = "write" THEN Cur.val ELSE stored
                /\ got' = IF Cur.do = "read" THEN stored ELSE got
           ELSE UNCHANGED <<stored, got>>
    <2>1. "storage" # "proxy" /\ \A r \in Answers("storage") : r = "ok"
      BY AnswerKinds
    <2> QED
      BY Zenon, <1>3, <2>1 DEF Answer
  <1>5. io'["storage"] = "ok" /\ io'["proxy"] = io["proxy"]
    BY <1>3, <1>4
  <1>6. InLine' /\ \A op \in Ops : Slack(op)' = Slack(op)
    BY <1>1, <1>2, <1>3, <1>5 DEF InLine, Slack, OnWay, ToFail
  <1>7. \A op \in Ops : Forwards(op)'
    BY Zenon, <1>1, <1>6, ChainFacts DEF Forwards
  <1>8. DataThrough'
    <2>1. CASE io["proxy"] = "backend"
      <3>1. /\ Cur.do \in {"write", "read"}
            /\ In({"write"}) => Cur.do = "write"
            /\ In({"read"}) => Cur.do = "read"
            /\ ~In({"compare"})
        <4>1. In({"write", "read"})
          BY <1>3, <2>1 DEF InLine
        <4> QED
          BY <4>1 DEF In, At
      <3>2. In({"read"}) => stored = Cur.val
        BY Zenon, ChainFacts DEF DataThrough
      <3>3. /\ In({"write"}) => stored' = Cur.val
            /\ In({"read"}) => stored' = Cur.val /\ got' = Cur.val
        BY <1>4, <2>1, <3>1, <3>2
      <3> QED
        BY Zenon, <1>2, <3>1, <3>3 DEF DataThrough
    <2>2. CASE io["proxy"] # "backend"
      <3>1. Done' <=> Done
        BY <1>5, <2>2 DEF Done
      <3> QED
        BY Zenon, <1>2, <1>4, <2>2, <3>1, ChainFacts DEF DataThrough
    <2> QED
      BY <2>1, <2>2
  <1> QED
    BY Zenon, <1>1, <1>2, <1>6, <1>7, <1>8, ChainFacts DEF ChainInv

(* What else the devices do.                                               *)
LEMMA ChainElse ==
    ASSUME ProgInv, NEW d \in Devs, mode = "run", prog = "chain",
           \/ d = "storage" /\ (KFail(d) \/ KRetry(d) \/ TakeLook(d) \/ AnswerLook(d))
           \/ d \notin {"storage", "proxy"}
                /\ (Take(d) \/ Answer(d) \/ KFail(d) \/ KRetry(d) \/ TakeLook(d) \/ AnswerLook(d))
           \/ FailLook(d) \/ UdevOpens(d)
    PROVE  ChainInv'
  <1>1. /\ UNCHANGED <<prog, pos, mode, verdict, counted, stored, got>>
        /\ unseen' = unseen \/ unseen' = unseen + 1
    <2>1. CASE UdevOpens(d) \/ FailLook(d) \/ Take(d) \/ KFail(d) \/ KRetry(d) \/ TakeLook(d)
               \/ AnswerLook(d)
      BY Zenon, <2>1 DEF UdevOpens, FailLook, Take, KFail, KRetry, TakeLook, AnswerLook,
                         progVars, lookVars, loopVars
    <2>2. CASE d \notin {"storage", "proxy"} /\ Answer(d)
      BY <2>2 DEF Answer, progVars, lookVars, loopVars
    <2> QED
      BY Zenon, <2>1, <2>2
  <1>2. /\ "storage" \in Devs /\ "proxy" \in Devs /\ unseen \in Nat
        /\ look \in [Devs -> {"none", "queued", "backend"}]
        /\ io \in [Devs -> {"none", "queued", "backend", "ok", "err"}]
        /\ calls \in [Devs -> [read : Nat, write : Nat]]
    BY ChainFacts
  <1>3. /\ io'["proxy"] = io["proxy"]
        /\ \/ io'["storage"] = io["storage"]
           \/ io["storage"] \in {"queued", "err"} /\ io'["storage"] \in {"queued", "err"}
    <2>1. CASE d = "storage" /\ (KFail(d) \/ KRetry(d))
      BY <1>2, <2>1 DEF KFail, KRetry
    <2>2. CASE d # "proxy" /\ (TakeLook(d) \/ AnswerLook(d))
      BY <2>2 DEF TakeLook, AnswerLook
    <2>3. CASE UdevOpens(d) \/ FailLook(d)
      BY <2>3 DEF UdevOpens, FailLook
    <2>4. CASE d \notin {"storage", "proxy"} /\ (Take(d) \/ Answer(d) \/ KFail(d) \/ KRetry(d))
      <3>1. CASE Take(d)
        BY <1>2, <2>4, <3>1 DEF Take
      <3>2. CASE Answer(d)
        BY <1>2, <2>4, <3>2 DEF Answer
      <3>3. CASE KFail(d) \/ KRetry(d)
        BY <1>2, <2>4, <3>3 DEF KFail, KRetry
      <3> QED
        BY <2>4, <3>1, <3>2, <3>3
    <2>5. "storage" # "proxy"
      OBVIOUS
    <2> QED
      BY Zenon, <2>1, <2>2, <2>3, <2>4, <2>5
  <1>4. look'["proxy"] = "backend" <=> look["proxy"] = "backend"
    <2>1. CASE look' = look
      BY <2>1
    <2>2. CASE d # "proxy" /\ \E x : look' = [look EXCEPT ![d] = x]
      BY <1>2, <2>2
    <2>3. CASE look[d] \in {"none", "queued"} /\ \E x \in {"none", "queued"} : look' = [look EXCEPT ![d] = x]
      BY <1>2, <2>3
    <2>4. FailLook(d) \/ UdevOpens(d) => look' = look \/ (look[d] \in {"none", "queued"}
             /\ \E x \in {"none", "queued"} : look' = [look EXCEPT ![d] = x])
      BY Zenon DEF FailLook, UdevOpens
    <2>5. TakeLook(d) \/ AnswerLook(d) => \E x : look' = [look EXCEPT ![d] = x]
      BY Zenon DEF TakeLook, AnswerLook
    <2>6. Take(d) \/ Answer(d) \/ KFail(d) \/ KRetry(d) => look' = look
      BY Zenon DEF Take, Answer, KFail, KRetry, lookVars
    <2>7. "storage" # "proxy"
      OBVIOUS
    <2> QED
      BY Zenon, <2>1, <2>2, <2>3, <2>4, <2>5, <2>6, <2>7
  <1>5. /\ calls'["proxy"] = calls["proxy"]
        /\ \A op \in Ops : calls'["storage"][op] \in Nat
                           /\ calls["storage"][op] <= calls'["storage"][op]
    <2>1. CASE d = "storage" /\ TakeLook(d)
      <3>1. calls' = [calls EXCEPT !["storage"]["read"] = @ + 1] /\ "read" \in Ops
        BY Zenon, <2>1 DEF TakeLook, Ops
      <3>2. \A x \in {"storage", "proxy"}, k \in Ops :
               calls'[x][k] = IF x = "storage" /\ k = "read" THEN calls[x][k] + 1 ELSE calls[x][k]
        BY Zenon, <3>1, CallCounted
      <3>3. \A op \in Ops : calls["storage"][op] \in Nat
        BY Zenon, ChainFacts
      <3>4. calls'["proxy"] = calls["proxy"]
        BY <1>2, <3>1
      <3> QED
        BY <3>2, <3>3, <3>4
    <2>2. CASE calls'["storage"] = calls["storage"] /\ calls'["proxy"] = calls["proxy"]
      BY <2>2, ChainFacts
    <2>3. CASE d \notin {"storage", "proxy"} /\ (Take(d) \/ TakeLook(d))
      <3>1. PICK x : calls' \in {calls, [calls EXCEPT ![d] = x]}
        BY Zenon, <2>3 DEF Take, TakeLook
      <3>2. calls'["storage"] = calls["storage"] /\ calls'["proxy"] = calls["proxy"]
        BY <1>2, <2>3, <3>1
      <3> QED
        BY <2>2, <3>2
    <2>4. Answer(d) \/ KFail(d) \/ KRetry(d) \/ AnswerLook(d) \/ FailLook(d) \/ UdevOpens(d)
             => calls' = calls
      BY Zenon DEF Answer, KFail, KRetry, AnswerLook, FailLook, UdevOpens
    <2> QED
      BY Zenon, <2>1, <2>2, <2>3, <2>4
  <1>6. unseen' \in Nat /\ unseen <= unseen'
    BY <1>1, <1>2
  <1>7. /\ io'["storage"] = "none" <=> io["storage"] = "none"
        /\ io'["storage"] = "ok" <=> io["storage"] = "ok"
        /\ io'["storage"] \in {"queued", "err"} <=> io["storage"] \in {"queued", "err"}
    BY <1>3
  <1> QED
    BY Zenon, <1>1, <1>3, <1>4, <1>5, <1>6, <1>7, ChainQuiet

(* ChainInv is kept.                                                       *)
LEMMA ChainStep ==
    ASSUME ProgInv, ProgNext
    PROVE  ChainInv'
  <1> SUFFICES ASSUME mode' = "run", prog' = "chain" PROVE ChainInv'
    BY Zenon DEF ChainInv
  <1>1. CASE Leave
    BY <1>1, LeaveStep, FaultNames DEF ProgInv
  <1>2. CASE UNCHANGED <<ioVars, saw, rest>> /\ ~Leave /\ ~DoReturned
    BY Zenon, <1>2, ChainIdle
  <1>3. CASE \E d \in Devs : Serve(d) \/ Fail(d) \/ KRetry(d) \/ UdevOpens(d)
    <2>1. PICK d \in Devs : Serve(d) \/ Fail(d) \/ KRetry(d) \/ UdevOpens(d)
      BY <1>3
    <2>2. mode = "run" /\ prog = "chain"
      BY Zenon, <2>1, DevicesQuiet DEF Device, progVars
    <2>3. CASE d = "proxy"
      BY Zenon, <2>1, <2>2, <2>3, ChainTakeProxy, ChainProxyEnds, ChainElse DEF Serve, Fail
    <2>4. CASE d = "storage"
      BY Zenon, <2>1, <2>2, <2>4, ChainTakeStorage, ChainAnswerStorage, ChainElse DEF Serve, Fail
    <2>5. CASE d \notin {"storage", "proxy"}
      BY Zenon, <2>1, <2>2, <2>5, ChainElse DEF Serve, Fail
    <2> QED
      BY <2>3, <2>4, <2>5
  <1> QED
    BY Zenon, <1>1, <1>2, <1>3, RequestSteps, ChainIssue, ChainReturned

(* The invariant of the sequential programs is inductive.                  *)
LEMMA ProgStep ==
    ASSUME ProgInv, ProgNext
    PROVE  ProgInv'
  BY ProgTypeStep, ReleaseStep, CountStep, ChainStep DEF ProgInv
=============================================================================
