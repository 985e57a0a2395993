---------------------------- MODULE RingProofs -----------------------------
(***************************************************************************)
(* Theorems about Ring, for every ring size, width of the indices and set  *)
(* of requests: the ring is the queue of module RingFifo through every     *)
(* wrap-around, every SQE is consumed once and every CQE seen once, and    *)
(* WaitCQE after Cancel yields no CQE.  The inductive invariant is RingInv;*)
(* before the theorems come the arithmetic of the indices, the queues as   *)
(* windows on the slots, and the steps of the submitter (GetSQE, Submit,   *)
(* SubmitAndWait and their returns), the kernel, WaitCQE and Cancel.       *)
(***************************************************************************)
EXTENDS Ring, FiniteSetTheorems, TLAPS

-----------------------------------------------------------------------------
(***************************************************************************)
(* Remainders.                                                             *)
(***************************************************************************)

(* A remainder is in range, and the rest is a multiple.                    *)
LEMMA DivMod ==
    ASSUME NEW n \in Int, n > 0, NEW x \in Int
    PROVE  /\ x \div n \in Int /\ x % n \in Int /\ 0 <= x % n /\ x % n < n
           /\ x = n * (x \div n) + (x % n)
  <1>1. x = n * (x \div n) + (x % n)
    BY SMT
  <1>2. x % n \in Int /\ 0 <= x % n /\ x % n < n
    BY SMT
  <1>3. x \div n \in Int
    BY SMT
  <1> QED
    BY <1>1, <1>2, <1>3

(* A multiple with something smaller added leaves just that.               *)
LEMMA ModUnique ==
    ASSUME NEW n \in Int, n > 0, NEW q \in Int, NEW r \in Int, 0 <= r, r < n
    PROVE  (n * q + r) % n = r
  BY SMT

(* Remainders of numbers at most one turn away.                            *)
LEMMA ModNear ==
    ASSUME NEW n \in Int, n > 0, NEW a \in Int
    PROVE  /\ 0 <= a /\ a < n => a % n = a
           /\ -n <= a /\ a < 0 => a % n = a + n
           /\ n % n = 0
  BY SMT

(* Two numbers have the same remainder if their difference has none.       *)
LEMMA ModDiff ==
    ASSUME NEW n \in Int, n > 0, NEW x \in Int, NEW y \in Int
    PROVE  x % n = y % n <=> (x - y) % n = 0
  <1>1. ASSUME x % n = y % n PROVE (x - y) % n = 0
    <2>1. PICK q \in Int : x = n * q + (x % n)
      BY Zenon, DivMod
    <2>2. PICK p \in Int : y = n * p + (y % n)
      BY DivMod
    <2>3. q - p \in Int /\ x - y = n * (q - p) + 0
      BY <1>1, <2>1, <2>2, DivMod
    <2> QED
      BY <2>3, ModUnique
  <1>2. ASSUME (x - y) % n = 0 PROVE x % n = y % n
    <2>1. PICK q \in Int : x - y = n * q
      BY <1>2, DivMod
    <2>2. PICK p \in Int : y = n * p + (y % n)
      BY DivMod
    <2>3. q + p \in Int /\ x = n * (q + p) + (y % n)
      BY <2>1, <2>2, DivMod
    <2>4. (n * (q + p) + (y % n)) % n = y % n
      BY <2>3, DivMod, ModUnique
    <2> QED
      BY <2>3, <2>4
  <1> QED
    BY <1>1, <1>2

-----------------------------------------------------------------------------
(***************************************************************************)
(* Indices and slots.                                                      *)
(***************************************************************************)

(* The sizes: both rings divide the index space.                           *)
LEMMA SizeFacts ==
    /\ 2^Width \in Int /\ 2^Width > 1
    /\ sqEntries \in Int /\ sqEntries > 0
    /\ cqEntries \in Int /\ cqEntries > 0 /\ cqEntries < 2^Width
    /\ 2^Width % cqEntries = 0 /\ 2^Width % sqEntries = 0
    /\ MaxOutstanding \in Int /\ MaxOutstanding < 2^Width
  <1> DEFINE m == 2^Width
             n == sqEntries
  <1>1. /\ m \in Int /\ n \in Int /\ n > 0 /\ cqEntries = 2 * n
        /\ cqEntries < m /\ m % cqEntries = 0
        /\ MaxOutstanding \in Int /\ MaxOutstanding < m
    BY RingAssumption DEF cqEntries
  <1> HIDE DEF m, n
  <1>2. cqEntries \in Int /\ cqEntries > 0 /\ m > 1
    BY <1>1
  <1>3. PICK q \in Int : m = cqEntries * q
    BY <1>1, <1>2, DivMod
  <1>4. 2 * q \in Int /\ m = n * (2 * q) + 0
    BY <1>1, <1>3
  <1>5. m % n = 0
    BY <1>1, <1>4, ModUnique
  <1> QED
    BY <1>1, <1>2, <1>5 DEF m, n

(* uint32 subtraction counts the steps from b forward to a.                *)
LEMMA MinusFacts ==
    ASSUME NEW a \in Indices, NEW b \in Indices
    PROVE  /\ Minus(a, b) \in Int /\ 0 <= Minus(a, b) /\ Minus(a, b) < 2^Width
           /\ Minus(a, b) = IF b <= a THEN a - b ELSE a - b + 2^Width
           /\ Minus(a, b) = 0 <=> a = b
  <1> DEFINE m == 2^Width
  <1>1. m \in Int /\ m > 0 /\ Indices = 0 .. m - 1 /\ Minus(a, b) = (a - b) % m
    BY SizeFacts DEF Indices, Minus
  <1> HIDE DEF m
  <1>2. (a - b) % m = IF b <= a THEN a - b ELSE a - b + m
    BY <1>1, ModNear
  <1>3. /\ Minus(a, b) \in Int /\ 0 <= Minus(a, b) /\ Minus(a, b) < m
        /\ Minus(a, b) = IF b <= a THEN a - b ELSE a - b + m
        /\ Minus(a, b) = 0 <=> a = b
    BY <1>1, <1>2
  <1> QED
    BY <1>3 DEF m

(* The next index.                                                         *)
LEMMA PlusFacts ==
    ASSUME NEW a \in Indices
    PROVE  /\ Plus(a, 1) \in Indices
           /\ Plus(a, 1) = IF a + 1 = 2^Width THEN 0 ELSE a + 1
  <1> DEFINE m == 2^Width
  <1>1. m \in Int /\ m > 0 /\ Indices = 0 .. m - 1 /\ Plus(a, 1) = (a + 1) % m
    BY SizeFacts DEF Indices, Plus
  <1> HIDE DEF m
  <1>2. (a + 1) % m = IF a + 1 = m THEN 0 ELSE a + 1
    BY <1>1, ModNear
  <1> QED
    BY <1>1, <1>2 DEF m

(* A tail that moves on adds an entry, a head that moves on drops one.     *)
LEMMA CountSteps ==
    ASSUME NEW a \in Indices, NEW b \in Indices
    PROVE  /\ Minus(a, b) + 1 < 2^Width => Minus(Plus(a, 1), b) = Minus(a, b) + 1
           /\ a # b => Minus(a, Plus(b, 1)) = Minus(a, b) - 1
  <1> DEFINE m == 2^Width
  <1>1. m \in Int /\ m > 1 /\ Indices = 0 .. m - 1
    BY SizeFacts DEF Indices
  <1>2. Plus(a, 1) \in Indices /\ Plus(a, 1) = IF a + 1 = m THEN 0 ELSE a + 1
    BY PlusFacts
  <1>3. Plus(b, 1) \in Indices /\ Plus(b, 1) = IF b + 1 = m THEN 0 ELSE b + 1
    BY PlusFacts
  <1>4. Minus(a, b) = IF b <= a THEN a - b ELSE a - b + m
    BY MinusFacts
  <1>5. Minus(Plus(a, 1), b)
          = IF b <= Plus(a, 1) THEN Plus(a, 1) - b ELSE Plus(a, 1) - b + m
    BY <1>2, MinusFacts
  <1>6. Minus(a, Plus(b, 1))
          = IF Plus(b, 1) <= a THEN a - Plus(b, 1) ELSE a - Plus(b, 1) + m
    BY <1>3, MinusFacts
  <1> HIDE DEF m
  <1>7. Minus(a, b) + 1 < m => Minus(Plus(a, 1), b) = Minus(a, b) + 1
    BY <1>1, <1>2, <1>4, <1>5
  <1>8. a # b => Minus(a, Plus(b, 1)) = Minus(a, b) - 1
    BY <1>1, <1>3, <1>4, <1>6
  <1> QED
    BY <1>7, <1>8 DEF m

(* Slots, for a ring of n entries that divides the index space: a slot is  *)
(* that of the index, whether or not the index has wrapped around, and     *)
(* indices less than n apart have different slots.                         *)
LEMMA SlotFacts ==
    ASSUME NEW n \in Int, n > 0, 2^Width % n = 0
    PROVE  /\ \A x \in Int : x % n \in 0 .. n - 1
           /\ \A a \in Indices, i \in Int : (Plus(a, 1) + i) % n = (a + 1 + i) % n
           /\ \A a, b \in Indices : (b + Minus(a, b)) % n = a % n
           /\ \A x, y \in Int : x < y /\ y < x + n => x % n # y % n
           /\ \A x, y \in Int : x % n = y % n <=> (x - y) % n = 0
  <1> DEFINE m == 2^Width
  <1>0. m \in Int /\ m > 1 /\ Indices = 0 .. m - 1 /\ m % n = 0
    BY SizeFacts DEF Indices
  <1>1. \A x \in Int : x % n \in 0 .. n - 1
    BY DivMod
  <1>2. \A x \in Int : (x + m) % n = x % n
    <2> HIDE DEF m
    <2> TAKE x \in Int
    <2>1. x + m \in Int /\ (x + m) - x = m
      BY <1>0
    <2> QED
      BY Zenon, <1>0, <2>1, ModDiff
  <1>3. ASSUME NEW a \in Indices, NEW i \in Int
        PROVE  (Plus(a, 1) + i) % n = (a + 1 + i) % n
    <2>1. Plus(a, 1) = IF a + 1 = m THEN 0 ELSE a + 1
      BY PlusFacts
    <2> HIDE DEF m
    <2>2. CASE a + 1 = m
      <3>1. a + 1 + i = i + m /\ Plus(a, 1) + i = i
        BY <1>0, <2>1, <2>2
      <3> QED
        BY <1>2, <3>1
    <2> QED
      BY <2>1, <2>2
  <1>4. ASSUME NEW a \in Indices, NEW b \in Indices
        PROVE  (b + Minus(a, b)) % n = a % n
    <2>1. Minus(a, b) = IF b <= a THEN a - b ELSE a - b + m
      BY MinusFacts
    <2> HIDE DEF m
    <2>2. b + Minus(a, b) = a \/ b + Minus(a, b) = a + m
      BY <1>0, <2>1
    <2> QED
      BY SMTT(30), <1>0, <1>2, <2>2
  <1>5. ASSUME NEW x \in Int, NEW y \in Int, x < y, y < x + n
        PROVE  x % n # y % n
    <2>1. (y - x) % n = y - x /\ y - x # 0
      BY <1>5, ModNear
    <2> QED
      BY Zenon, <2>1, ModDiff
  <1>6. \A x, y \in Int : x % n = y % n <=> (x - y) % n = 0
    BY Zenon, ModDiff
  <1> QED
    BY <1>1, <1>3, <1>4, <1>5, <1>6

-----------------------------------------------------------------------------
(***************************************************************************)
(* What the slots of a ring hold from index h on, as a sequence.           *)
(***************************************************************************)
Window(f, n, h, k) == [i \in 1 .. k |-> f[(h + i - 1) % n]]

(* The two windows of the module.                                          *)
LEMMA Windows ==
    /\ Outstanding = Window(sqes, sqEntries, sqHead, Minus(sqeLocalTail, sqHead))
    /\ Unseen = Window(cqes, cqEntries, cqHead, Minus(cqTail, cqHead))
  BY DEF Outstanding, Unseen, Window, SQSlot, CQSlot

(* A window is a sequence.                                                 *)
LEMMA WindowType ==
    ASSUME NEW n \in Int, n > 0, 2^Width % n = 0, NEW S, NEW f, f \in [0 .. n - 1 -> S],
           NEW h \in Int, NEW k \in Int, k >= 0
    PROVE  /\ Window(f, n, h, k) \in Seq(S)
           /\ Len(Window(f, n, h, k)) = k
           /\ DOMAIN Window(f, n, h, k) = 1 .. k
  <1>1. \A i \in 1 .. k : h + i - 1 \in Int /\ (h + i - 1) % n \in 0 .. n - 1
    <2> TAKE i \in 1 .. k
    <2>1. h + i - 1 \in Int
      OBVIOUS
    <2> QED
      BY <2>1, SlotFacts
  <1>2. \A i \in 1 .. k : f[(h + i - 1) % n] \in S
    BY <1>1
  <1>3. k \in Nat
    OBVIOUS
  <1> DEFINE w == Window(f, n, h, k)
  <1>4. w \in [1 .. k -> S]
    BY <1>2 DEF Window
  <1>5. w \in Seq(S) /\ Len(w) = k
    BY <1>3, <1>4
  <1> QED
    BY <1>1, <1>4, <1>5 DEF Window

Popped(f, n, h, k) ==
    Window(f, n, Plus(h, 1), k - 1) = Tail(Window(f, n, h, k))

(* A head that moves on drops the first element.                           *)
LEMMA WindowPop ==
    ASSUME NEW n \in Int, n > 0, 2^Width % n = 0, NEW S, NEW f, f \in [0 .. n - 1 -> S],
           NEW h \in Indices, NEW k \in Int, k > 0
    PROVE  Popped(f, n, h, k)
  <1> DEFINE w == Window(f, n, h, k)
             v == Window(f, n, Plus(h, 1), k - 1)
  <1>0. h \in Int /\ Plus(h, 1) \in Int /\ k >= 0
    BY PlusFacts, SizeFacts DEF Indices
  <1>1. w \in Seq(S) /\ Len(w) = k /\ \A i \in 1 .. k : w[i] = f[(h + i - 1) % n]
    <2>1. w \in Seq(S) /\ Len(w) = k
      BY <1>0, WindowType
    <2> QED
      BY <2>1 DEF Window
  <1>2. k - 1 \in Int /\ k - 1 >= 0
    OBVIOUS
  <1>3. /\ v \in Seq(S) /\ Len(v) = k - 1
        /\ \A i \in 1 .. (k - 1) : v[i] = f[(Plus(h, 1) + i - 1) % n]
    <2>0. ASSUME NEW i \in 1 .. (k - 1) PROVE f[(Plus(h, 1) + i - 1) % n] \in S
      <3>1. Plus(h, 1) + i - 1 \in Int
        BY <1>0
      <3> QED
        BY <3>1, SlotFacts
    <2>1. v \in [1 .. (k - 1) -> S] /\ k - 1 \in Nat
      BY <1>2, <2>0 DEF Window
    <2> QED
      BY <2>1 DEF Window
  <1>4. ASSUME NEW i \in 1 .. (k - 1) PROVE v[i] = w[i + 1]
    <2>1. i - 1 \in Int /\ Plus(h, 1) + i - 1 = Plus(h, 1) + (i - 1)
          /\ h + (i + 1) - 1 = h + 1 + (i - 1) /\ i + 1 \in 1 .. k
      BY <1>0
    <2>2. (Plus(h, 1) + (i - 1)) % n = (h + 1 + (i - 1)) % n
      BY <2>1, SlotFacts
    <2> QED
      BY <1>1, <1>3, <2>1, <2>2
  <1> HIDE DEF w, v
  <1>5. Tail(w) \in Seq(S) /\ Len(Tail(w)) = k - 1
        /\ \A i \in 1 .. (k - 1) : Tail(w)[i] = w[i + 1]
    BY <1>1
  <1>6. v = Tail(w)
    BY <1>3, <1>4, <1>5
  <1> QED
    BY <1>6 DEF w, v, Popped

Pushed(f, n, h, t, u) ==
    LET k == Minus(t, h)
        w == Window(f, n, h, k)
        g == [f EXCEPT ![t % n] = u]
    IN  /\ Window(g, n, h, k + 1)
             = Append([i \in 1 .. k |-> IF (k + 1 - i) % n = 0 THEN u ELSE w[i]], u)
        /\ k < n => Window(g, n, h, k + 1) = Append(w, u)

(* A tail that moves on appends, and overwrites what is a whole number of  *)
(* turns behind.                                                           *)
LEMMA WindowPush ==
    ASSUME NEW n \in Int, n > 0, 2^Width % n = 0, NEW S, NEW f, f \in [0 .. n - 1 -> S],
           NEW h \in Indices, NEW t \in Indices, NEW u \in S
    PROVE  Pushed(f, n, h, t, u)
  <1> DEFINE k == Minus(t, h)
             w == Window(f, n, h, k)
             g == [f EXCEPT ![t % n] = u]
             o == [i \in 1 .. k |-> IF (k + 1 - i) % n = 0 THEN u ELSE w[i]]
             v == Window(g, n, h, k + 1)
  <1>0. h \in Int /\ t \in Int /\ k \in Int /\ k >= 0
    BY MinusFacts, SizeFacts DEF Indices
  <1>1. w \in Seq(S) /\ Len(w) = k /\ \A i \in 1 .. k : w[i] = f[(h + i - 1) % n]
    <2> HIDE DEF k
    <2>0. ASSUME NEW i \in 1 .. k PROVE f[(h + i - 1) % n] \in S
      <3>1. h + i - 1 \in Int
        BY <1>0
      <3> QED
        BY <3>1, SlotFacts
    <2>1. w \in [1 .. k -> S] /\ k \in Nat
      BY <1>0, <2>0 DEF Window
    <2> QED
      BY <2>1 DEF Window
  <1>2. t % n \in 0 .. n - 1 /\ g \in [0 .. n - 1 -> S] /\ (h + k) % n = t % n
    BY <1>0, SlotFacts
  <1>3. /\ v \in Seq(S) /\ Len(v) = k + 1
        /\ \A i \in 1 .. (k + 1) : /\ (h + i - 1) % n \in 0 .. n - 1
                                   /\ v[i] = g[(h + i - 1) % n]
    <2> HIDE DEF k, g
    <2>1. k + 1 \in Int /\ k + 1 >= 0
      BY <1>0
    <2>2. ASSUME NEW i \in 1 .. (k + 1)
          PROVE  (h + i - 1) % n \in 0 .. n - 1 /\ g[(h + i - 1) % n] \in S
      <3>1. h + i - 1 \in Int
        BY <1>0
      <3> QED
        BY <1>2, <3>1, SlotFacts
    <2>3. v \in [1 .. (k + 1) -> S] /\ k + 1 \in Nat
      BY <2>1, <2>2 DEF Window
    <2>4. \A i \in 1 .. (k + 1) : v[i] = g[(h + i - 1) % n]
      BY DEF Window
    <2> HIDE DEF v
    <2>5. v \in Seq(S) /\ Len(v) = k + 1
      BY <2>3
    <2> QED
      BY <2>2, <2>4, <2>5
  <1> HIDE DEF k, w, v
  <1>4. v[k + 1] = u
    <2>1. k + 1 \in 1 .. (k + 1) /\ h + (k + 1) - 1 = h + k
      BY <1>0
    <2> QED
      BY <1>2, <1>3, <2>1
  <1>5. ASSUME NEW i \in 1 .. k PROVE v[i] = o[i]
    <2>1. i \in 1 .. (k + 1) /\ h + i - 1 \in Int /\ h + k \in Int
          /\ (h + k) - (h + i - 1) = k + 1 - i
      BY <1>0
    <2>2. (h + k) % n = (h + i - 1) % n <=> (k + 1 - i) % n = 0
      BY SMTT(30), <2>1, SlotFacts
    <2> QED
      BY Zenon, <1>1, <1>2, <1>3, <2>1, <2>2
  <1>6. o \in Seq(S) /\ Len(o) = k /\ k \in Nat
    <2>1. o \in [1 .. k -> S] /\ k \in Nat
      BY <1>0, <1>1
    <2> QED
      BY <2>1
  <1>7. v = Append(o, u)
    <2> HIDE DEF o
    <2>1. Append(o, u) \in Seq(S) /\ Len(Append(o, u)) = k + 1
          /\ Append(o, u)[k + 1] = u /\ \A i \in 1 .. k : Append(o, u)[i] = o[i]
      BY <1>6
    <2>2. \A i \in 1 .. (k + 1) : v[i] = Append(o, u)[i]
      BY <1>4, <1>5, <1>6, <2>1
    <2> QED
      BY SMTT(30), <1>3, <2>1, <2>2
  <1>8. ASSUME k < n PROVE o = w
    <2>1. \A i \in 1 .. k : (k + 1 - i) % n # 0
      <3> TAKE i \in 1 .. k
      <3>1. k + 1 - i \in Int /\ 0 < k + 1 - i /\ k + 1 - i < n
        BY <1>0, <1>8
      <3> QED
        BY <3>1, ModNear
    <2>2. o = [i \in 1 .. k |-> w[i]]
      BY <2>1
    <2> QED
      BY <1>1, <2>2
  <1> QED
    BY Zenon, <1>7, <1>8 DEF k, w, v, Pushed

(* What a queue of different elements holds after Append and Tail.         *)
LEMMA DistinctSteps ==
    ASSUME NEW S, NEW s \in Seq(S), Distinct(s)
    PROVE  /\ \A u \in S \ Contents(s) : /\ Distinct(Append(s, u))
                                         /\ Contents(Append(s, u)) = Contents(s) \cup {u}
           /\ Len(s) > 0 => /\ s[1] \in Contents(s)
                            /\ Distinct(Tail(s))
                            /\ Contents(Tail(s)) = Contents(s) \ {s[1]}
  <1>1. ASSUME NEW u \in S \ Contents(s)
        PROVE  /\ Distinct(Append(s, u))
               /\ Contents(Append(s, u)) = Contents(s) \cup {u}
    <2>1. /\ DOMAIN Append(s, u) = 1 .. Len(s) + 1 /\ DOMAIN s = 1 .. Len(s)
          /\ Append(s, u)[Len(s) + 1] = u /\ Len(s) \in Nat
          /\ \A i \in 1 .. Len(s) : Append(s, u)[i] = s[i]
      OBVIOUS
    <2> QED
      BY <2>1 DEF Distinct, Contents
  <1>2. ASSUME Len(s) > 0
        PROVE  /\ s[1] \in Contents(s) /\ Distinct(Tail(s))
               /\ Contents(Tail(s)) = Contents(s) \ {s[1]}
    <2>1. /\ DOMAIN Tail(s) = 1 .. Len(s) - 1 /\ DOMAIN s = 1 .. Len(s) /\ Len(s) \in Nat
          /\ \A i \in 1 .. Len(s) - 1 : Tail(s)[i] = s[i + 1]
      BY <1>2
    <2>2. s[1] \in Contents(s)
      BY <1>2, <2>1 DEF Contents
    <2>3. Distinct(Tail(s))
      BY <2>1 DEF Distinct
    <2>4. ASSUME NEW x \in Contents(Tail(s)) PROVE x \in Contents(s) \ {s[1]}
      BY <1>2, <2>1 DEF Distinct, Contents
    <2>5. ASSUME NEW x \in Contents(s) \ {s[1]} PROVE x \in Contents(Tail(s))
      <3>1. PICK i \in 1 .. Len(s) : x = s[i] /\ i # 1
        BY <2>1 DEF Contents
      <3>2. i - 1 \in 1 .. Len(s) - 1 /\ Tail(s)[i - 1] = x
        BY <2>1, <3>1
      <3> QED
        BY Zenon, <2>1, <3>2 DEF Contents
    <2> QED
      BY <2>2, <2>3, <2>4, <2>5
  <1> QED
    BY <1>1, <1>2

-----------------------------------------------------------------------------
(***************************************************************************)
(* The invariant.                                                          *)
(***************************************************************************)
Data == UserData \cup {NoData}
SlotsOK ==
    /\ {sqeLocalHead, sqeLocalTail, sqHead, sqTail, cqHead, cqTail} \subseteq Indices
    /\ sqes \in [0 .. sqEntries - 1 -> Data]
    /\ cqes \in [0 .. cqEntries - 1 -> Data]

QueueShapes ==
    SlotsOK => /\ Outstanding \in Seq(Data) /\ Unseen \in Seq(Data)
               /\ Len(Outstanding) = Minus(sqeLocalTail, sqHead)
               /\ Len(Unseen) = Minus(cqTail, cqHead)
               /\ DOMAIN Outstanding = 1 .. Minus(sqeLocalTail, sqHead)
               /\ DOMAIN Unseen = 1 .. Minus(cqTail, cqHead)

(* The two queues are sequences, as long as their indices say.             *)
LEMMA QueueTypes == QueueShapes
  <1> SUFFICES ASSUME SlotsOK
               PROVE  /\ Outstanding \in Seq(Data) /\ Unseen \in Seq(Data)
                      /\ Len(Outstanding) = Minus(sqeLocalTail, sqHead)
                      /\ Len(Unseen) = Minus(cqTail, cqHead)
                      /\ DOMAIN Outstanding = 1 .. Minus(sqeLocalTail, sqHead)
                      /\ DOMAIN Unseen = 1 .. Minus(cqTail, cqHead)
    BY DEF QueueShapes
  <1> DEFINE k == Minus(sqeLocalTail, sqHead)
             l == Minus(cqTail, cqHead)
  <1>1. k \in Nat /\ l \in Nat /\ sqHead \in Int /\ cqHead \in Int
    <2>1. {sqeLocalTail, sqHead, cqTail, cqHead} \subseteq Indices
      BY Zenon DEF SlotsOK
    <2>2. k \in Nat /\ l \in Nat
      BY <2>1, MinusFacts
    <2>3. sqHead \in Int /\ cqHead \in Int
      BY <2>1, SizeFacts DEF Indices
    <2> QED
      BY <2>2, <2>3
  <1> HIDE DEF k, l
  <1>2. \A i \in 1 .. k : sqes[SQSlot(sqHead + i - 1)] \in Data
    <2> TAKE i \in 1 .. k
    <2>1. sqHead + i - 1 \in Int
      BY <1>1
    <2> QED
      BY <2>1, SizeFacts, SlotFacts DEF SQSlot, SlotsOK
  <1>3. \A i \in 1 .. l : cqes[CQSlot(cqHead + i - 1)] \in Data
    <2> TAKE i \in 1 .. l
    <2>1. cqHead + i - 1 \in Int
      BY <1>1
    <2> QED
      BY <2>1, SizeFacts, SlotFacts DEF CQSlot, SlotsOK
  <1>4. Outstanding \in [1 .. k -> Data] /\ Unseen \in [1 .. l -> Data]
    BY <1>2, <1>3 DEF Outstanding, Unseen, k, l
  <1>5. /\ Outstanding \in Seq(Data) /\ Unseen \in Seq(Data)
        /\ Len(Outstanding) = k /\ Len(Unseen) = l
        /\ DOMAIN Outstanding = 1 .. k /\ DOMAIN Unseen = 1 .. l
    BY <1>1, <1>4
  <1> QED
    BY <1>5 DEF k, l

(* So they are after a step.                                               *)
LEMMA QueueTypesNext == QueueShapes'
  BY QueueTypes, PTL

(* The part of TypeOK that is about the slots, and the rest of it.         *)
LEMMA Types ==
    ASSUME TypeOK
    PROVE  /\ SlotsOK
           /\ want \in Nat /\ got \in Nat /\ got <= want
           /\ want - got <= Minus(sqeLocalTail, sqHead)
  <1>1. SlotsOK
    BY DEF TypeOK, SlotsOK, Data
  <1> QED
    BY <1>1, QueueTypes DEF QueueShapes, TypeOK

TypeRest ==
    /\ sqArray \in [0 .. sqEntries - 1 -> 0 .. sqEntries - 1]
    /\ spc \in {"idle", "enter"}
    /\ want \in Nat /\ got \in 0 .. want /\ want - got <= Minus(sqeLocalTail, sqHead)
    /\ cpc \in {"idle", "wait", "load", "epoll", "cqe", "read", "ErrCancelled"}
    /\ held \in UserData \cup {NoData}
    /\ {cancelled, eventfd, late, left} \subseteq BOOLEAN
    /\ kpc \in {"idle", "wake", "returned"}
    /\ life \in [UserData -> {"free", "queued", "inflight", "posted", "twice"}]

(* TypeOK, with the count of SQEs in place of the length of their queue.   *)
LEMMA TypeSplit ==
    /\ TypeOK <=> SlotsOK /\ TypeRest
    /\ TypeOK' <=> SlotsOK' /\ TypeRest'
  <1>1. TypeOK <=> SlotsOK /\ TypeRest
    <2>1. ASSUME TypeOK PROVE SlotsOK /\ TypeRest
      BY <2>1, Types DEF TypeOK, TypeRest
    <2>2. ASSUME SlotsOK, TypeRest PROVE TypeOK
      BY <2>2, QueueTypes DEF QueueShapes, TypeOK, SlotsOK, TypeRest, Data
    <2> QED
      BY <2>1, <2>2
  <1>2. TypeOK' <=> SlotsOK' /\ TypeRest'
    BY <1>1, PTL
  <1> QED
    BY <1>1, <1>2

(* The counts are natural numbers.                                         *)
LEMMA Counts ==
    ASSUME SlotsOK
    PROVE  /\ Minus(sqeLocalTail, sqHead) \in Nat
           /\ Minus(sqeLocalTail, sqeLocalHead) \in Nat
           /\ Minus(sqTail, sqHead) \in Nat
           /\ Minus(cqTail, cqHead) \in Nat
           /\ Minus(sqeLocalTail, sqHead) = 0 <=> sqeLocalTail = sqHead
           /\ Minus(sqeLocalTail, sqeLocalHead) = 0 <=> sqeLocalTail = sqeLocalHead
           /\ Minus(sqTail, sqHead) = 0 <=> sqTail = sqHead
           /\ Minus(cqTail, cqHead) = 0 <=> cqTail = cqHead
  BY MinusFacts DEF SlotsOK

(* GetSQE64 or GetSQE128: the numbers.                                     *)
LEMMA GetCounts ==
    ASSUME TypeOK, InOrder, NEW u \in UserData, GetSQE(u)
    PROVE  /\ SlotsOK'
           /\ Minus(sqeLocalTail, sqHead)' = Minus(sqeLocalTail, sqHead) + 1
           /\ Minus(sqeLocalTail, sqeLocalHead)' = Minus(sqeLocalTail, HeadSeen) + 1
           /\ Minus(sqeLocalTail, HeadSeen) <= Minus(sqeLocalTail, sqHead)
           /\ Minus(sqeLocalTail, HeadSeen) \in Nat
           /\ HeadSeen \in {sqHead, sqeLocalHead}
  <1> USE DEF GetSQE
  <1>1. SlotsOK /\ HeadSeen \in {sqHead, sqeLocalHead} /\ HeadSeen \in Indices
    BY Types DEF HeadSeen, SlotsOK
  <1>2. /\ Minus(sqeLocalTail, sqHead) + 1 < 2^Width
        /\ Minus(sqeLocalTail, HeadSeen) + 1 < 2^Width
        /\ Minus(sqeLocalTail, HeadSeen) \in Nat
    <2>1. Minus(sqeLocalTail, sqHead) \in Int /\ Minus(sqeLocalTail, HeadSeen) \in Nat
      BY <1>1, MinusFacts DEF SlotsOK
    <2>2. sqEntries + 1 < 2^Width
      BY SizeFacts DEF cqEntries
    <2> DEFINE m == 2^Width
    <2>3. m \in Int
      BY SizeFacts
    <2> HIDE DEF m
    <2>4. Minus(sqeLocalTail, sqHead) + 1 < m /\ Minus(sqeLocalTail, HeadSeen) + 1 < m
      BY <2>1, <2>2, <2>3, SizeFacts DEF m
    <2> QED
      BY <2>1, <2>4 DEF m
  <1>3. sqeLocalTail' = Plus(sqeLocalTail, 1) /\ sqeLocalTail' \in Indices
    BY <1>1, PlusFacts DEF SlotsOK
  <1>4. sqes' \in [0 .. sqEntries - 1 -> Data]
    BY Zenon, <1>1 DEF SlotsOK, Data
  <1>5. SlotsOK'
    BY <1>1, <1>3, <1>4 DEF SlotsOK, cqShared
  <1>6. Minus(sqeLocalTail, sqHead)' = Minus(sqeLocalTail, sqHead) + 1
    BY <1>1, <1>2, <1>3, CountSteps DEF SlotsOK
  <1>7. Minus(sqeLocalTail, sqeLocalHead)' = Minus(sqeLocalTail, HeadSeen) + 1
    BY <1>1, <1>2, <1>3, CountSteps DEF SlotsOK
  <1>8. Minus(sqeLocalTail, HeadSeen) <= Minus(sqeLocalTail, sqHead)
    BY <1>1, Counts DEF InOrder
  <1> QED
    BY <1>1, <1>2, <1>5, <1>6, <1>7, <1>8

(* ... and the queue, whether or not the slot was still in use.            *)
LEMMA GetQueue ==
    ASSUME TypeOK, InOrder, NEW u \in UserData, GetSQE(u)
    PROVE  LET k == Minus(sqeLocalTail, sqHead)
           IN  /\ Outstanding' = Append([i \in 1 .. k |->
                                           IF (k + 1 - i) % sqEntries = 0 THEN u
                                           ELSE Outstanding[i]], u)
               /\ k < sqEntries => Outstanding' = Append(Outstanding, u)
               /\ Unseen' = Unseen
  <1>1. /\ sqEntries \in Int /\ sqEntries > 0 /\ 2^Width % sqEntries = 0
        /\ sqes \in [0 .. sqEntries - 1 -> Data] /\ u \in Data
        /\ sqHead \in Indices /\ sqeLocalTail \in Indices
    BY Types, SizeFacts DEF SlotsOK, Data
  <1> DEFINE k == Minus(sqeLocalTail, sqHead)
             w == Window(sqes, sqEntries, sqHead, k)
             g == [sqes EXCEPT ![sqeLocalTail % sqEntries] = u]
  <1>2. /\ Window(g, sqEntries, sqHead, k + 1)
             = Append([i \in 1 .. k |-> IF (k + 1 - i) % sqEntries = 0 THEN u ELSE w[i]], u)
        /\ k < sqEntries => Window(g, sqEntries, sqHead, k + 1) = Append(w, u)
    <2>1. Pushed(sqes, sqEntries, sqHead, sqeLocalTail, u)
      BY <1>1, WindowPush
    <2> QED
      BY Zenon, <2>1 DEF Pushed
  <1>3. Outstanding = w
    BY Windows
  <1>4. /\ g = sqes' /\ sqHead' = sqHead
        /\ Minus(sqeLocalTail', sqHead') = k + 1
    BY Zenon, GetCounts DEF GetSQE, SQSlot
  <1>5. Outstanding' = Window(g, sqEntries, sqHead, k + 1)
    <2>1. Outstanding' = [i \in 1 .. Minus(sqeLocalTail', sqHead') |->
                            sqes'[(sqHead' + i - 1) % sqEntries]]
      BY DEF Outstanding, SQSlot
    <2> HIDE DEF g, k
    <2>2. Outstanding' = [i \in 1 .. (k + 1) |-> g[(sqHead + i - 1) % sqEntries]]
      BY <1>4, <2>1
    <2> QED
      BY <2>2 DEF Window
  <1>6. Unseen' = Unseen
    BY DEF GetSQE, cqShared, Unseen
  <1> QED
    BY Zenon, <1>2, <1>3, <1>5, <1>6

(* GetSQE64 or GetSQE128 keeps the invariant: a request that is queued in  *)
(* a free slot is a new one.                                               *)
LEMMA GetStep ==
    ASSUME RingInv, NEW u \in UserData, GetSQE(u)
    PROVE  TypeOK' /\ InOrder' /\ InStep' /\ InSlots'
  <1> USE DEF RingInv
  <1> DEFINE O == Minus(sqeLocalTail, sqHead)
             U == Minus(sqeLocalTail, sqeLocalHead)
             P == Minus(sqTail, sqHead)
             V == Minus(sqeLocalTail, HeadSeen)
  <1>1. /\ SlotsOK /\ SlotsOK' /\ O \in Nat /\ U \in Nat /\ P \in Nat /\ V \in Nat
        /\ O' = O + 1 /\ U' = V + 1 /\ V <= O /\ P' = P /\ V < sqEntries
        /\ HeadSeen \in {sqHead, sqeLocalHead}
    BY Zenon, Types, Counts, GetCounts DEF GetSQE
  <1>2. sqEntries \in Nat
    BY SizeFacts
  <1>3. /\ spc = "idle" /\ spc' = spc /\ want' = want /\ got' = got /\ left' = left
        /\ sqHead' = sqHead /\ sqTail' = sqTail /\ sqArray' = sqArray
        /\ sqeLocalHead' = HeadSeen /\ UNCHANGED cqShared /\ UNCHANGED conVars
        /\ UNCHANGED canVars /\ life' = [life EXCEPT ![u] = "queued"] /\ life[u] = "free"
    BY DEF GetSQE
  <1>4. /\ want = 0 /\ got = 0 /\ U <= O /\ P <= O
    BY <1>3 DEF InOrder
  <1> HIDE DEF O, U, P, V
  <1>5. TypeOK'
    <2>1. TypeRest
      BY TypeSplit
    <2>2. want' - got' <= O'
      BY <1>1, <1>3, <1>4
    <2>3. TypeRest'
      BY <1>3, <2>1, <2>2 DEF TypeRest, conVars, canVars, O
    <2> QED
      BY <1>1, <2>3, TypeSplit
  <1>6. InOrder'
    <2>1. U' <= O' /\ P' <= O' /\ spc' = "idle" /\ want' = 0 /\ got' = 0
      BY <1>1, <1>3, <1>4
    <2> QED
      BY <2>1 DEF InOrder, U, O, P
  <1>7. ASSUME ~left PROVE HeadSeen = sqHead /\ V = O /\ Outstanding' = Append(Outstanding, u)
    <2>1. HeadSeen = sqHead
      BY <1>1, <1>3, <1>7 DEF InStep
    <2>2. V = O
      BY <2>1 DEF V, O
    <2> QED
      BY <1>1, <2>1, <2>2, GetQueue DEF O
  <1>8. Unseen' = Unseen
    BY GetQueue
  <1>9. InStep'
    <2> SUFFICES ASSUME ~left'
                 PROVE  /\ sqeLocalHead' = sqHead' /\ sqTail' = sqHead' /\ O' <= sqEntries
                        /\ cpc' \in {"cqe", "read"} => cqHead' # cqTail'
                        /\ cpc' = "read" => held' = Unseen'[1]
      BY <1>3 DEF InStep, O
    <2>1. sqeLocalHead' = sqHead' /\ sqTail' = sqHead'
      BY <1>3, <1>7 DEF InStep
    <2>2. O' <= sqEntries
      BY <1>1, <1>2, <1>3, <1>7
    <2> QED
      BY <1>3, <1>8, <2>1, <2>2 DEF InStep, conVars, cqShared
  <1>10. InSlots'
    <2> SUFFICES ASSUME ~left' PROVE InSlots'
      BY DEF InSlots
    <2>1. /\ \A x \in UserData : life[x] # "twice"
          /\ {x \in UserData : life[x] = "queued"} = Contents(Outstanding)
          /\ {x \in UserData : life[x] = "posted"} = Contents(Unseen)
          /\ Distinct(Outstanding) /\ Distinct(Unseen)
      BY <1>3 DEF InSlots
    <2>2. life \in [UserData -> {"free", "queued", "inflight", "posted", "twice"}]
      BY DEF TypeOK
    <2>3. Outstanding \in Seq(Data) /\ u \in Data \ Contents(Outstanding)
      BY <1>1, <1>3, <2>1, QueueTypes DEF QueueShapes, Data
    <2>4. /\ Distinct(Append(Outstanding, u))
          /\ Contents(Append(Outstanding, u)) = Contents(Outstanding) \cup {u}
      BY Zenon, <2>1, <2>3, DistinctSteps
    <2>5. Outstanding' = Append(Outstanding, u)
      BY <1>3, <1>7
    <2>6. {x \in UserData : life'[x] = "queued"} = Contents(Outstanding) \cup {u}
      BY <1>3, <2>1, <2>2
    <2>7. {x \in UserData : life'[x] = "posted"} = Contents(Unseen)
      BY <1>3, <2>1, <2>2
    <2>8. \A x \in UserData : life'[x] # "twice"
      BY <1>3, <2>1, <2>2
    <2>9. Distinct(Outstanding') /\ Contents(Outstanding') = Contents(Outstanding) \cup {u}
      BY <2>4, <2>5
    <2> QED
      BY <1>8, <2>1, <2>6, <2>7, <2>8, <2>9 DEF InSlots, Distinct, Contents
  <1> QED
    BY <1>5, <1>6, <1>9, <1>10

(* Actions that leave both queues and the requests alone keep InSlots.     *)
LEMMA SlotsAlone ==
    ASSUME InSlots, UNCHANGED <<Outstanding, Unseen, life>>, left => left'
    PROVE  InSlots'
  BY DEF InSlots, Distinct, Contents

(* A nil SQE: only the local head has moved, to the kernel's.              *)
LEMMA NilStep ==
    ASSUME RingInv, GetSQENil
    PROVE  TypeOK' /\ InOrder' /\ InStep' /\ InSlots'
  <1> USE DEF RingInv
  <1>1. /\ SlotsOK /\ spc = "idle" /\ sqeLocalHead' = HeadSeen
        /\ UNCHANGED <<sqeLocalTail, spc, want, got, left, sqHead, sqTail, sqArray, sqes,
                       cqHead, cqTail, cqes, cpc, held, late, cancelled, eventfd, kpc,
                       life>>
    BY Types DEF GetSQENil, sqShared, cqShared, conVars, canVars
  <1>2. HeadSeen \in {sqHead, sqeLocalHead}
    BY DEF HeadSeen
  <1>3. SlotsOK'
    BY <1>1, <1>2 DEF SlotsOK
  <1>4. Outstanding' = Outstanding /\ Unseen' = Unseen
    BY <1>1 DEF Outstanding, Unseen
  <1>5. TypeOK'
    <2>1. TypeRest
      BY TypeSplit
    <2>2. TypeRest'
      BY <1>1, <2>1 DEF TypeRest
    <2> QED
      BY <1>3, <2>2, TypeSplit
  <1>6. InOrder'
    <2>1. /\ Minus(sqeLocalTail, sqHead) \in Nat
          /\ Minus(sqeLocalTail', sqeLocalHead') <= Minus(sqeLocalTail, sqHead)
      BY <1>1, <1>2, Counts DEF InOrder
    <2> QED
      BY <1>1, <2>1 DEF InOrder
  <1>7. InStep'
    BY <1>1, <1>2, <1>4 DEF InStep
  <1>8. InSlots'
    BY <1>1, <1>4, SlotsAlone
  <1> QED
    BY <1>5, <1>6, <1>7, <1>8

(* flushSQ, in Submit or SubmitAndWait: the whole batch is published, each *)
(* SQE in the array entry of its own slot.                                 *)
LEMMA FlushStep ==
    ASSUME RingInv, Submit \/ SubmitAndWait
    PROVE  TypeOK' /\ InOrder' /\ InStep' /\ InSlots'
  <1> USE DEF RingInv
  <1> DEFINE U == Minus(sqeLocalTail, sqeLocalHead)
             O == Minus(sqeLocalTail, sqHead)
  <1>1. /\ spc = "idle" /\ FlushSQ
        /\ spc' = "enter" \/ (spc' = "idle" /\ want' = 0)
        /\ UNCHANGED <<sqeLocalTail, left, sqHead, sqes, cqHead, cqTail, cqes, cpc, held,
                       late, cancelled, eventfd, kpc, life>>
    BY DEF Submit, SubmitAndWait, cqShared, conVars, canVars
  <1>2. /\ sqTail' = IF U = 0 THEN sqTail ELSE sqeLocalTail
        /\ sqeLocalHead' = sqeLocalTail /\ want' = U /\ got' = 0
        /\ sqArray' = [i \in DOMAIN sqArray |->
              IF i \in {SQSlot(sqeLocalHead + j) : j \in 0 .. U - 1} THEN i ELSE sqArray[i]]
    BY <1>1 DEF FlushSQ
  <1>3. /\ SlotsOK /\ U \in Nat /\ O \in Nat /\ U <= O
        /\ Minus(sqTail, sqHead) \in Nat /\ Minus(sqTail, sqHead) <= O
    BY Types, Counts DEF InOrder
  <1>4. SlotsOK'
    BY <1>1, <1>2, <1>3 DEF SlotsOK
  <1>5. Outstanding' = Outstanding /\ Unseen' = Unseen /\ O' = O
    BY <1>1 DEF Outstanding, Unseen
  <1> HIDE DEF U, O
  <1>6. TypeOK'
    <2>1. TypeRest
      BY TypeSplit
    <2>2. sqArray' \in [0 .. sqEntries - 1 -> 0 .. sqEntries - 1]
      BY <1>2, <2>1 DEF TypeRest
    <2>3. want' \in Nat /\ got' \in 0 .. want' /\ want' - got' <= O'
      BY <1>2, <1>3, <1>5
    <2>4. TypeRest'
      BY <1>1, <2>1, <2>2, <2>3 DEF TypeRest, O
    <2> QED
      BY <1>4, <2>4, TypeSplit
  <1>7. InOrder'
    <2>1. Minus(sqeLocalTail', sqeLocalHead') = 0
      BY <1>1, <1>2, <1>3, MinusFacts DEF SlotsOK
    <2>2. Minus(sqTail', sqHead') <= O
      BY SMTT(30), <1>1, <1>2, <1>3 DEF O
    <2> QED
      BY <1>1, <1>2, <1>3, <1>5, <2>1, <2>2 DEF InOrder, O
  <1>8. InStep'
    <2> SUFFICES ASSUME ~left' PROVE InStep'
      BY DEF InStep
    <2>1. /\ sqeLocalHead = sqHead /\ sqTail = sqHead /\ O <= sqEntries
          /\ cpc \in {"cqe", "read"} => cqHead # cqTail
          /\ cpc = "read" => held = Unseen[1]
      BY Zenon, <1>1 DEF InStep, O
    <2>2. U = O /\ (U = 0 <=> sqeLocalTail = sqHead)
      BY <1>3, <2>1, Counts DEF U, O
    <2>3. sqTail' = sqeLocalTail /\ sqeLocalHead' = sqeLocalTail
      BY <1>2, <2>1, <2>2
    <2>4. spc' = "idle" => sqeLocalHead' = sqHead' /\ sqTail' = sqHead'
      BY <1>1, <1>2, <2>2, <2>3
    <2>5. want' - got' = Minus(sqTail', sqHead') /\ Minus(sqTail', sqHead') = O
      BY <1>1, <1>2, <1>3, <2>2, <2>3 DEF O
    <2>6. ASSUME NEW i \in 0 .. O - 1 PROVE sqArray'[SQSlot(sqHead + i)] = SQSlot(sqHead + i)
      <3>1. sqHead + i \in Int
        <4>1. sqHead \in Int
          BY <1>3, SizeFacts DEF SlotsOK, Indices
        <4> QED
          BY <1>3, <4>1
      <3>2. SQSlot(sqHead + i) \in DOMAIN sqArray
        <4>1. (sqHead + i) % sqEntries \in 0 .. sqEntries - 1
          BY <3>1, SizeFacts, SlotFacts
        <4> QED
          BY <4>1 DEF SQSlot, TypeOK
      <3>3. SQSlot(sqHead + i) \in {SQSlot(sqeLocalHead + j) : j \in 0 .. U - 1}
        BY <2>1, <2>2
      <3> QED
        BY <1>2, <3>2, <3>3
    <2>7. /\ spc' = "idle" => sqeLocalHead' = sqHead' /\ sqTail' = sqHead'
          /\ spc' = "enter" => /\ sqTail' = sqeLocalTail'
                               /\ want' - got' = Minus(sqTail', sqHead')
          /\ Minus(sqeLocalTail', sqHead') <= sqEntries
          /\ \A i \in 0 .. Minus(sqTail', sqHead') - 1 :
                sqArray'[SQSlot(sqHead' + i)] = SQSlot(sqHead' + i)
      BY <1>1, <1>5, <2>1, <2>3, <2>4, <2>5, <2>6 DEF O
    <2>8. /\ cpc' \in {"cqe", "read"} => cqHead' # cqTail'
          /\ cpc' = "read" => held' = Unseen'[1]
      BY <1>1, <1>5, <2>1
    <2> QED
      BY <2>7, <2>8 DEF InStep, SQSlot
  <1>9. InSlots'
    BY <1>1, <1>5, SlotsAlone
  <1> QED
    BY <1>6, <1>7, <1>8, <1>9

(* io_uring_enter returns: unless it left SQEs behind, nothing published   *)
(* is unconsumed.                                                          *)
LEMMA EnterStep ==
    ASSUME RingInv, EnterReturns
    PROVE  TypeOK' /\ InOrder' /\ InStep' /\ InSlots'
  <1> USE DEF RingInv
  <1>1. /\ spc = "enter" /\ spc' = "idle" /\ want' = 0 /\ got' = 0
        /\ left' = (left \/ got < want)
        /\ UNCHANGED <<sqeLocalHead, sqeLocalTail, sqHead, sqTail, sqArray, sqes, cqHead,
                       cqTail, cqes, cpc, held, late, cancelled, eventfd, kpc, life>>
    BY DEF EnterReturns, sqShared, cqShared, conVars, canVars
  <1>2. SlotsOK /\ SlotsOK' /\ want \in Nat /\ got \in Nat /\ got <= want
    BY <1>1, Types DEF SlotsOK
  <1>3. Outstanding' = Outstanding /\ Unseen' = Unseen
    BY <1>1 DEF Outstanding, Unseen
  <1>4. left \in BOOLEAN /\ (left => left')
    BY <1>1 DEF TypeOK
  <1>5. TypeOK'
    <2>1. TypeRest
      BY TypeSplit
    <2>2. 0 <= Minus(sqeLocalTail', sqHead')
      BY <1>1, <1>2, Counts
    <2>3. left' \in BOOLEAN
      BY <1>1, <1>4
    <2>4. TypeRest'
      BY <1>1, <2>1, <2>2, <2>3 DEF TypeRest
    <2> QED
      BY <1>2, <2>4, TypeSplit
  <1>6. InOrder'
    BY <1>1 DEF InOrder
  <1>7. InStep'
    <2> SUFFICES ASSUME ~left' PROVE InStep'
      BY DEF InStep
    <2>1. ~left /\ got = want
      <3>1. ~left /\ ~(got < want)
        BY Zenon, <1>1
      <3> QED
        BY <1>2, <3>1
    <2>2. /\ sqTail = sqeLocalTail /\ want - got = Minus(sqTail, sqHead)
          /\ sqeLocalHead = sqeLocalTail /\ Minus(sqeLocalTail, sqHead) <= sqEntries
          /\ cpc \in {"cqe", "read"} => cqHead # cqTail
          /\ cpc = "read" => held = Unseen[1]
      BY <1>1, <2>1 DEF InStep, InOrder
    <2>3. sqTail = sqHead
      BY <1>2, <2>1, <2>2, Counts
    <2>4. /\ sqeLocalHead' = sqHead' /\ sqTail' = sqHead' /\ spc' # "enter"
          /\ Minus(sqeLocalTail', sqHead') <= sqEntries
          /\ cpc' \in {"cqe", "read"} => cqHead' # cqTail'
          /\ cpc' = "read" => held' = Unseen'[1]
      BY <1>1, <1>3, <2>2, <2>3
    <2> QED
      BY <2>4 DEF InStep
  <1>8. InSlots'
    BY <1>1, <1>3, <1>4, SlotsAlone
  <1> QED
    BY <1>5, <1>6, <1>7, <1>8

-----------------------------------------------------------------------------
(* The kernel's head moves on: the numbers and the queue.                  *)
LEMMA ConsumeQueue ==
    ASSUME TypeOK, InOrder, KConsume
    PROVE  /\ SlotsOK' /\ Minus(sqeLocalTail, sqHead) > 0 /\ Minus(sqTail, sqHead) > 0
           /\ Minus(sqeLocalTail, sqHead)' = Minus(sqeLocalTail, sqHead) - 1
           /\ Minus(sqTail, sqHead)' = Minus(sqTail, sqHead) - 1
           /\ Outstanding' = Tail(Outstanding) /\ Unseen' = Unseen
  <1> DEFINE O == Minus(sqeLocalTail, sqHead)
  <1>1. /\ spc = "enter" /\ sqHead # sqTail /\ sqHead' = Plus(sqHead, 1)
        /\ UNCHANGED <<sqeLocalHead, sqeLocalTail, sqTail, sqes, cqHead, cqTail, cqes>>
    BY DEF KConsume, cqShared
  <1>2. SlotsOK /\ Minus(sqTail, sqHead) \in Nat /\ O \in Nat
    BY Types, Counts
  <1>3. Minus(sqTail, sqHead) > 0 /\ O > 0 /\ sqeLocalTail # sqHead
    BY <1>1, <1>2, Counts DEF InOrder
  <1>4. SlotsOK'
    BY <1>1, <1>2, PlusFacts DEF SlotsOK
  <1>5. /\ Minus(sqeLocalTail', sqHead') = O - 1
        /\ Minus(sqTail', sqHead') = Minus(sqTail, sqHead) - 1
    BY <1>1, <1>2, <1>3, CountSteps DEF SlotsOK
  <1> HIDE DEF O
  <1>6. Outstanding' = Tail(Outstanding)
    <2>1. /\ sqEntries \in Int /\ sqEntries > 0 /\ 2^Width % sqEntries = 0
          /\ sqes \in [0 .. sqEntries - 1 -> Data] /\ sqHead \in Indices /\ O \in Int
      BY <1>2, SizeFacts DEF SlotsOK
    <2>2. Popped(sqes, sqEntries, sqHead, O)
      BY Zenon, <1>3, <2>1, WindowPop
    <2>3. Outstanding' = [i \in 1 .. Minus(sqeLocalTail', sqHead') |->
                            sqes'[(sqHead' + i - 1) % sqEntries]]
      BY DEF Outstanding, SQSlot
    <2>4. Outstanding' = [i \in 1 .. (O - 1) |-> sqes[(Plus(sqHead, 1) + i - 1) % sqEntries]]
      BY <1>1, <1>5, <2>3
    <2>5. Outstanding' = Window(sqes, sqEntries, Plus(sqHead, 1), O - 1)
      BY <2>4 DEF Window
    <2> QED
      BY <2>2, <2>5, Windows DEF Popped, O
  <1>7. Unseen' = Unseen
    BY <1>1 DEF Unseen
  <1> QED
    BY <1>3, <1>4, <1>5, <1>6, <1>7 DEF O

(* The kernel consumes an SQE: with every earlier batch taken whole, it is *)
(* the oldest one, it was queued and it is not queued a second time.       *)
LEMMA ConsumeStep ==
    ASSUME RingInv, KConsume
    PROVE  TypeOK' /\ InOrder' /\ InStep' /\ InSlots'
  <1> USE DEF RingInv
  <1> DEFINE O == Minus(sqeLocalTail, sqHead)
             P == Minus(sqTail, sqHead)
             u == sqes[sqArray[SQSlot(sqHead)]]
  <1>1. /\ spc = "enter" /\ got < want /\ sqHead' = Plus(sqHead, 1) /\ got' = got + 1
        /\ life' = [life EXCEPT ![u] = IF life[u] = "queued" THEN "inflight" ELSE "twice"]
        /\ UNCHANGED <<sqeLocalHead, sqeLocalTail, spc, want, left, sqTail, sqArray,
                       sqes, cqHead, cqTail, cqes, cpc, held, late, cancelled, eventfd,
                       kpc>>
    BY DEF KConsume, cqShared, conVars, canVars
  <1>2. /\ SlotsOK /\ SlotsOK' /\ O \in Nat /\ P \in Nat /\ O > 0 /\ P > 0
        /\ O' = O - 1 /\ P' = P - 1
        /\ want \in Nat /\ got \in Nat /\ want - got <= O
    BY Types, Counts, ConsumeQueue
  <1>3. Outstanding' = Tail(Outstanding) /\ Unseen' = Unseen
    BY ConsumeQueue
  <1>4. sqHead \in Indices /\ sqHead \in Int
    BY <1>2, SizeFacts DEF SlotsOK, Indices
  <1> HIDE DEF O, P, u
  <1>5. TypeOK'
    <2>1. TypeRest
      BY TypeSplit
    <2>2. want' \in Nat /\ got' \in 0 .. want' /\ want' - got' <= O'
      BY <1>1, <1>2
    <2>3. life' \in [UserData -> {"free", "queued", "inflight", "posted", "twice"}]
      BY Zenon, <1>1, <2>1 DEF TypeRest
    <2>4. TypeRest'
      BY <1>1, <2>1, <2>2, <2>3 DEF TypeRest, O
    <2> QED
      BY <1>2, <2>4, TypeSplit
  <1>6. InOrder'
    <2>1. sqeLocalHead = sqeLocalTail /\ P <= O
      BY <1>1 DEF InOrder, P, O
    <2>2. Minus(sqeLocalTail', sqeLocalHead') = 0
      BY <1>1, <1>2, <2>1, Counts
    <2>3. /\ Minus(sqeLocalTail', sqeLocalHead') <= O' /\ P' <= O'
          /\ sqeLocalHead' = sqeLocalTail' /\ spc' # "idle"
      BY <1>1, <1>2, <2>1, <2>2
    <2> QED
      BY <2>3 DEF InOrder, O, P
  <1>7. InStep'
    <2> SUFFICES ASSUME ~left' PROVE InStep'
      BY DEF InStep
    <2>1. /\ sqTail = sqeLocalTail /\ want - got = P /\ O <= sqEntries
          /\ \A i \in 0 .. P - 1 : sqArray[SQSlot(sqHead + i)] = SQSlot(sqHead + i)
          /\ cpc \in {"cqe", "read"} => cqHead # cqTail
          /\ cpc = "read" => held = Unseen[1]
      BY <1>1 DEF InStep, O, P
    <2>2. want' - got' = P' /\ O' <= sqEntries
      BY <1>1, <1>2, <2>1, SizeFacts
    <2>3. ASSUME NEW i \in 0 .. P' - 1
          PROVE  sqArray'[SQSlot(sqHead' + i)] = SQSlot(sqHead' + i)
      <3>1. i \in Int /\ i + 1 \in 0 .. P - 1 /\ sqHead + 1 + i = sqHead + (i + 1)
        BY <1>2, <1>4
      <3>2. (Plus(sqHead, 1) + i) % sqEntries = (sqHead + 1 + i) % sqEntries
        BY <1>4, <3>1, SizeFacts, SlotFacts
      <3>3. SQSlot(sqHead' + i) = SQSlot(sqHead + (i + 1))
        BY <1>1, <3>1, <3>2 DEF SQSlot
      <3> QED
        BY <1>1, <2>1, <3>1, <3>3
    <2>4. /\ cpc' \in {"cqe", "read"} => cqHead' # cqTail'
          /\ cpc' = "read" => held' = Unseen'[1]
      BY <1>1, <1>3, <2>1
    <2>5. spc' = "enter" /\ sqTail' = sqeLocalTail'
      BY <1>1, <2>1
    <2> QED
      BY <2>2, <2>3, <2>4, <2>5 DEF InStep, O, P, SQSlot
  <1>8. InSlots'
    <2> SUFFICES ASSUME ~left' PROVE InSlots'
      BY DEF InSlots
    <2>1. /\ \A x \in UserData : life[x] # "twice"
          /\ {x \in UserData : life[x] = "queued"} = Contents(Outstanding)
          /\ {x \in UserData : life[x] = "posted"} = Contents(Unseen)
          /\ Distinct(Outstanding) /\ Distinct(Unseen)
      BY <1>1 DEF InSlots
    <2>2. life \in [UserData -> {"free", "queued", "inflight", "posted", "twice"}]
      BY DEF TypeOK
    <2>3. Outstanding \in Seq(Data) /\ Len(Outstanding) = O
      BY <1>2, QueueTypes DEF QueueShapes, O
    <2>4. u = Outstanding[1]
      <3>1. 0 \in 0 .. P - 1 /\ 1 \in 1 .. O /\ sqHead + 0 = sqHead /\ sqHead + 1 - 1 = sqHead
        BY <1>2, <1>4
      <3>2. sqArray[SQSlot(sqHead)] = SQSlot(sqHead)
        BY <1>1, <3>1 DEF InStep, P
      <3>3. Outstanding[1] = sqes[SQSlot(sqHead)]
        BY <3>1 DEF Outstanding, O
      <3> QED
        BY <3>2, <3>3 DEF u
    <2>5. /\ u \in Contents(Outstanding) /\ Distinct(Tail(Outstanding))
          /\ Contents(Tail(Outstanding)) = Contents(Outstanding) \ {u}
      BY <1>2, <2>1, <2>3, <2>4, DistinctSteps
    <2>6. u \in UserData /\ life[u] = "queued" /\ life' = [life EXCEPT ![u] = "inflight"]
      BY Zenon, <1>1, <2>1, <2>5
    <2>7. /\ {x \in UserData : life'[x] = "queued"} = Contents(Outstanding) \ {u}
          /\ {x \in UserData : life'[x] = "posted"} = Contents(Unseen)
          /\ \A x \in UserData : life'[x] # "twice"
      BY <2>1, <2>2, <2>6
    <2>8. Distinct(Outstanding') /\ Contents(Outstanding') = Contents(Outstanding) \ {u}
      BY <1>3, <2>5
    <2> QED
      BY <1>3, <2>1, <2>7, <2>8 DEF InSlots, Distinct, Contents
  <1> QED
    BY <1>5, <1>6, <1>7, <1>8

(* Steps of the completion side leave the submission side alone.           *)
SubmissionAlone ==
    UNCHANGED <<sqeLocalHead, sqeLocalTail, spc, want, got, left, sqHead, sqTail, sqArray,
                sqes>>

(* The completion ring has taken one in: the numbers and the queue.        *)
LEMMA CompleteQueue ==
    ASSUME TypeOK, NEW u \in UserData, KComplete(u)
    PROVE  /\ SlotsOK' /\ cqHead' # cqTail' /\ Minus(cqTail, cqHead) \in Nat
           /\ Unseen' = Append(Unseen, u) /\ Outstanding' = Outstanding
  <1> DEFINE K == Minus(cqTail, cqHead)
  <1>1. /\ K < cqEntries /\ cqes' = [cqes EXCEPT ![CQSlot(cqTail)] = u]
        /\ cqTail' = Plus(cqTail, 1) /\ cqHead' = cqHead /\ SubmissionAlone
    BY DEF KComplete, SubmissionAlone, subVars, sqShared
  <1>2. SlotsOK /\ K \in Nat
    BY Types, Counts
  <1>3. cqTail' \in Indices /\ SlotsOK'
    BY Zenon, <1>1, <1>2, PlusFacts DEF SlotsOK, SubmissionAlone, Data
  <1>4. Minus(cqTail', cqHead') = K + 1
    <2> DEFINE m == 2^Width
    <2>1. m \in Int /\ cqEntries < m /\ cqEntries \in Int
      BY SizeFacts
    <2> HIDE DEF m, K
    <2>2. K + 1 < m
      BY <1>1, <1>2, <2>1
    <2> QED
      BY <1>1, <1>2, <2>2, CountSteps DEF SlotsOK, m, K
  <1>5. cqHead' # cqTail'
    <2>1. SlotsOK' /\ Minus(cqTail', cqHead') # 0
      BY <1>2, <1>3, <1>4
    <2> QED
      BY <2>1, MinusFacts DEF SlotsOK
  <1>6. Unseen' = Append(Unseen, u)
    <2>1. /\ cqEntries \in Int /\ cqEntries > 0 /\ 2^Width % cqEntries = 0
          /\ cqes \in [0 .. cqEntries - 1 -> Data] /\ u \in Data
          /\ cqHead \in Indices /\ cqTail \in Indices
      BY <1>2, SizeFacts DEF SlotsOK, Data
    <2>2. Pushed(cqes, cqEntries, cqHead, cqTail, u)
      BY <2>1, WindowPush
    <2> DEFINE g == [cqes EXCEPT ![cqTail % cqEntries] = u]
    <2>3. Window(g, cqEntries, cqHead, K + 1) = Append(Window(cqes, cqEntries, cqHead, K), u)
      BY Zenon, <1>1, <2>2 DEF Pushed
    <2>4. g = cqes'
      BY <1>1 DEF CQSlot
    <2> HIDE DEF g, K
    <2>5. Unseen' = [i \in 1 .. Minus(cqTail', cqHead') |->
                       cqes'[(cqHead' + i - 1) % cqEntries]]
      BY DEF Unseen, CQSlot
    <2>6. Unseen' = [i \in 1 .. (K + 1) |-> g[(cqHead + i - 1) % cqEntries]]
      BY <1>1, <1>4, <2>4, <2>5 DEF K
    <2>7. Unseen' = Window(g, cqEntries, cqHead, K + 1)
      BY <2>6 DEF Window
    <2> QED
      BY <2>3, <2>7, Windows DEF K
  <1>7. Outstanding' = Outstanding
    BY <1>1 DEF Outstanding, SubmissionAlone
  <1> QED
    BY <1>2, <1>3, <1>5, <1>6, <1>7

(* What then remains of InOrder and InStep is about the consumer.          *)
LEMMA SubmissionKept ==
    ASSUME InOrder, InStep, SubmissionAlone,
           ~left' => /\ cpc' \in {"cqe", "read"} => cqHead' # cqTail'
                     /\ cpc' = "read" => held' = Unseen'[1]
    PROVE  InOrder' /\ InStep'
  BY DEF InOrder, InStep, SubmissionAlone

(* The kernel posts a CQE: one for a request that had none.                *)
LEMMA CompleteStep ==
    ASSUME RingInv, NEW u \in UserData, KComplete(u)
    PROVE  TypeOK' /\ InOrder' /\ InStep' /\ InSlots'
  <1> USE DEF RingInv
  <1>1. /\ life[u] = "inflight" /\ life' = [life EXCEPT ![u] = "posted"]
        /\ cqHead' = cqHead /\ SubmissionAlone
        /\ UNCHANGED <<cpc, held, late, cancelled, eventfd, kpc>>
    BY DEF KComplete, SubmissionAlone, subVars, sqShared, conVars, canVars
  <1>2. SlotsOK /\ SlotsOK' /\ cqHead' # cqTail'
    BY Types, CompleteQueue
  <1>3. Unseen' = Append(Unseen, u) /\ Outstanding' = Outstanding
    BY CompleteQueue
  <1>4. Unseen \in Seq(Data) /\ Len(Unseen) = Minus(cqTail, cqHead)
    BY <1>2, QueueTypes DEF QueueShapes
  <1>5. TypeOK'
    <2>1. TypeRest
      BY TypeSplit
    <2>2. TypeRest'
      BY <1>1, <2>1 DEF TypeRest, SubmissionAlone
    <2> QED
      BY <1>2, <2>2, TypeSplit
  <1>6. InOrder' /\ InStep'
    <2>1. ASSUME ~left', cpc' = "read" PROVE held' = Unseen'[1]
      <3>1. held = Unseen[1] /\ cqHead # cqTail
        BY <1>1, <2>1 DEF InStep, SubmissionAlone
      <3>2. Len(Unseen) > 0
        BY <1>2, <1>4, <3>1, Counts
      <3>3. u \in Data
        BY DEF Data
      <3> QED
        BY <1>1, <1>3, <1>4, <3>1, <3>2, <3>3
    <2> QED
      BY <1>1, <1>2, <2>1, SubmissionKept
  <1>7. InSlots'
    <2> SUFFICES ASSUME ~left' PROVE InSlots'
      BY DEF InSlots
    <2>1. /\ \A x \in UserData : life[x] # "twice"
          /\ {x \in UserData : life[x] = "queued"} = Contents(Outstanding)
          /\ {x \in UserData : life[x] = "posted"} = Contents(Unseen)
          /\ Distinct(Outstanding) /\ Distinct(Unseen)
      BY <1>1 DEF InSlots, SubmissionAlone
    <2>2. life \in [UserData -> {"free", "queued", "inflight", "posted", "twice"}]
      BY DEF TypeOK
    <2>3. u \in Data \ Contents(Unseen)
      BY <1>1, <2>1 DEF Data
    <2>4. /\ Distinct(Append(Unseen, u))
          /\ Contents(Append(Unseen, u)) = Contents(Unseen) \cup {u}
      BY <1>4, <2>1, <2>3, DistinctSteps
    <2>5. /\ {x \in UserData : life'[x] = "queued"} = Contents(Outstanding)
          /\ {x \in UserData : life'[x] = "posted"} = Contents(Unseen) \cup {u}
          /\ \A x \in UserData : life'[x] # "twice"
      BY <1>1, <2>1, <2>2
    <2>6. Distinct(Unseen') /\ Contents(Unseen') = Contents(Unseen) \cup {u}
      BY <1>3, <2>4
    <2> QED
      BY <1>3, <2>1, <2>5, <2>6 DEF InSlots, Distinct, Contents
  <1> QED
    BY <1>5, <1>6, <1>7

(* SeenCQE: the CQE that was read is the one whose slot is freed.          *)
LEMMA SeenStep ==
    ASSUME RingInv, SeenCQE
    PROVE  TypeOK' /\ InOrder' /\ InStep' /\ InSlots'
  <1> USE DEF RingInv
  <1> DEFINE K == Minus(cqTail, cqHead)
  <1>1. /\ cpc = "read" /\ cpc' = "idle" /\ cqHead' = Plus(cqHead, 1) /\ SubmissionAlone
        /\ life' = [life EXCEPT ![held] = IF life[held] = "posted" THEN "free" ELSE "twice"]
        /\ UNCHANGED <<cqTail, cqes, held, late, cancelled, eventfd, kpc>>
    BY DEF SeenCQE, SubmissionAlone, subVars, sqShared, canVars
  <1>2. SlotsOK /\ K \in Nat
    BY Types, Counts
  <1>3. SlotsOK'
    BY <1>1, <1>2, PlusFacts DEF SlotsOK, SubmissionAlone
  <1>4. TypeOK'
    <2>1. TypeRest
      BY TypeSplit
    <2>2. life' \in [UserData -> {"free", "queued", "inflight", "posted", "twice"}]
      BY Zenon, <1>1, <2>1 DEF TypeRest
    <2>3. TypeRest'
      BY <1>1, <2>1, <2>2 DEF TypeRest, SubmissionAlone
    <2> QED
      BY <1>3, <2>3, TypeSplit
  <1>5. InOrder' /\ InStep'
    BY <1>1, SubmissionKept
  <1>6. InSlots'
    <2> SUFFICES ASSUME ~left' PROVE InSlots'
      BY DEF InSlots
    <2>1. /\ \A x \in UserData : life[x] # "twice"
          /\ {x \in UserData : life[x] = "queued"} = Contents(Outstanding)
          /\ {x \in UserData : life[x] = "posted"} = Contents(Unseen)
          /\ Distinct(Outstanding) /\ Distinct(Unseen)
      BY <1>1 DEF InSlots, SubmissionAlone
    <2>2. life \in [UserData -> {"free", "queued", "inflight", "posted", "twice"}]
      BY DEF TypeOK
    <2>3. cqHead # cqTail /\ held = Unseen[1]
      BY <1>1 DEF InStep, SubmissionAlone
    <2>4. K > 0 /\ Minus(cqTail', cqHead') = K - 1
      <3>1. cqHead \in Indices /\ cqTail \in Indices
        BY <1>2 DEF SlotsOK
      <3> QED
        BY <1>1, <1>2, <2>3, <3>1, Counts, CountSteps
    <2>5. Unseen \in Seq(Data) /\ Len(Unseen) = K
      BY <1>2, QueueTypes DEF QueueShapes
    <2>6. Outstanding' = Outstanding
      BY <1>1 DEF Outstanding, SubmissionAlone
    <2> HIDE DEF K
    <2>7. Unseen' = Tail(Unseen)
      <3>1. /\ cqEntries \in Int /\ cqEntries > 0 /\ 2^Width % cqEntries = 0
            /\ cqes \in [0 .. cqEntries - 1 -> Data] /\ cqHead \in Indices /\ K \in Int
        BY <1>2, SizeFacts DEF SlotsOK
      <3>2. Popped(cqes, cqEntries, cqHead, K)
        BY Zenon, <2>4, <3>1, WindowPop
      <3>3. Unseen' = [i \in 1 .. Minus(cqTail', cqHead') |->
                         cqes'[(cqHead' + i - 1) % cqEntries]]
        BY DEF Unseen, CQSlot
      <3>4. Unseen' = [i \in 1 .. (K - 1) |-> cqes[(Plus(cqHead, 1) + i - 1) % cqEntries]]
        BY <1>1, <2>4, <3>3
      <3>5. Unseen' = Window(cqes, cqEntries, Plus(cqHead, 1), K - 1)
        BY <3>4 DEF Window
      <3> QED
        BY <3>2, <3>5, Windows DEF Popped, K
    <2>8. /\ held \in Contents(Unseen) /\ Distinct(Tail(Unseen))
          /\ Contents(Tail(Unseen)) = Contents(Unseen) \ {held}
      BY <2>1, <2>3, <2>4, <2>5, DistinctSteps
    <2>9. held \in UserData /\ life[held] = "posted" /\ life' = [life EXCEPT ![held] = "free"]
      BY Zenon, <1>1, <2>1, <2>8
    <2>10. /\ {x \in UserData : life'[x] = "queued"} = Contents(Outstanding)
           /\ {x \in UserData : life'[x] = "posted"} = Contents(Unseen) \ {held}
           /\ \A x \in UserData : life'[x] # "twice"
      BY <2>1, <2>2, <2>9
    <2>11. Distinct(Unseen') /\ Contents(Unseen') = Contents(Unseen) \ {held}
      BY <2>7, <2>8
    <2>12. Distinct(Outstanding') /\ Contents(Outstanding') = Contents(Outstanding)
      BY <2>1, <2>6
    <2> QED
      BY Zenon, <2>10, <2>11, <2>12 DEF InSlots, Distinct, Contents
  <1> QED
    BY <1>4, <1>5, <1>6

WaitStep == CallWait \/ CheckCancelled \/ LoadCQ \/ EpollWait \/ EpollInterrupted
            \/ PeekCQE \/ ReadCQE \/ CancelStore \/ CancelWake

(* WaitCQE up to SeenCQE, and Cancel: neither queue changes, and what is   *)
(* read is the oldest CQE.                                                 *)
LEMMA WaitKeeps ==
    ASSUME RingInv, WaitStep
    PROVE  TypeOK' /\ InOrder' /\ InStep' /\ InSlots'
  <1> USE DEF RingInv
  <1>1. /\ SubmissionAlone
        /\ UNCHANGED <<cqHead, cqTail, cqes, life>>
    BY Zenon DEF WaitStep, CallWait, CheckCancelled, LoadCQ, EpollWait, EpollInterrupted, PeekCQE,
           ReadCQE, CancelStore, CancelWake, SubmissionAlone, subVars, sqShared, cqShared
  <1>2. SlotsOK /\ SlotsOK' /\ TypeRest
    BY <1>1, Types, TypeSplit DEF SlotsOK, SubmissionAlone
  <1>3. Outstanding' = Outstanding /\ Unseen' = Unseen
    BY <1>1 DEF Outstanding, Unseen, SubmissionAlone
  <1>4. cqes[CQSlot(cqHead)] \in UserData \cup {NoData}
    <2>1. cqHead \in Int
      BY <1>2, SizeFacts DEF SlotsOK, Indices
    <2>2. cqHead % cqEntries \in 0 .. cqEntries - 1
      BY <2>1, SizeFacts, SlotFacts
    <2> QED
      BY <1>2, <2>2 DEF CQSlot, SlotsOK, Data
  <1>5. TypeOK'
    <2>1. /\ cpc' \in {"idle", "wait", "load", "epoll", "cqe", "read", "ErrCancelled"}
          /\ held' \in UserData \cup {NoData}
          /\ kpc' \in {"idle", "wake", "returned"}
      BY Zenon, <1>2, <1>4 DEF WaitStep, CallWait, CheckCancelled, LoadCQ, EpollWait,
           EpollInterrupted, PeekCQE, ReadCQE, CancelStore, CancelWake, TypeRest, conVars,
           canVars
    <2>2. late' \in BOOLEAN /\ cancelled' \in BOOLEAN /\ eventfd' \in BOOLEAN
      BY Zenon, <1>2 DEF WaitStep, CallWait, CheckCancelled, LoadCQ, EpollWait,
           EpollInterrupted, PeekCQE, ReadCQE, CancelStore, CancelWake, TypeRest, conVars,
           canVars
    <2>3. TypeRest'
      BY <1>1, <1>2, <2>1, <2>2 DEF TypeRest, SubmissionAlone
    <2> QED
      BY <1>2, <2>3, TypeSplit
  <1>6. InOrder' /\ InStep'
    <2>1. ASSUME ~left', cpc' \in {"cqe", "read"} PROVE cqHead # cqTail
      BY Zenon, <1>1, <2>1 DEF WaitStep, CallWait, CheckCancelled, LoadCQ, EpollWait,
           EpollInterrupted, PeekCQE, ReadCQE, CancelStore, CancelWake, conVars, InStep,
           SubmissionAlone
    <2>2. ASSUME ~left', cpc' = "read" PROVE held' = Unseen[1]
      <3>1. CASE ReadCQE
        <4>0. cqHead \in Int
          BY <1>2, SizeFacts DEF SlotsOK, Indices
        <4>1. Minus(cqTail, cqHead) \in Nat /\ Minus(cqTail, cqHead) > 0
          BY <1>2, <2>1, <2>2, Counts
        <4>2. 1 \in 1 .. Minus(cqTail, cqHead) /\ cqHead + 1 - 1 = cqHead
          BY <4>0, <4>1
        <4>3. Unseen[1] = cqes[CQSlot(cqHead)]
          BY <4>2 DEF Unseen
        <4> QED
          BY <3>1, <4>3 DEF ReadCQE
      <3>2. CASE ~ReadCQE
        <4>1. cpc = "read" /\ held' = held
          BY <2>2, <3>2 DEF WaitStep, CallWait, CheckCancelled, LoadCQ, EpollWait,
             EpollInterrupted, PeekCQE, CancelStore, CancelWake, conVars
        <4> QED
          BY <1>1, <2>2, <4>1 DEF InStep, SubmissionAlone
      <3> QED
        BY <3>1, <3>2
    <2> QED
      BY <1>1, <1>3, <2>1, <2>2, SubmissionKept
  <1>7. InSlots'
    BY <1>1, <1>3, SlotsAlone DEF SubmissionAlone
  <1> QED
    BY <1>5, <1>6, <1>7

(* Cancel and WaitCQE keep their order, the other steps leave it alone.    *)
LEMMA FlagStep ==
    ASSUME RingInv, [Next]_vars
    PROVE  FlagFirst'
  <1>1. FlagFirst /\ cancelled \in BOOLEAN /\ late \in BOOLEAN
    BY DEF RingInv, TypeOK
  <1>1a. ASSUME UNCHANGED <<kpc, cancelled, late>>,
                cpc' \notin {"load", "epoll", "cqe"} \/ UNCHANGED cpc
         PROVE  FlagFirst'
    BY <1>1a, <1>1 DEF FlagFirst
  <1>2. CASE CallWait \/ CheckCancelled \/ LoadCQ \/ EpollWait \/ EpollInterrupted
    BY <1>1, <1>2 DEF CallWait, CheckCancelled, LoadCQ, EpollWait, EpollInterrupted, FlagFirst,
       canVars
  <1>3. CASE PeekCQE \/ ReadCQE \/ SeenCQE
    <2>1. CASE PeekCQE
      BY <1>1, <2>1 DEF PeekCQE, FlagFirst, canVars
    <2>2. CASE ReadCQE
      BY <1>1a, <2>2 DEF ReadCQE, canVars
    <2>3. CASE SeenCQE
      BY <1>1a, <2>3 DEF SeenCQE, canVars
    <2> QED
      BY <1>3, <2>1, <2>2, <2>3
  <1>4. CASE CancelStore \/ CancelWake
    BY <1>1, <1>4 DEF CancelStore, CancelWake, FlagFirst, conVars
  <1>5. CASE Submitter \/ Kernel
    <2>1. UNCHANGED <<kpc, cancelled, late, cpc>>
      BY Zenon, <1>5 DEF Submitter, Kernel, GetSQE, GetSQENil, Submit, SubmitAndWait,
         EnterReturns, KConsume, KComplete, canVars, conVars
    <2> QED
      BY <1>1a, <2>1
  <1>6. CASE UNCHANGED vars
    BY <1>1, <1>6 DEF vars, canVars, conVars, FlagFirst
  <1> QED
    BY <1>2, <1>3, <1>4, <1>5, <1>6 DEF Next, Consumer, Waiting, Canceller

(* The invariant of the ring, for every number of entries, every width of  *)
(* the indices, and whatever io_uring_enter returns.                       *)
THEOREM RingInvHolds == Spec => []RingInv
  <1>1. Init => RingInv
    <2> SUFFICES ASSUME Init PROVE RingInv
      OBVIOUS
    <2>1. 0 \in Indices
      BY SizeFacts DEF Indices
    <2>2. SlotsOK
      <3>1. sqEntries \in Nat /\ cqEntries \in Nat
        BY SizeFacts
      <3> QED
        BY <2>1, <3>1 DEF Init, SlotsOK, Data
    <2>3. /\ Minus(sqeLocalTail, sqHead) = 0 /\ Minus(cqTail, cqHead) = 0
          /\ Minus(sqeLocalTail, sqeLocalHead) = 0 /\ Minus(sqTail, sqHead) = 0
      BY <2>2, Counts DEF Init
    <2>4. TypeRest
      <3>1. 0 \in 0 .. sqEntries - 1
        BY SizeFacts
      <3>2. sqArray \in [0 .. sqEntries - 1 -> 0 .. sqEntries - 1]
        BY <3>1 DEF Init
      <3>3. {cancelled, eventfd, late, left} \subseteq BOOLEAN
        BY Zenon DEF Init
      <3>4. want \in Nat /\ got \in 0 .. want /\ want - got <= 0
        BY DEF Init
      <3>5. life \in [UserData -> {"free", "queued", "inflight", "posted", "twice"}]
        BY DEF Init
      <3> QED
        BY <2>3, <3>2, <3>3, <3>4, <3>5 DEF Init, TypeRest
    <2>5. DOMAIN Outstanding = {} /\ DOMAIN Unseen = {}
      BY <2>2, <2>3, QueueTypes DEF QueueShapes
    <2>6. InSlots
      BY <2>5 DEF InSlots, Distinct, Contents, Init
    <2>7. InOrder /\ InStep /\ FlagFirst
      BY <2>3, SizeFacts DEF Init, InOrder, InStep, FlagFirst
    <2> QED
      BY <2>2, <2>4, <2>6, <2>7, TypeSplit DEF RingInv
  <1>2. RingInv /\ [Next]_vars => RingInv'
    <2> SUFFICES ASSUME RingInv, [Next]_vars PROVE TypeOK' /\ InOrder' /\ InStep' /\ InSlots'
      BY FlagStep DEF RingInv
    <2>1. CASE Submitter
      BY <2>1, GetStep, NilStep, FlushStep, EnterStep DEF Submitter
    <2>2. CASE Kernel
      BY <2>2, ConsumeStep, CompleteStep DEF Kernel
    <2>3. CASE Consumer \/ Canceller
      BY <2>3, WaitKeeps, SeenStep DEF Consumer, Waiting, Canceller, WaitStep
    <2>4. CASE UNCHANGED vars
      <3>1. UNCHANGED <<sqeLocalHead, sqeLocalTail, spc, want, got, left, sqHead, sqTail,
                        sqArray, sqes, cqHead, cqTail, cqes, cpc, held, late, cancelled,
                        eventfd, kpc, life>>
        BY <2>4 DEF vars, subVars, sqShared, cqShared, conVars, canVars
      <3>2. UNCHANGED <<Outstanding, Unseen, life, left>>
        BY Zenon, <3>1 DEF Outstanding, Unseen
      <3>3. InSlots'
        BY <3>2, SlotsAlone DEF RingInv
      <3>4. SubmissionAlone
        BY Zenon, <3>1 DEF SubmissionAlone
      <3>6. ~left' => /\ cpc' \in {"cqe", "read"} => cqHead' # cqTail'
                      /\ cpc' = "read" => held' = Unseen'[1]
        BY <3>1, <3>2 DEF RingInv, InStep
      <3>7. InOrder' /\ InStep'
        BY <3>4, <3>6, SubmissionKept DEF RingInv
      <3>5. TypeOK'
        BY Zenon, <3>2, <3>1 DEF RingInv, TypeOK
      <3> QED
        BY <3>3, <3>5, <3>7
    <2> QED
      BY <2>1, <2>2, <2>3, <2>4 DEF Next
  <1> QED
    BY <1>1, <1>2, PTL DEF Spec

(* A call of WaitCQE made after Cancel returned yields no CQE.             *)
THEOREM CancelSticksHolds == Spec => []CancelSticks
  <1>1. RingInv => CancelSticks
    BY DEF RingInv, FlagFirst, CancelSticks
  <1> QED
    BY <1>1, RingInvHolds, PTL

(* A queue of different elements is as long as the set of its elements.    *)
LEMMA CountDistinct ==
    ASSUME NEW S, NEW s \in Seq(S), Distinct(s)
    PROVE  Cardinality(Contents(s)) = Len(s)
  <1>1. s \in [1 .. Len(s) -> Contents(s)] /\ Len(s) \in Nat /\ DOMAIN s = 1 .. Len(s)
    BY DEF Contents
  <1>2. s \in Bijection(1 .. Len(s), Contents(s))
    BY <1>1 DEF Bijection, Injection, IsInjective, Surjection, Distinct, Contents
  <1>3. ExistsBijection(1 .. Len(s), Contents(s))
    BY <1>2 DEF ExistsBijection
  <1> QED
    BY <1>1, <1>3, FS_CountingElements

(* Every SQE is consumed once and every CQE seen once, over any number of  *)
(* wrap-arounds, as long as io_uring_enter takes whole batches.            *)
THEOREM ExactlyOnceHolds == Spec => []ExactlyOnce
  <1>1. RingInv => ExactlyOnce
    <2> SUFFICES ASSUME RingInv, ~left PROVE ExactlyOnce
      BY DEF ExactlyOnce
    <2>1. /\ \A u \in UserData : life[u] # "twice"
          /\ {u \in UserData : life[u] = "queued"} = Contents(Outstanding)
          /\ {u \in UserData : life[u] = "posted"} = Contents(Unseen)
          /\ Distinct(Outstanding)
      BY DEF RingInv, InSlots
    <2>2. Outstanding \in Seq(Data)
      BY Types, QueueTypes DEF RingInv, QueueShapes
    <2>3. Cardinality(Contents(Outstanding)) = Len(Outstanding)
      BY <2>1, <2>2, CountDistinct
    <2> QED
      BY Zenon, <2>1, <2>3 DEF ExactlyOnce, Contents
  <1> QED
    BY <1>1, RingInvHolds, PTL

-----------------------------------------------------------------------------
(* Each step of the ring is the step of the queue, or none.                *)
LEMMA FifoStep ==
    ASSUME RingInv, [Next]_vars
    PROVE  [Fifo!FifoNext(UserData)]_(Fifo!sqVars)
  <1> DEFINE O == Minus(sqeLocalTail, sqHead)
             U == Minus(sqeLocalTail, sqeLocalHead)
             V == Minus(sqeLocalTail, HeadSeen)
  <1>0. /\ TypeOK /\ InOrder /\ SlotsOK /\ O \in Nat /\ U \in Nat /\ sqEntries \in Nat
        /\ want \in Nat /\ got \in Nat
        /\ Outstanding \in Seq(Data) /\ Len(Outstanding) = O /\ DOMAIN Outstanding = 1 .. O
        /\ spc = "idle" => want = 0
    BY Types, Counts, QueueTypes, SizeFacts DEF RingInv, QueueShapes, InOrder
  <1>1. ASSUME NEW u \in UserData, GetSQE(u) PROVE want = 0 /\ Fifo!PushSQE(u)
    <2>1. /\ O' = O + 1 /\ U' = V + 1 /\ V < sqEntries /\ want = 0 /\ UNCHANGED <<want, got>>
      BY Zenon, <1>0, <1>1, GetCounts DEF GetSQE
    <2>2. V = IF U >= sqEntries THEN O ELSE U
      BY DEF HeadSeen
    <2>3. /\ Outstanding' = Append([i \in 1 .. O |->
                                      IF (O + 1 - i) % sqEntries = 0 THEN u
                                      ELSE Outstanding[i]], u)
          /\ O < sqEntries => Outstanding' = Append(Outstanding, u)
      BY <1>0, <1>1, GetQueue
    <2> HIDE DEF O, U, V
    <2>4. ~(U >= sqEntries /\ O >= sqEntries) /\ U' = 1 + (IF U >= sqEntries THEN O ELSE U)
      BY <1>0, <2>1, <2>2
    <2>5. Outstanding' = Append(IF O < sqEntries THEN Outstanding
                                ELSE [i \in 1 .. O |-> IF (O + 1 - i) % sqEntries = 0 THEN u
                                                       ELSE Outstanding[i]], u)
      BY Zenon, <2>3
    <2>6. Outstanding' = Fifo!Fill(u)
      BY <1>0, <2>5 DEF Fifo!Fill
    <2> QED
      BY <1>0, <2>1, <2>4, <2>6 DEF Fifo!PushSQE, Fifo!SQFull, O, U
  <1>2. ASSUME GetSQENil PROVE want = 0 /\ Fifo!NilSQE
    <2>1. /\ V >= sqEntries /\ want = 0 /\ U' = V
          /\ UNCHANGED <<want, got, Outstanding>>
      BY <1>0, <1>2 DEF GetSQENil, sqShared, Outstanding
    <2>2. V = IF U >= sqEntries THEN O ELSE U
      BY DEF HeadSeen
    <2> HIDE DEF O, U, V
    <2>3. U >= sqEntries /\ O >= sqEntries /\ U' = O
      BY <1>0, <2>1, <2>2
    <2> QED
      BY <1>0, <2>1, <2>3 DEF Fifo!NilSQE, Fifo!SQFull, U
  <1>3. ASSUME Submit \/ SubmitAndWait PROVE want = 0 /\ Fifo!FlushSQ
    <2>1. /\ want = 0 /\ want' = U /\ got' = 0 /\ sqeLocalHead' = sqeLocalTail
          /\ UNCHANGED <<sqeLocalTail, sqHead, sqes>>
      BY Zenon, <1>0, <1>3 DEF Submit, SubmitAndWait, FlushSQ
    <2>2. U' = 0
      BY <1>0, <2>1, MinusFacts DEF SlotsOK
    <2>3. UNCHANGED Outstanding
      BY <2>1 DEF Outstanding
    <2> QED
      BY <2>1, <2>2, <2>3 DEF Fifo!FlushSQ
  <1>4. ASSUME EnterReturns PROVE Fifo!EnterReturns
    BY <1>4 DEF EnterReturns, Fifo!EnterReturns, sqShared, Outstanding
  <1>5. ASSUME KConsume PROVE Fifo!ConsumeSQE
    <2>1. O > 0 /\ Outstanding' = Tail(Outstanding)
      BY <1>0, <1>5, ConsumeQueue
    <2>2. Outstanding # <<>>
      BY <1>0, <2>1
    <2> QED
      BY <1>5, <2>1, <2>2 DEF KConsume, Fifo!ConsumeSQE
  <1>6. ASSUME SubmissionAlone PROVE UNCHANGED Fifo!sqVars
    BY <1>6 DEF SubmissionAlone, Fifo!sqVars, Outstanding
  <1>7. CASE Submitter \/ KConsume
    BY <1>1, <1>2, <1>3, <1>4, <1>5, <1>7 DEF Submitter, Fifo!FifoNext
  <1>8. CASE (\E u \in UserData : KComplete(u)) \/ Consumer \/ Canceller \/ UNCHANGED vars
    <2>1. SubmissionAlone
      BY Zenon, <1>8 DEF KComplete, Consumer, Waiting, Canceller, CallWait, CheckCancelled, LoadCQ,
         EpollWait, EpollInterrupted, PeekCQE, ReadCQE, SeenCQE, CancelStore, CancelWake, vars,
         SubmissionAlone, subVars, sqShared
    <2> QED
      BY <1>6, <2>1
  <1> QED
    BY <1>7, <1>8 DEF Next, Kernel

(* Index by index the submission ring is the queue of module RingFifo, on  *)
(* which the models of the worker and of the control path are built: also  *)
(* across wrap-arounds, short submits and failed calls of io_uring_enter.  *)
THEOREM RingIsFifo == Spec => ImplementsFifo
  <1>1. Init => Fifo!FifoInit
    <2> SUFFICES ASSUME Init PROVE Fifo!FifoInit
      OBVIOUS
    <2>1. 0 \in Indices
      BY SizeFacts DEF Indices
    <2>2. Minus(0, 0) = 0
      BY <2>1, MinusFacts
    <2>3. Outstanding = <<>>
      BY <2>2 DEF Init, Outstanding
    <2> QED
      BY <2>2, <2>3 DEF Init, Fifo!FifoInit
  <1>2. RingInv /\ [Next]_vars => [Fifo!FifoNext(UserData)]_(Fifo!sqVars)
    BY FifoStep
  <1> QED
    BY <1>1, <1>2, RingInvHolds, PTL DEF Spec, ImplementsFifo
=============================================================================
