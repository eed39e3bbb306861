--------------------------- MODULE SocketsProofs ---------------------------
(***************************************************************************)
(* For every number of sockets and processes, every size of the ring       *)
(* buffers and of the pointers that run over them: the bytes of each       *)
(* direction are delivered once and in order, and, of programs and peers   *)
(* that keep the rules, what the calls return is so and the driver reaches *)
(* nothing that is not there.                                              *)
(*                                                                         *)
(* The first part is about one ring buffer: byte number j lies in cell     *)
(* j % BufferSize, and the pointers are the numbers of the next byte to    *)
(* read and to write, modulo RegModulus.  The second is about events: who  *)
(* is woken by which, and what it finds.                                   *)
(***************************************************************************)
EXTENDS Sockets, TLAPS, FiniteSetTheorems, WellFoundedInduction

States  == {"CLOSED", "INIT", "LISTEN", "SYNSENT"} \cup Connected
Buffers == [mem : [Cells -> Int], rd : Pointers, wr : Pointers]
Chips   == [sr : States, ir : SUBSET Events, rx : Buffers, tx : Buffers]
Processes ==
  [state : {"running", "gone"}, call : {"none"}, sock : {0}, count : {0}]
  \cup [state : {"asleep", "ready"}, call : {"accept", "connect", "read"},
        sock : Socks, count : Nat]
Counters == [received : Nat, read : Nat, written : Nat, sent : Nat]

Typed ==
  /\ chip \in [Socks -> Chips]
  /\ edge \in {"high", "fell", "due"}
  /\ taken \in [Socks -> Procs \cup {Nobody}]
  /\ waiting \in [Socks -> Procs \cup {Nobody}]
  /\ recorded \in [Socks -> SUBSET (Events \ {"SENDOK"})]
  /\ proc \in [Procs -> Processes]
  /\ bytes \in [Socks -> Counters]
  /\ usable \in [Socks -> BOOLEAN]
  /\ truthful \in BOOLEAN /\ ordered \in BOOLEAN

\* The buffer holds the bytes from number `from' on, up to but not with `to'.
Holds(buffer, from, to) ==
  /\ buffer.rd = from % RegModulus /\ buffer.wr = to % RegModulus
  /\ to - from \in 0 .. BufferSize
  /\ \A j \in from .. to - 1 : buffer.mem[j % BufferSize] = j

Rings ==
  \A s \in Socks : /\ Holds(chip[s].rx, bytes[s].read, bytes[s].received)
                   /\ Holds(chip[s].tx, bytes[s].sent, bytes[s].written)

\* The inductive invariant of the data.
Data == Typed /\ Rings /\ ordered

-----------------------------------------------------------------------------
(* Remainders                                                              *)

\* What the assumption on the constants gives.
LEMMA Constants ==
  /\ BufferSize \in Nat \ {0} /\ RegModulus \in Nat \ {0} /\ RegModulus > BufferSize
  /\ RegModulus % BufferSize = 0
  /\ Socks \subseteq Nat \ {0} /\ Nobody \notin Procs
  BY SocketsAssumption DEF Socks

\* And the length of a read or a write.
LEMMA Lengths ==
  ASSUME NEW n \in 1 .. BufferSize
  PROVE  n \in Nat /\ n # 0 /\ \A m \in Nat : n <= m => ~(n > m)
  BY Constants

\* A number is its quotient and its remainder.
LEMMA Euclid ==
  ASSUME NEW b \in Nat \ {0}, NEW x \in Int
  PROVE  \E q \in Int : x = b * q + (x % b) /\ x % b \in 0 .. b - 1
  <1>1. x % b \in 0 .. b - 1
    OBVIOUS
  <1>2. x \div b \in Int
    OBVIOUS
  <1>3. x = b * (x \div b) + (x % b)
    OBVIOUS
  <1> QED
    BY <1>1, <1>2, <1>3

\* And its remainder is the only one.
LEMMA Remainder ==
  ASSUME NEW b \in Nat \ {0}, NEW q \in Int, NEW r \in 0 .. b - 1
  PROVE  (b * q + r) % b = r
  OBVIOUS

\* Multiples of b do not count.
LEMMA Shift ==
  ASSUME NEW b \in Nat \ {0}, NEW x \in Int, NEW q \in Int
  PROVE  (x + b * q) % b = x % b
  <1>1. PICK d \in Int : x = b * d + (x % b) /\ x % b \in 0 .. b - 1
    BY Euclid
  <1>2. x + b * q = b * (d + q) + (x % b)
    <2>1. b * (d + q) = b * d + b * q
      OBVIOUS
    <2> QED
      BY <1>1, <2>1
  <1>3. (b * (d + q) + (x % b)) % b = x % b
    <2>1. d + q \in Int
      OBVIOUS
    <2> QED
      BY <1>1, <2>1, Remainder
  <1> QED
    BY <1>2, <1>3

\* The remainder of a remainder, for a modulus that divides the other.
LEMMA RemainderTwice ==
  ASSUME NEW b \in Nat \ {0}, NEW m \in Nat \ {0}, m % b = 0, NEW x \in Int
  PROVE  (x % m) % b = x % b
  <1>1. PICK d \in Int : x = m * d + (x % m) /\ x % m \in 0 .. m - 1
    BY Euclid
  <1>2. PICK e \in Int : m = b * e
    <2>1. m \in Int
      OBVIOUS
    <2>2. PICK e \in Int : m = b * e + (m % b)
      BY <2>1, Euclid
    <2> QED
      BY <2>2
  <1>3. m * d = b * (e * d) /\ e * d \in Int
    BY <1>2
  <1>4. x = (x % m) + b * (e * d) /\ x % m \in Int
    BY <1>1, <1>3
  <1>5. ((x % m) + b * (e * d)) % b = (x % m) % b
    BY <1>3, <1>4, Shift
  <1> QED
    BY <1>4, <1>5

\* A remainder may be taken before an addition.
LEMMA RemainderPlus ==
  ASSUME NEW b \in Nat \ {0}, NEW x \in Int, NEW y \in Int
  PROVE  ((x % b) + y) % b = (x + y) % b
  <1>1. PICK d \in Int : x = b * d + (x % b) /\ x % b \in 0 .. b - 1
    BY Euclid
  <1>2. x + y = ((x % b) + y) + b * d /\ (x % b) + y \in Int
    BY <1>1
  <1>3. (((x % b) + y) + b * d) % b = ((x % b) + y) % b
    BY <1>2, Shift
  <1> QED
    BY <1>2, <1>3

-----------------------------------------------------------------------------
(* One ring buffer                                                         *)

\* The pointers are as far apart as the numbers they stand for.
LEMMA DistanceOf ==
  ASSUME NEW from \in Nat, NEW to \in Nat, to - from \in 0 .. BufferSize
  PROVE  Distance(from % RegModulus, to % RegModulus) = to - from
  <1> DEFINE M == RegModulus
             d == to - from
             f == from % M
  <1>1. /\ M \in Nat \ {0} /\ d \in 0 .. M - 1 /\ f \in 0 .. M - 1
        /\ f = from % M /\ from \in Int /\ from + d = to
    BY Constants
  <1> HIDE DEF d, f, M
  <1>2. to % M = (f + d) % M
    <2>1. d \in Int
      BY <1>1
    <2>2. ((from % M) + d) % M = (from + d) % M
      BY <1>1, <2>1, RemainderPlus
    <2> QED
      BY <1>1, <2>2
  <1>3. CASE f + d < M
    <2>1. to % M = f + d
      <3>1. f + d \in Int /\ f + d \in 0 .. M - 1
        BY <1>1, <1>3
      <3> QED
        BY <1>1, <1>2, <3>1
    <2>2. (to % M) - f + M = d + M /\ d + M \in M .. 2 * M - 1
      BY <1>1, <2>1
    <2>3. (d + M) % M = d
      BY <1>1, <2>2
    <2> QED
      BY <2>2, <2>3 DEF Distance, M, f, d
  <1>4. CASE f + d >= M
    <2>1. to % M = f + d - M
      <3>1. f + d \in Int /\ f + d \in M .. 2 * M - 1
        BY <1>1, <1>4
      <3> QED
        BY <1>1, <1>2, <3>1
    <2>2. (to % M) - f + M = d
      BY <1>1, <2>1
    <2>3. d % M = d
      BY <1>1
    <2> QED
      BY <2>2, <2>3 DEF Distance, M, f, d
  <1> QED
    BY <1>1, <1>3, <1>4

\* The cell the pointer for byte number j leads to, and the k-th after it.
LEMMA CellOf ==
  ASSUME NEW j \in Nat, NEW k \in Int
  PROVE  /\ ((j % RegModulus) + k) % BufferSize = (j + k) % BufferSize
         /\ (j % RegModulus) % BufferSize = j % BufferSize
         /\ ((j % RegModulus) + k) % RegModulus = (j + k) % RegModulus
         /\ j % BufferSize \in Cells
  <1> DEFINE M == RegModulus
             B == BufferSize
  <1>1. B \in Nat \ {0} /\ M \in Nat \ {0} /\ M % B = 0 /\ j \in Int
    BY Constants
  <1> HIDE DEF M, B
  <1>2. (j % M) % B = j % B
    BY <1>1, RemainderTwice
  <1>3. ((j % M) + k) % B = (((j % M) % B) + k) % B
    <2>1. j % M \in Int
      BY <1>1
    <2> QED
      BY <1>1, <2>1, RemainderPlus
  <1>4. ((j % B) + k) % B = (j + k) % B
    BY <1>1, RemainderPlus
  <1>5. ((j % M) + k) % M = (j + k) % M
    BY <1>1, RemainderPlus
  <1>6. j % B \in 0 .. B - 1
    BY <1>1
  <1> QED
    BY <1>2, <1>3, <1>4, <1>5, <1>6 DEF M, B, Cells

\* n bytes from number first on.
Run(first, n) == [k \in 1 .. n |-> first + k - 1]

\* A run of byte numbers is in order.
LEMMA RunFacts ==
  ASSUME NEW first \in Nat, NEW n \in Nat
  PROVE  /\ Len(Run(first, n)) = n /\ InOrder(Run(first, n), first)
         /\ Run(first, n) = <<>> <=> n = 0
         /\ Run(first, n) \in Seq(Nat)
  <1>1. Run(first, n) \in Seq(Nat)
    BY DEF Run
  <1>2. Len(Run(first, n)) = n
    BY DEF Run
  <1>3. InOrder(Run(first, n), first)
    BY DEF Run, InOrder
  <1> QED
    BY <1>1, <1>2, <1>3

\* What the transmission of a buffer puts on the wire.
LEMMA OutgoingOf ==
  ASSUME NEW b \in Buffers, NEW from \in Nat, NEW to \in Nat, Holds(b, from, to)
  PROVE  Outgoing(b) = Run(from, to - from)
  <1>1. /\ b.rd = from % RegModulus /\ b.wr = to % RegModulus
        /\ to - from \in 0 .. BufferSize
    BY DEF Holds
  <1>2. Distance(b.rd, b.wr) = to - from
    BY <1>1, DistanceOf
  <1>3. ASSUME NEW k \in 1 .. to - from
        PROVE  b.mem[(b.rd + k - 1) % BufferSize] = from + k - 1
    <2>1. /\ k - 1 \in Int /\ b.rd + k - 1 = (from % RegModulus) + (k - 1)
          /\ from + (k - 1) = from + k - 1 /\ from + k - 1 \in from .. to - 1
      BY <1>1, Constants
    <2>2. (b.rd + k - 1) % BufferSize = (from + k - 1) % BufferSize
      BY <2>1, CellOf
    <2> QED
      BY <2>1, <2>2 DEF Holds
  <1> QED
    BY <1>2, <1>3 DEF Outgoing, Run

\* n bytes come in behind the others.
LEMMA StoredHolds ==
  ASSUME NEW b \in Buffers, NEW from \in Nat, NEW to \in Nat, Holds(b, from, to),
         NEW n \in Nat, to + n - from <= BufferSize
  PROVE  Stored(b, to, n) \in Buffers /\ Holds(Stored(b, to, n), from, to + n)
  <1> DEFINE B == BufferSize
             M == RegModulus
             u == Stored(b, to, n)
             K(c) == Distance(b.wr % B, c) % B
  <1>1. /\ b.rd = from % M /\ b.wr = to % M /\ to - from \in 0 .. B
        /\ \A j \in from .. to - 1 : b.mem[j % B] = j
        /\ B \in Nat \ {0} /\ M \in Nat \ {0} /\ M % B = 0 /\ M > B
        /\ M \in Int /\ to \in Int /\ n \in Int
    BY Constants DEF Holds
  <1>2. b.wr % B = to % B
    BY <1>1, CellOf
  <1>3. /\ u.mem = [c \in Cells |-> IF K(c) < n THEN to + K(c) ELSE b.mem[c]]
        /\ u.rd = b.rd /\ u.wr = (b.wr + n) % M
    BY DEF Stored
  <1>4. u.wr = (to + n) % M
    <2>1. ((to % RegModulus) + n) % RegModulus = (to + n) % RegModulus
      BY <1>1, CellOf
    <2> QED
      BY <1>1, <1>3, <2>1
  <1> HIDE DEF u
  <1>5. ASSUME NEW c \in Cells
        PROVE  K(c) = (c - (to % B)) % B /\ K(c) \in Nat
    <2>1. c \in Int /\ to % B \in Int /\ c - (to % B) \in Int
      BY <1>1 DEF Cells
    <2>2. K(c) = ((c - (to % B) + M) % M) % B
      BY <1>2 DEF Distance
    <2>3. ((c - (to % B) + M) % M) % B = (c - (to % B) + M) % B
      <3>1. c - (to % B) + M \in Int
        BY <1>1, <2>1
      <3> HIDE DEF B, M
      <3> QED
        BY <1>1, <3>1, RemainderTwice
    <2>4. (c - (to % B) + M) % B = (c - (to % B)) % B
      <3>1. PICK q \in Int : M = B * q + (M % B)
        BY <1>1, Euclid
      <3> HIDE DEF B, M
      <3>2. (c - (to % B) + B * q) % B = (c - (to % B)) % B
        BY <1>1, <2>1, <3>1, Shift
      <3>3. M = B * q
        BY <1>1, <3>1
      <3> QED
        BY <3>2, <3>3
    <2>5. (c - (to % B)) % B \in Nat
      BY <1>1, <2>1
    <2> QED
      BY <2>2, <2>3, <2>4, <2>5
  <1>6. ASSUME NEW j \in Nat
        PROVE  j % B \in Cells /\ K(j % B) = (j - to) % B
    <2>1. j % B \in Cells /\ j % B \in Int /\ to % B \in Int /\ j \in Int
          /\ 0 - (to % B) \in Int
      BY <1>1, CellOf DEF Cells
    <2>2. K(j % B) = ((j % B) - (to % B)) % B
      BY <1>5, <2>1
    <2> HIDE DEF B, M, K
    <2>3. ((j % B) + (0 - (to % B))) % B = (j + (0 - (to % B))) % B
      BY <1>1, <2>1, RemainderPlus
    <2>4. (j - (to % B)) % B = (j - to) % B
      <3>1. PICK q \in Int : to = B * q + (to % B)
        BY <1>1, Euclid
      <3>2. j - (to % B) = (j - to) + B * q /\ j - to \in Int
        BY <1>1, <2>1, <3>1
      <3>3. ((j - to) + B * q) % B = (j - to) % B
        BY <1>1, <3>1, <3>2, Shift
      <3> QED
        BY <3>2, <3>3
    <2>5. /\ (j % B) + (0 - (to % B)) = (j % B) - (to % B)
          /\ j + (0 - (to % B)) = j - (to % B)
      BY <2>1
    <2> QED
      BY <2>1, <2>2, <2>3, <2>4, <2>5
  <1>7. ASSUME NEW j \in from .. to + n - 1
        PROVE  u.mem[j % B] = j
    <2>1. j \in Nat /\ j % B \in Cells /\ K(j % B) = (j - to) % B
      BY <1>6
    <2>2. u.mem[j % B] = IF K(j % B) < n THEN to + K(j % B) ELSE b.mem[j % B]
      BY <1>3, <2>1
    <2> HIDE DEF K, B
    <2>3. CASE j >= to
      <3>1. j - to \in 0 .. B - 1 /\ j - to < n
        BY <1>1, <2>1, <2>3 DEF B
      <3>2. (j - to) % B = j - to
        BY <1>1, <3>1
      <3> QED
        BY <2>1, <2>2, <3>1, <3>2
    <2>4. CASE j < to
      <3>1. j - to + B \in 0 .. B - 1 /\ j - to + B >= n /\ j \in from .. to - 1
        BY <1>1, <2>1, <2>4 DEF B
      <3>2. (j - to) % B = j - to + B
        BY <1>1, <2>1, <3>1, SMTT(60)
      <3> QED
        BY <1>1, <2>1, <2>2, <3>1, <3>2
    <2> QED
      BY <2>1, <2>3, <2>4
  <1>8. u \in Buffers
    <2>1. b.mem \in [Cells -> Int] /\ b.rd \in Pointers
      BY DEF Buffers
    <2>2. u.wr \in Pointers
      BY <1>1, <1>4 DEF Pointers
    <2>3. u.mem \in [Cells -> Int]
      BY <1>3, <1>5, <2>1
    <2>4. u = [mem |-> u.mem, rd |-> u.rd, wr |-> u.wr]
      BY DEF u, Stored
    <2> QED
      BY <1>3, <2>1, <2>2, <2>3, <2>4 DEF Buffers
  <1>9. Holds(u, from, to + n)
    <2>1. to + n - from \in 0 .. B
      BY <1>1
    <2> HIDE DEF K
    <2>2. \A j \in from .. (to + n) - 1 : u.mem[j % B] = j
      BY <1>7
    <2>3. u.rd = from % M /\ u.wr = (to + n) % M
      BY <1>1, <1>3, <1>4
    <2> QED
      BY <2>1, <2>2, <2>3 DEF Holds
  <1> QED
    BY <1>8, <1>9 DEF u

\* A frame is written behind the others, as tx_frame does it.
Framed(b, frame) ==
  [b EXCEPT !.mem = write_txbuf(b, frame),
            !.wr = add_to_socket_pointer_reg(@, Len(frame))]

\* Bytes put behind the others leave the ring buffer in order.
LEMMA FramedHolds ==
  ASSUME NEW b \in Buffers, NEW from \in Nat, NEW to \in Nat, Holds(b, from, to),
         NEW n \in Nat, to + n - from <= BufferSize
  PROVE  LET u == Framed(b, Run(to, n)) IN u \in Buffers /\ Holds(u, from, to + n)
  <1> DEFINE B == BufferSize
             M == RegModulus
             frame == Run(to, n)
             mem == write_txbuf(b, frame)
             wr == (b.wr + n) % M
             u == Framed(b, frame)
             o == to % B
  <1>1. /\ b.rd = from % M /\ b.wr = to % M /\ to - from \in 0 .. B
        /\ \A j \in from .. to - 1 : b.mem[j % B] = j
        /\ B \in Nat \ {0} /\ M \in Nat \ {0} /\ M > B
        /\ to \in Int /\ n \in Int /\ n <= B
    BY Constants DEF Holds
  <1>2. b.wr % B = o /\ o \in 0 .. B - 1
    BY <1>1, CellOf
  <1>3. Len(frame) = n /\ \A k \in 1 .. n : frame[k] = to + k - 1
    BY RunFacts DEF Run
  <1>4. wr = (to + n) % M
    <2>1. ((to % RegModulus) + n) % RegModulus = (to + n) % RegModulus
      BY <1>1, CellOf
    <2> QED
      BY <1>1, <2>1
  <1>5. u.mem = mem /\ u.rd = b.rd /\ u.wr = wr /\ u = [b EXCEPT !.mem = mem, !.wr = wr]
    BY <1>3 DEF Framed, add_to_socket_pointer_reg, Buffers
  <1>6. mem = [c \in Cells |->
                 IF c - o \in 0 .. n - 1 THEN frame[c - o + 1]
                 ELSE IF c < o + n - B THEN frame[B - o + c + 1]
                 ELSE b.mem[c]]
    BY <1>2, <1>3 DEF write_txbuf
  <1> HIDE DEF mem, wr, u, o
  <1>7. ASSUME NEW c \in Cells
        PROVE  mem[c] = IF c - o \in 0 .. n - 1 THEN to + (c - o)
                        ELSE IF c < o + n - B THEN to + (c - o + B)
                        ELSE b.mem[c]
    <2>1. c \in 0 .. B - 1 /\ c \in Int
      BY DEF Cells
    <2>2. c - o \in 0 .. n - 1 => frame[c - o + 1] = to + (c - o)
      <3> SUFFICES ASSUME c - o \in 0 .. n - 1
                   PROVE  frame[c - o + 1] = to + (c - o)
        OBVIOUS
      <3> DEFINE k == c - o + 1
      <3>1. k \in 1 .. n /\ to + k - 1 = to + (c - o)
        BY <1>1, <1>2, <2>1
      <3> HIDE DEF k
      <3>2. frame[k] = to + k - 1
        BY <1>3, <3>1
      <3> QED
        BY <3>1, <3>2 DEF k
    <2>3. c < o + n - B => frame[B - o + c + 1] = to + (c - o + B)
      <3> SUFFICES ASSUME c < o + n - B
                   PROVE  frame[B - o + c + 1] = to + (c - o + B)
        OBVIOUS
      <3> DEFINE k == B - o + c + 1
      <3>1. k \in 1 .. n /\ to + k - 1 = to + (c - o + B)
        BY <1>1, <1>2, <2>1
      <3> HIDE DEF k
      <3>2. frame[k] = to + k - 1
        BY <1>3, <3>1
      <3> QED
        BY <3>1, <3>2 DEF k
    <2> QED
      BY <1>6, <2>2, <2>3
  <1>8. ASSUME NEW j \in Nat
        PROVE  /\ j % B \in Cells
               /\ j >= to /\ j < to + B => j % B = IF o + (j - to) < B THEN o + (j - to)
                                                   ELSE o + (j - to) - B
               /\ j < to /\ j >= to - B => j % B = IF o + (j - to) >= 0 THEN o + (j - to)
                                                   ELSE o + (j - to) + B
    <2>1. j % B \in Cells /\ j \in Int /\ j - to \in Int
      <3>1. 0 \in Int /\ j \in Int /\ j - to \in Int
        BY <1>1
      <3>2. j % B \in Cells
        BY <3>1, CellOf
      <3> QED
        BY <3>1, <3>2
    <2>2. j % B = (o + (j - to)) % B
      <3>1. ((to % B) + (j - to)) % B = (to + (j - to)) % B
        BY <1>1, <2>1, RemainderPlus
      <3>2. to + (j - to) = j
        BY <1>1, <2>1
      <3> QED
        BY <3>1, <3>2 DEF o
    <2> DEFINE d == j - to
    <2>3. d \in Int /\ o \in 0 .. B - 1 /\ j % B = (o + d) % B
          /\ (j >= to <=> d >= 0) /\ (j < to + B <=> d < B) /\ (j >= to - B <=> d >= 0 - B)
      BY <1>1, <1>2, <2>1, <2>2
    <2> HIDE DEF d
    <2>4. d >= 0 /\ d < B => (o + d) % B = IF o + d < B THEN o + d ELSE o + d - B
      BY <1>1, <2>3
    <2>5. d < 0 /\ d >= 0 - B => (o + d) % B = IF o + d >= 0 THEN o + d ELSE o + d + B
      BY <1>1, <2>3
    <2> QED
      BY <2>1, <2>3, <2>4, <2>5 DEF d
  <1>9. ASSUME NEW j \in from .. to + n - 1
        PROVE  mem[j % B] = j
    <2> DEFINE c == j % B
    <2>1. j \in Nat /\ j < to + B /\ j >= to - B /\ o \in 0 .. B - 1
      BY <1>1, <1>2
    <2>2. c \in Cells
      BY <1>8, <2>1
    <2>3. mem[c] = IF c - o \in 0 .. n - 1 THEN to + (c - o)
                   ELSE IF c < o + n - B THEN to + (c - o + B)
                   ELSE b.mem[c]
      BY <1>7, <2>2
    <2>4. CASE j >= to
      <3>1. c = IF o + (j - to) < B THEN o + (j - to) ELSE o + (j - to) - B
        BY <1>8, <2>1, <2>4
      <3>2. c \in Int
        BY <2>2 DEF Cells
      <3> HIDE DEF c
      <3>3. CASE o + (j - to) < B
        <4>1. c = o + (j - to)
          BY <3>1, <3>3
        <4>2. c - o \in 0 .. n - 1 /\ to + (c - o) = j
          BY <1>1, <2>1, <2>4, <4>1
        <4> QED
          BY <2>3, <4>2 DEF c
      <3>4. CASE ~(o + (j - to) < B)
        <4>1. c = o + (j - to) - B
          BY <3>1, <3>4
        <4>2. c - o \notin 0 .. n - 1 /\ c < o + n - B /\ to + (c - o + B) = j
          BY <1>1, <2>1, <2>4, <4>1
        <4> QED
          BY <2>3, <4>2 DEF c
      <3> QED
        BY <3>3, <3>4
    <2>5. CASE j < to
      <3>1. c = IF o + (j - to) >= 0 THEN o + (j - to) ELSE o + (j - to) + B
        BY <1>8, <2>1, <2>5
      <3>2. b.mem[c] = j
        BY <1>1, <2>5
      <3> HIDE DEF c
      <3>3. c - o \notin 0 .. n - 1 /\ ~(c < o + n - B)
        <4>1. CASE o + (j - to) >= 0
          <5>1. c = o + (j - to)
            BY <3>1, <4>1
          <5> QED
            BY <1>1, <2>1, <2>5, <5>1
        <4>2. CASE ~(o + (j - to) >= 0)
          <5>1. c = o + (j - to) + B
            BY <3>1, <4>2
          <5> QED
            BY <1>1, <2>1, <2>5, <5>1
        <4> QED
          BY <4>1, <4>2
      <3> QED
        BY <2>3, <3>2, <3>3 DEF c
    <2> QED
      BY <2>1, <2>4, <2>5
  <1>10. u \in Buffers
    <2>1. b.mem \in [Cells -> Int] /\ b.rd \in Pointers
      BY DEF Buffers
    <2>2. wr \in Pointers
      BY <1>1, <1>4 DEF Pointers
    <2>3. ASSUME NEW c \in Cells
          PROVE  mem[c] \in Int
      <3>1. b.mem[c] \in Int
        BY <2>1
      <3>2. to + (c - o) \in Int /\ to + (c - o + B) \in Int
        BY <1>1, <1>2 DEF Cells
      <3> QED
        BY <1>7, <3>1, <3>2
    <2>4. mem \in [Cells -> Int]
      BY <1>6, <2>3
    <2> QED
      BY <1>5, <2>1, <2>2, <2>4 DEF Buffers
  <1>11. Holds(u, from, to + n)
    <2>1. to + n - from \in 0 .. B
      BY <1>1
    <2> QED
      BY <1>1, <1>4, <1>5, <1>9, <2>1 DEF Holds
  <1> QED
    BY <1>10, <1>11 DEF u

\* The least of a set of numbers.
LEMMA Least ==
  ASSUME NEW S \in SUBSET Nat, S # {}
  PROVE  Min(S) \in S /\ \A m \in S : Min(S) <= m
  <1>1. PICK n \in S : \A m \in S : <<m, n>> \notin OpToRel(<, Nat)
    BY NatLessThanWellFounded, WFMin
  <1>2. \A m \in S : ~(m < n)
    BY <1>1 DEF OpToRel
  <1>3. \A m \in S : n <= m
    BY <1>2
  <1> QED
    BY <1>3 DEF Min

\* What a read of at most n bytes takes out: the first ones, in two parts where
\* they go round the end of the buffer.
LEMMA ReadOf ==
  ASSUME NEW b \in Buffers, NEW from \in Nat, NEW to \in Nat, Holds(b, from, to),
         NEW n \in Nat
  PROVE  \E m \in 0 .. to - from :
           /\ read_rxbuf(b, n) = Run(from, m)
           /\ m = 0 => n = 0 \/ from = to
  <1> DEFINE B == BufferSize
             M == RegModulus
             d == to - from
             m == Min({n, d})
             o == from % B
  <1>1. /\ b.rd = from % M /\ b.wr = to % M /\ d \in 0 .. B
        /\ \A j \in from .. to - 1 : b.mem[j % B] = j
        /\ B \in Nat \ {0} /\ from \in Int
    BY Constants DEF Holds
  <1>2. Distance(b.rd, b.wr) = d
    BY <1>1, DistanceOf
  <1>3. m \in {n, d} /\ m <= n /\ m <= d
    <2>1. {n, d} \in SUBSET Nat /\ {n, d} # {}
      BY <1>1
    <2>2. m \in {n, d} /\ \A i \in {n, d} : m <= i
      BY <2>1, Least
    <2> QED
      BY <2>2
  <1>4. b.rd % B = o /\ o \in 0 .. B - 1
    <2>1. 0 \in Int
      OBVIOUS
    <2> QED
      BY <1>1, <2>1, CellOf
  <1>5. m \in 0 .. d /\ (m = 0 => n = 0 \/ from = to)
    BY <1>1, <1>3
  <1>6. read_rxbuf(b, n) =
          [k \in 1 .. m |-> IF o + m > B /\ k > B - o
                            THEN b.mem[k - (B - o) - 1] ELSE b.mem[o + k - 1]]
    BY <1>2, <1>4 DEF read_rxbuf
  <1> HIDE DEF m, o
  <1>7. ASSUME NEW k \in 1 .. m
        PROVE  (IF o + m > B /\ k > B - o
                THEN b.mem[k - (B - o) - 1] ELSE b.mem[o + k - 1]) = from + k - 1
    <2>1. /\ from + (k - 1) = from + k - 1 /\ from + k - 1 \in from .. to - 1
          /\ k - 1 \in Int /\ k - 1 \in 0 .. B - 1 /\ m \in Int
      BY <1>1, <1>5
    <2>2. (from + k - 1) % B = (o + (k - 1)) % B
      <3>1. ((from % B) + (k - 1)) % B = (from + (k - 1)) % B
        BY <1>1, <2>1, RemainderPlus
      <3> QED
        BY <2>1, <3>1 DEF o
    <2>3. b.mem[(o + (k - 1)) % B] = from + k - 1
      BY <1>1, <2>1, <2>2
    <2>4. CASE o + (k - 1) < B
      <3>1. (o + (k - 1)) % B = o + k - 1 /\ ~(k > B - o)
        BY <1>1, <1>4, <2>1, <2>4
      <3> QED
        BY <2>3, <3>1
    <2>5. CASE o + (k - 1) >= B
      <3>1. /\ (o + (k - 1)) % B = k - (B - o) - 1 /\ k > B - o /\ o + m > B
        BY <1>1, <1>4, <2>1, <2>5
      <3> QED
        BY <2>3, <3>1
    <2> QED
      BY <1>1, <1>4, <2>1, <2>4, <2>5
  <1>8. read_rxbuf(b, n) = Run(from, m)
    BY <1>6, <1>7 DEF Run
  <1> QED
    BY <1>5, <1>8

\* m bytes are taken out.
LEMMA AdvanceHolds ==
  ASSUME NEW b \in Buffers, NEW from \in Nat, NEW to \in Nat, Holds(b, from, to),
         NEW m \in 0 .. to - from
  PROVE  LET u == [b EXCEPT !.rd = add_to_socket_pointer_reg(@, m)]
         IN  u \in Buffers /\ Holds(u, from + m, to)
  <1> DEFINE M == RegModulus
             rd == (b.rd + m) % M
             u == [b EXCEPT !.rd = add_to_socket_pointer_reg(@, m)]
  <1>1. /\ b.rd = from % M /\ b.wr = to % M /\ to - from \in 0 .. BufferSize
        /\ M \in Nat \ {0} /\ m \in Int
    BY Constants DEF Holds
  <1>2. rd = (from + m) % M
    <2>1. ((from % RegModulus) + m) % RegModulus = (from + m) % RegModulus
      BY <1>1, CellOf
    <2> QED
      BY <1>1, <2>1
  <1>3. u.mem = b.mem /\ u.rd = rd /\ u.wr = b.wr /\ u = [b EXCEPT !.rd = rd]
    BY DEF add_to_socket_pointer_reg, Buffers
  <1>4. rd \in Pointers
    BY <1>1, <1>2 DEF Pointers
  <1> HIDE DEF rd, u
  <1>5. u \in Buffers
    BY <1>3, <1>4 DEF Buffers
  <1>6. Holds(u, from + m, to)
    <2>1. to - (from + m) \in 0 .. BufferSize
      <3>1. BufferSize \in Nat /\ m \in 0 .. to - from /\ to - from <= BufferSize
        BY <1>1, Constants
      <3>2. from \in Nat /\ to \in Nat
        OBVIOUS
      <3> QED
        BY <3>1, <3>2
    <2>2. ASSUME NEW j \in (from + m) .. to - 1
          PROVE  u.mem[j % BufferSize] = j
      <3>1. j \in from .. to - 1
        BY <1>1
      <3> QED
        BY <1>3, <3>1 DEF Holds
    <2>3. u.rd = (from + m) % M /\ u.wr = to % M
      BY <1>1, <1>2, <1>3
    <2> QED
      BY <2>1, <2>2, <2>3 DEF Holds
  <1> QED
    BY <1>5, <1>6 DEF u

\* All bytes are taken out.
LEMMA DrainedHolds ==
  ASSUME NEW b \in Buffers, NEW from \in Nat, NEW to \in Nat, Holds(b, from, to)
  PROVE  LET u == [b EXCEPT !.rd = b.wr] IN u \in Buffers /\ Holds(u, to, to)
  <1> DEFINE u == [b EXCEPT !.rd = b.wr]
  <1>1. u \in Buffers /\ u.rd = b.wr /\ u.wr = b.wr
    BY DEF Buffers
  <1> HIDE DEF u
  <1>2. to - to \in 0 .. BufferSize /\ to .. to - 1 = {}
    BY Constants
  <1> QED
    BY <1>1, <1>2 DEF Holds, u

-----------------------------------------------------------------------------
(* The data, under any rules                                               *)

\* The buffers are in order at first.
LEMMA DataInit == Init => Data
  <1> SUFFICES ASSUME Init
               PROVE  Data
    OBVIOUS
  <1>1. 0 \in Pointers /\ 0 % RegModulus = 0 /\ 0 - 0 \in 0 .. BufferSize
    BY Constants DEF Pointers
  <1>2. Buffer \in Buffers
    BY <1>1 DEF Buffer, Buffers, Nothing
  <1>3. Reset \in Chips /\ Awake \in Processes
    BY <1>2 DEF Reset, Chips, States, Awake, Processes
  <1>4. Typed
    BY <1>3 DEF Init, Typed, Counters
  <1>5. Holds(Buffer, 0, 0)
    BY <1>1 DEF Holds, Buffer
  <1>6. Rings
    BY <1>5 DEF Init, Rings, Reset
  <1> QED
    BY <1>4, <1>6 DEF Data, Init

\* A step that touches no buffer leaves what they hold.
LEMMA SameRings ==
  ASSUME Rings, bytes' = bytes,
         \A s \in Socks : chip'[s].rx = chip[s].rx /\ chip'[s].tx = chip[s].tx
  PROVE  Rings'
  BY DEF Rings, Holds

\* And one that touches one socket leaves the others.
LEMMA OneRing ==
  ASSUME Rings, NEW s \in Socks,
         \A r \in Socks \ {s} : chip'[r] = chip[r] /\ bytes'[r] = bytes[r],
         Holds(chip'[s].rx, bytes'[s].read, bytes'[s].received),
         Holds(chip'[s].tx, bytes'[s].sent, bytes'[s].written)
  PROVE  Rings'
  <1> SUFFICES ASSUME NEW r \in Socks
               PROVE  /\ Holds(chip'[r].rx, bytes'[r].read, bytes'[r].received)
                      /\ Holds(chip'[r].tx, bytes'[r].sent, bytes'[r].written)
    BY DEF Rings, Holds
  <1>1. CASE r = s
    BY <1>1
  <1>2. CASE r # s
    BY <1>2 DEF Rings
  <1> QED
    BY <1>1, <1>2

\* One socket of the chip changes.
LEMMA ChipTyped ==
  ASSUME Typed, NEW s \in Socks, NEW c \in Chips, chip' = [chip EXCEPT ![s] = c]
  PROVE  /\ chip' \in [Socks -> Chips] /\ chip'[s] = c
         /\ \A r \in Socks \ {s} : chip'[r] = chip[r]
  BY DEF Typed

\* The parts of a socket of the chip.
LEMMA ChipParts ==
  ASSUME Typed, NEW s \in Socks
  PROVE  /\ chip[s] \in Chips /\ chip[s].sr \in States /\ chip[s].ir \subseteq Events
         /\ chip[s].rx \in Buffers /\ chip[s].tx \in Buffers
         /\ chip[s] = [sr |-> chip[s].sr, ir |-> chip[s].ir,
                       rx |-> chip[s].rx, tx |-> chip[s].tx]
  BY DEF Typed, Chips

\* The interrupt pin stays one.
LEMMA EdgeTyped ==
  ASSUME Typed
  PROVE  /\ Falls \in {"high", "fell", "due"}
         /\ Leaves => edge' \in {"high", "fell", "due"}
  BY DEF Typed, Falls, Leaves

\* Processes that sleep or return stay processes.
LEMMA CallTyped ==
  ASSUME Typed, NEW p \in Procs, NEW s \in Socks, NEW n \in Nat,
         NEW call \in {"accept", "connect", "read"}
  PROVE  /\ Sleeps(p, s, call, n) => /\ proc' \in [Procs -> Processes]
                                     /\ waiting' \in [Socks -> Procs \cup {Nobody}]
         /\ Returns(p) => proc' \in [Procs -> Processes]
  <1>1. [state |-> "asleep", call |-> call, sock |-> s, count |-> n] \in Processes
    BY Constants DEF Processes
  <1>2. Awake \in Processes
    BY DEF Awake, Processes
  <1> QED
    BY <1>1, <1>2 DEF Typed, Sleeps, Returns

\* A change of state of the chip keeps the bytes in order.
LEMMA HappensData ==
  ASSUME Data, NEW s \in Socks, NEW event \in Events, NEW from \in States,
         NEW to \in States, Happens(s, event, from, to)
  PROVE  Data'
  <1> DEFINE c == [chip[s] EXCEPT !.sr = to, !.ir = @ \cup {event}]
  <1>1. chip[s] \in Chips /\ chip[s].ir \subseteq Events
    BY ChipParts DEF Data
  <1>2. c \in Chips /\ c.rx = chip[s].rx /\ c.tx = chip[s].tx
    BY <1>1 DEF Chips
  <1>3. chip' = [chip EXCEPT ![s] = c]
    BY DEF Happens, Data, Typed
  <1> HIDE DEF c
  <1>4. /\ chip' \in [Socks -> Chips] /\ chip'[s] = c
        /\ \A r \in Socks \ {s} : chip'[r] = chip[r]
    BY <1>2, <1>3, ChipTyped DEF Data
  <1>5. edge' \in {"high", "fell", "due"}
    BY EdgeTyped DEF Data, Happens
  <1>6. Typed'
    BY <1>4, <1>5 DEF Data, Typed, Happens
  <1>7. Rings'
    <2>1. \A r \in Socks : chip'[r].rx = chip[r].rx /\ chip'[r].tx = chip[r].tx
      BY <1>2, <1>4
    <2> QED
      BY <2>1, SameRings DEF Data, Happens
  <1> QED
    BY <1>6, <1>7 DEF Data, Happens

\* So does a frame that arrives,
LEMMA PeerSendsData ==
  ASSUME Data, NEW s \in Socks, NEW n \in 1 .. BufferSize, PeerSends(s, n)
  PROVE  Data'
  <1> DEFINE rx == Stored(chip[s].rx, bytes[s].received, n)
             c == [chip[s] EXCEPT !.ir = @ \cup {"RECV"}, !.rx = rx]
             b == [bytes[s] EXCEPT !.received = @ + n]
  <1>1. /\ chip[s] \in Chips /\ chip[s].ir \subseteq Events
        /\ chip[s].rx \in Buffers
    BY ChipParts DEF Data
  <1>2. bytes[s] \in Counters /\ n \in Nat
    BY Constants DEF Data, Typed
  <1>3. rx \in Buffers /\ Holds(rx, bytes[s].read, bytes[s].received + n)
    <2>1. /\ bytes[s].read \in Nat /\ bytes[s].received \in Nat
          /\ Holds(chip[s].rx, bytes[s].read, bytes[s].received)
      BY <1>2 DEF Data, Rings, Counters
    <2>2. bytes[s].received - bytes[s].read \in 0 .. BufferSize
          /\ chip[s].rx.rd = bytes[s].read % RegModulus
          /\ chip[s].rx.wr = bytes[s].received % RegModulus
      BY <2>1 DEF Holds
    <2>3. Distance(chip[s].rx.rd, chip[s].rx.wr) = bytes[s].received - bytes[s].read
      BY <2>1, <2>2, DistanceOf
    <2>4. bytes[s].received + n - bytes[s].read <= BufferSize
      <3>1. (bytes[s].received - bytes[s].read) + n <= BufferSize
        BY <2>3 DEF PeerSends
      <3> QED
        BY <1>2, <2>1, <3>1
    <2> QED
      BY <1>1, <1>2, <2>1, <2>4, StoredHolds
  <1> HIDE DEF rx
  <1>4. c \in Chips /\ c.rx = rx /\ c.tx = chip[s].tx
    BY <1>1, <1>3 DEF Chips, Events
  <1>5. b \in Counters /\ b.received = bytes[s].received + n /\ b.read = bytes[s].read
        /\ b.sent = bytes[s].sent /\ b.written = bytes[s].written
    BY <1>2 DEF Counters
  <1>6. chip' = [chip EXCEPT ![s] = c] /\ bytes' = [bytes EXCEPT ![s] = b]
    BY DEF PeerSends, Data, Typed, rx
  <1> HIDE DEF c, b
  <1>7. /\ chip' \in [Socks -> Chips] /\ chip'[s] = c
        /\ \A r \in Socks \ {s} : chip'[r] = chip[r]
    BY <1>4, <1>6, ChipTyped DEF Data
  <1>8. /\ bytes' \in [Socks -> Counters] /\ bytes'[s] = b
        /\ \A r \in Socks \ {s} : bytes'[r] = bytes[r]
    BY <1>5, <1>6 DEF Data, Typed
  <1>9. edge' \in {"high", "fell", "due"}
    BY EdgeTyped DEF Data, PeerSends
  <1>10. Typed'
    BY <1>7, <1>8, <1>9 DEF Data, Typed, PeerSends
  <1>11. Rings'
    <2>1. Holds(chip[s].tx, bytes[s].sent, bytes[s].written)
      BY DEF Data, Rings
    <2> QED
      BY <1>3, <1>4, <1>5, <1>7, <1>8, <2>1, OneRing DEF Data
  <1> QED
    BY <1>10, <1>11 DEF Data, PeerSends

\* one that the chip has sent,
LEMMA TransmitsData ==
  ASSUME Data, NEW s \in Socks, Transmits(s)
  PROVE  Data'
  <1> DEFINE tx == [chip[s].tx EXCEPT !.rd = chip[s].tx.wr]
             out == Outgoing(chip[s].tx)
             c == [chip[s] EXCEPT !.ir = @ \cup {"SENDOK"}, !.tx = tx]
             b == [bytes[s] EXCEPT !.sent = @ + Len(out)]
  <1>1. /\ chip[s] \in Chips /\ chip[s].ir \subseteq Events
        /\ chip[s].tx \in Buffers /\ bytes[s] \in Counters
    BY ChipParts DEF Data, Typed
  <1>2. /\ bytes[s].sent \in Nat /\ bytes[s].written \in Nat
        /\ Holds(chip[s].tx, bytes[s].sent, bytes[s].written)
    BY <1>1 DEF Data, Rings, Counters
  <1>3. out = Run(bytes[s].sent, bytes[s].written - bytes[s].sent)
    BY <1>1, <1>2, OutgoingOf
  <1>4. bytes[s].written - bytes[s].sent \in Nat
    BY <1>2, Constants DEF Holds
  <1>5. /\ InOrder(out, bytes[s].sent)
        /\ bytes[s].sent + Len(out) = bytes[s].written
    <2>1. InOrder(out, bytes[s].sent) /\ Len(out) = bytes[s].written - bytes[s].sent
      BY <1>2, <1>3, <1>4, RunFacts
    <2> QED
      BY <1>2, <2>1
  <1>6. tx \in Buffers /\ Holds(tx, bytes[s].written, bytes[s].written)
    BY <1>1, <1>2, DrainedHolds
  <1> HIDE DEF tx, out
  <1>7. c \in Chips /\ c.rx = chip[s].rx /\ c.tx = tx
    BY <1>1, <1>6 DEF Chips, Events
  <1>8. /\ b \in Counters /\ b.sent = bytes[s].written /\ b.written = bytes[s].written
        /\ b.read = bytes[s].read /\ b.received = bytes[s].received
    BY <1>1, <1>5 DEF Counters
  <1>9. chip' = [chip EXCEPT ![s] = c] /\ bytes' = [bytes EXCEPT ![s] = b]
    BY DEF Transmits, Data, Typed, tx, out
  <1> HIDE DEF c, b
  <1>10. /\ chip' \in [Socks -> Chips] /\ chip'[s] = c
         /\ \A r \in Socks \ {s} : chip'[r] = chip[r]
    BY <1>7, <1>9, ChipTyped DEF Data
  <1>11. /\ bytes' \in [Socks -> Counters] /\ bytes'[s] = b
         /\ \A r \in Socks \ {s} : bytes'[r] = bytes[r]
    BY <1>8, <1>9 DEF Data, Typed
  <1>12. edge' \in {"high", "fell", "due"}
    BY EdgeTyped DEF Data, Transmits
  <1>13. ordered'
    BY <1>5 DEF Data, Transmits, out
  <1>14. Typed'
    BY <1>10, <1>11, <1>12, <1>13 DEF Data, Typed, Transmits
  <1>15. Rings'
    <2>1. Holds(chip[s].rx, bytes[s].read, bytes[s].received)
      BY DEF Data, Rings
    <2> QED
      BY <1>6, <1>7, <1>8, <1>10, <1>11, <2>1, OneRing DEF Data
  <1> QED
    BY <1>13, <1>14, <1>15 DEF Data

\* and the interrupt.
LEMMA InterruptData ==
  ASSUME Data, eth_irq
  PROVE  Data'
  <1>1. CASE Nobody \in Woken
    <2>1. UNCHANGED <<chip, edge, taken, waiting, recorded, proc, bytes, ordered,
                      truthful, usable>>
      BY <1>1 DEF eth_irq
    <2> QED
      BY <2>1 DEF Data, Typed, Rings, Holds
  <1>2. CASE Nobody \notin Woken
    <2>1. chip' \in [Socks -> Chips]
          /\ \A s \in Socks : chip'[s].rx = chip[s].rx /\ chip'[s].tx = chip[s].tx
      <3>1. chip' = [s \in Socks |-> [chip[s] EXCEPT !.ir = {}]]
        BY <1>2 DEF eth_irq
      <3>2. \A s \in Socks : chip[s] \in Chips
        BY DEF Data, Typed
      <3> QED
        BY <3>1, <3>2 DEF Chips
    <2>2. recorded' \in [Socks -> SUBSET (Events \ {"SENDOK"})]
      <3> DEFINE new(s) == {pair[2] : pair \in {x \in Noted : x[1] = s}}
      <3>1. \A s \in Socks : new(s) \subseteq Events \ {"SENDOK"}
        BY DEF Noted
      <3>2. recorded' = [s \in Socks |-> recorded[s] \cup new(s)]
        BY <1>2 DEF eth_irq
      <3> HIDE DEF new
      <3>3. \A s \in Socks : recorded[s] \subseteq Events \ {"SENDOK"}
        BY DEF Data, Typed
      <3> QED
        BY <3>1, <3>2, <3>3
    <2>3. proc' \in [Procs -> Processes]
      <3>1. \A p \in Procs : proc[p] \in Processes
        BY DEF Data, Typed
      <3>2. \A p \in Procs : proc[p].state = "asleep"
                             => [proc[p] EXCEPT !.state = "ready"] \in Processes
        BY <3>1 DEF Processes
      <3>3. proc' = [p \in Procs |->
                        IF p \in Woken /\ proc[p].state = "asleep"
                        THEN [proc[p] EXCEPT !.state = "ready"] ELSE proc[p]]
        BY <1>2 DEF eth_irq
      <3> QED
        BY <3>1, <3>2, <3>3
    <2>4. edge' \in {"high", "fell", "due"}
      BY <1>2 DEF eth_irq
    <2>5. UNCHANGED <<taken, waiting, bytes, ordered, truthful, usable>>
      BY DEF eth_irq
    <2>6. Typed'
      BY <2>1, <2>2, <2>3, <2>4, <2>5 DEF Data, Typed
    <2>7. Rings'
      BY <2>1, <2>5, SameRings DEF Data
    <2> QED
      BY <2>5, <2>6, <2>7 DEF Data
  <1> QED
    BY <1>1, <1>2

\* The socket number the driver gives out is one that is free.
LEMMA CreatesFree ==
  ASSUME \E s \in Socks : taken[s] = Nobody
  PROVE  create_socket \in Socks /\ taken[create_socket] = Nobody
  <1> DEFINE free == {s \in Socks : taken[s] = Nobody}
  <1>1. free \in SUBSET Nat /\ free # {}
    BY Constants
  <1>2. Min(free) \in free
    BY <1>1, Least
  <1> QED
    BY <1>2 DEF create_socket

\* The state of one socket changes.
LEMMA StateData ==
  ASSUME Data, NEW s \in Socks, NEW to \in States,
         chip' = [chip EXCEPT ![s].sr = to], bytes' = bytes
  PROVE  chip' \in [Socks -> Chips] /\ Rings'
  <1> DEFINE c == [chip[s] EXCEPT !.sr = to]
  <1>1. chip[s] \in Chips
    BY DEF Data, Typed
  <1>2. c \in Chips /\ c.rx = chip[s].rx /\ c.tx = chip[s].tx
    BY <1>1 DEF Chips
  <1>3. chip' = [chip EXCEPT ![s] = c]
    BY DEF Data, Typed
  <1> HIDE DEF c
  <1>4. /\ chip' \in [Socks -> Chips] /\ chip'[s] = c
        /\ \A r \in Socks \ {s} : chip'[r] = chip[r]
    BY <1>2, <1>3, ChipTyped DEF Data
  <1>5. \A r \in Socks : chip'[r].rx = chip[r].rx /\ chip'[r].tx = chip[r].tx
    BY <1>2, <1>4
  <1> QED
    BY <1>4, <1>5, SameRings DEF Data

\* So does a socket that is made,
LEMMA SocketData ==
  ASSUME Data, NEW p \in Procs, sys_socket(p)
  PROVE  Data'
  <1>1. create_socket \in Socks
    BY CreatesFree DEF sys_socket
  <1>2. chip' \in [Socks -> Chips] /\ Rings'
    BY <1>1, StateData DEF sys_socket, States
  <1>3. taken' \in [Socks -> Procs \cup {Nobody}]
    BY <1>1 DEF sys_socket, Data, Typed
  <1>4. edge' \in {"high", "fell", "due"}
    BY EdgeTyped DEF Data, sys_socket
  <1> QED
    BY <1>2, <1>3, <1>4 DEF Data, Typed, sys_socket

\* a listen,
LEMMA ListenData ==
  ASSUME Data, NEW p \in Procs, NEW s \in Socks, listen_socket(p, s)
  PROVE  Data'
  <1>1. chip' \in [Socks -> Chips] /\ Rings'
    BY StateData DEF listen_socket, States
  <1>2. edge' \in {"high", "fell", "due"}
    BY EdgeTyped DEF Data, listen_socket
  <1> QED
    BY <1>1, <1>2 DEF Data, Typed, listen_socket

\* the end of a process,
LEMMA ExitData ==
  ASSUME Data, NEW p \in Procs, Exit(p)
  PROVE  Data'
  <1>1. [Awake EXCEPT !.state = "gone"] \in Processes
    BY DEF Awake, Processes
  <1>2. proc' \in [Procs -> Processes]
    BY <1>1 DEF Exit, Data, Typed
  <1>3. edge' \in {"high", "fell", "due"}
    BY EdgeTyped DEF Data, Exit
  <1>4. Rings'
    BY SameRings DEF Data, Exit
  <1> QED
    BY <1>2, <1>3, <1>4 DEF Data, Typed, Exit

\* an accept that returns,
LEMMA AcceptReturnsData ==
  ASSUME Data, NEW p \in Procs, NEW s, AcceptReturns(p, s), Leaves,
         UNCHANGED <<chip, taken, recorded, bytes, ordered>>
  PROVE  Data'
  <1>1. proc' \in [Procs -> Processes]
    <2>1. Awake \in Processes
      BY DEF Awake, Processes
    <2> QED
      BY <2>1 DEF Data, Typed, AcceptReturns, Returns
  <1>2. usable' \in [Socks -> BOOLEAN] /\ truthful' \in BOOLEAN
    BY DEF AcceptReturns, Data, Typed
  <1>3. edge' \in {"high", "fell", "due"}
    BY EdgeTyped DEF Data
  <1>4. Rings'
    BY SameRings DEF Data
  <1> QED
    BY <1>1, <1>2, <1>3, <1>4 DEF Data, Typed, AcceptReturns

\* and one that is called.
LEMMA AcceptData ==
  ASSUME Data, NEW p \in Procs, NEW s \in Socks, accept_socket(p, s)
  PROVE  Data'
  <1>1. CASE "CON" \in chip[s].ir
    BY <1>1, AcceptReturnsData DEF accept_socket
  <1>2. CASE "CON" \notin chip[s].ir
    <2>1. /\ Sleeps(p, s, "accept", 0) /\ Leaves
          /\ UNCHANGED <<chip, taken, recorded, bytes, ordered, usable, truthful>>
      BY <1>2 DEF accept_socket
    <2>2. /\ proc' \in [Procs -> Processes]
          /\ waiting' \in [Socks -> Procs \cup {Nobody}]
      BY <2>1, CallTyped DEF Data
    <2>3. edge' \in {"high", "fell", "due"}
      BY <2>1, EdgeTyped DEF Data
    <2>4. Rings'
      BY <2>1, SameRings DEF Data
    <2> QED
      BY <2>1, <2>2, <2>3, <2>4 DEF Data, Typed
  <1> QED
    BY <1>1, <1>2

\* A connect that returns keeps the types.
LEMMA ConnectReturnsTyped ==
  ASSUME Typed, NEW p \in Procs, NEW s, ConnectReturns(p, s)
  PROVE  /\ proc' \in [Procs -> Processes] /\ usable' \in [Socks -> BOOLEAN]
         /\ recorded' \in [Socks -> SUBSET (Events \ {"SENDOK"})]
         /\ truthful' \in BOOLEAN /\ waiting' = waiting
  <1> DEFINE seen == IF "TIMEOUT" \in recorded[s] THEN {"TIMEOUT"} ELSE {"CON"}
             succeeds == seen = {"CON"} /\ "CON" \in recorded[s]
  <1>1. /\ Returns(p) /\ waiting' = waiting
        /\ recorded' = [recorded EXCEPT ![s] = @ \ seen]
        /\ usable' = [usable EXCEPT ![s] = @ \/ succeeds]
        /\ truthful' = (truthful /\ (succeeds => chip[s].sr \in Connected))
    BY DEF ConnectReturns
  <1> HIDE DEF seen, succeeds
  <1>2. proc' \in [Procs -> Processes]
    <2>1. Awake \in Processes
      BY DEF Awake, Processes
    <2> QED
      BY <1>1, <2>1 DEF Typed, Returns
  <1>3. recorded' \in [Socks -> SUBSET (Events \ {"SENDOK"})]
    BY <1>1 DEF Typed
  <1>4. usable' \in [Socks -> BOOLEAN]
    BY <1>1, Zenon DEF Typed
  <1>5. truthful' \in BOOLEAN
    BY <1>1
  <1> QED
    BY <1>1, <1>2, <1>3, <1>4, <1>5

\* A connect keeps the bytes in order, when it is called
LEMMA ConnectData ==
  ASSUME Data, NEW p \in Procs, NEW s \in Socks, connect_socket(p, s)
  PROVE  Data'
  <1>1. PICK answered \in BOOLEAN :
          /\ chip' = [chip EXCEPT
               ![s].sr = IF @ # "INIT" THEN @
                         ELSE IF answered THEN "ESTABLISHED" ELSE "SYNSENT",
               ![s].ir = IF answered THEN @ \cup {"CON"} ELSE @]
          /\ IF answered \/ "CON" \in chip[s].ir THEN ConnectReturns(p, s)
             ELSE Sleeps(p, s, "connect", 0) /\ UNCHANGED <<recorded, usable, truthful>>
          /\ IF answered THEN edge' = "due" ELSE Leaves
          /\ UNCHANGED <<taken, bytes, ordered, damage>>
    BY DEF connect_socket
  <1> DEFINE sr == IF chip[s].sr # "INIT" THEN chip[s].sr
                   ELSE IF answered THEN "ESTABLISHED" ELSE "SYNSENT"
             ir == IF answered THEN chip[s].ir \cup {"CON"} ELSE chip[s].ir
             c == [chip[s] EXCEPT !.sr = sr, !.ir = ir]
  <1>2. chip[s] \in Chips /\ chip[s].sr \in States /\ chip[s].ir \subseteq Events
    BY ChipParts DEF Data
  <1>3. sr \in States /\ ir \subseteq Events
    BY <1>2 DEF States, Connected, Events
  <1>4. chip' = [chip EXCEPT ![s] = c]
    BY <1>1 DEF Data, Typed
  <1> HIDE DEF sr, ir
  <1>5. c \in Chips /\ c.rx = chip[s].rx /\ c.tx = chip[s].tx
    BY <1>2, <1>3 DEF Chips
  <1> HIDE DEF c
  <1>6. /\ chip' \in [Socks -> Chips] /\ chip'[s] = c
        /\ \A r \in Socks \ {s} : chip'[r] = chip[r]
    BY <1>4, <1>5, ChipTyped DEF Data
  <1>7. Rings'
    <2>1. \A r \in Socks : chip'[r].rx = chip[r].rx /\ chip'[r].tx = chip[r].tx
      BY <1>5, <1>6
    <2> QED
      BY <1>1, <2>1, SameRings DEF Data
  <1>8. edge' \in {"high", "fell", "due"}
    BY <1>1, EdgeTyped DEF Data
  <1>9. /\ proc' \in [Procs -> Processes] /\ usable' \in [Socks -> BOOLEAN]
        /\ recorded' \in [Socks -> SUBSET (Events \ {"SENDOK"})]
        /\ truthful' \in BOOLEAN /\ waiting' \in [Socks -> Procs \cup {Nobody}]
    <2>1. CASE ConnectReturns(p, s)
      BY <2>1, ConnectReturnsTyped DEF Data, Typed
    <2>2. CASE Sleeps(p, s, "connect", 0) /\ UNCHANGED <<recorded, usable, truthful>>
      BY <2>2, CallTyped DEF Data, Typed
    <2> QED
      BY <1>1, <2>1, <2>2
  <1> QED
    BY <1>1, <1>6, <1>7, <1>8, <1>9 DEF Data, Typed

\* and when it is resumed.
LEMMA ConnectResumedData ==
  ASSUME Data, NEW p \in Procs, connect_resumed(p)
  PROVE  Data'
  <1>1. /\ proc' \in [Procs -> Processes] /\ usable' \in [Socks -> BOOLEAN]
        /\ recorded' \in [Socks -> SUBSET (Events \ {"SENDOK"})]
        /\ truthful' \in BOOLEAN /\ waiting' = waiting
    BY ConnectReturnsTyped DEF connect_resumed, Data
  <1>2. edge' \in {"high", "fell", "due"}
    BY EdgeTyped DEF Data, connect_resumed
  <1>3. Rings'
    BY SameRings DEF Data, connect_resumed
  <1> QED
    BY <1>1, <1>2, <1>3 DEF Data, Typed, connect_resumed

\* A read that returns keeps them in order,
LEMMA ReadReturnsData ==
  ASSUME Data, NEW p \in Procs, NEW s \in Socks, NEW n \in Nat,
         ReadReturns(p, s, n), Leaves, UNCHANGED <<taken, recorded, usable>>
  PROVE  Data'
  <1> DEFINE in == read_rxbuf(chip[s].rx, n)
             rx(m) == [chip[s].rx EXCEPT !.rd = add_to_socket_pointer_reg(@, m)]
             c == [chip[s] EXCEPT !.rx = rx(Len(in))]
             b == [bytes[s] EXCEPT !.read = @ + Len(in)]
  <1>1. /\ chip[s] \in Chips /\ chip[s].rx \in Buffers /\ bytes[s] \in Counters
    BY ChipParts DEF Data, Typed
  <1>2. /\ bytes[s].read \in Nat /\ bytes[s].received \in Nat
        /\ Holds(chip[s].rx, bytes[s].read, bytes[s].received)
    BY <1>1 DEF Data, Rings, Counters
  <1>3. PICK m \in 0 .. bytes[s].received - bytes[s].read : in = Run(bytes[s].read, m)
    BY <1>1, <1>2, ReadOf
  <1>4. Len(in) = m /\ InOrder(in, bytes[s].read) /\ m \in Nat
    BY <1>2, <1>3, RunFacts, SMTT(60)
  <1>5. rx(m) \in Buffers /\ Holds(rx(m), bytes[s].read + m, bytes[s].received)
    BY <1>1, <1>2, AdvanceHolds
  <1>6. chip' = [chip EXCEPT ![s] = c] /\ bytes' = [bytes EXCEPT ![s] = b]
    BY DEF ReadReturns, Data, Typed
  <1> HIDE DEF in, rx
  <1>7. c \in Chips /\ c.rx = rx(m) /\ c.tx = chip[s].tx
    BY <1>1, <1>4, <1>5 DEF Chips
  <1>8. /\ b \in Counters /\ b.read = bytes[s].read + m /\ b.received = bytes[s].received
        /\ b.sent = bytes[s].sent /\ b.written = bytes[s].written
    <2>1. b = [bytes[s] EXCEPT !.read = @ + m] /\ bytes[s].read + m \in Nat
      BY <1>2, <1>4
    <2> QED
      BY <1>1, <2>1 DEF Counters
  <1> HIDE DEF c, b
  <1>9. /\ chip' \in [Socks -> Chips] /\ chip'[s] = c
        /\ \A r \in Socks \ {s} : chip'[r] = chip[r]
    BY <1>6, <1>7, ChipTyped DEF Data
  <1>10. /\ bytes' \in [Socks -> Counters] /\ bytes'[s] = b
         /\ \A r \in Socks \ {s} : bytes'[r] = bytes[r]
    BY <1>6, <1>8 DEF Data, Typed
  <1>11. edge' \in {"high", "fell", "due"}
    BY EdgeTyped DEF Data
  <1>12. ordered'
    BY <1>4 DEF Data, ReadReturns, in
  <1>13. /\ proc' \in [Procs -> Processes] /\ truthful' \in BOOLEAN /\ waiting' = waiting
    <2>1. Awake \in Processes
      BY DEF Awake, Processes
    <2> QED
      BY <2>1 DEF Data, Typed, ReadReturns, Returns
  <1>14. Typed'
    BY <1>9, <1>10, <1>11, <1>12, <1>13 DEF Data, Typed
  <1>15. Rings'
    <2>1. Holds(chip[s].tx, bytes[s].sent, bytes[s].written)
      BY DEF Data, Rings
    <2> QED
      BY <1>5, <1>7, <1>8, <1>9, <1>10, <2>1, OneRing DEF Data
  <1> QED
    BY <1>12, <1>14, <1>15 DEF Data

\* and so does one that is called
LEMMA RxFrameData ==
  ASSUME Data, NEW p \in Procs, NEW s \in Socks, NEW n \in 1 .. BufferSize,
         rx_frame(p, s, n)
  PROVE  Data'
  <1>1. n \in Nat
    BY Constants
  <1>2. CASE "RECV" \in chip[s].ir
    <2>1. ReadReturns(p, s, n) /\ Leaves /\ UNCHANGED <<taken, recorded, usable>>
      BY <1>2 DEF rx_frame
    <2> QED
      BY <1>1, <2>1, ReadReturnsData
  <1>3. CASE "RECV" \notin chip[s].ir
    <2>1. /\ Sleeps(p, s, "read", n) /\ Leaves
          /\ UNCHANGED <<chip, taken, recorded, bytes, ordered, usable, truthful>>
      BY <1>3 DEF rx_frame
    <2>2. /\ proc' \in [Procs -> Processes]
          /\ waiting' \in [Socks -> Procs \cup {Nobody}]
      BY <1>1, <2>1, CallTyped DEF Data
    <2>3. edge' \in {"high", "fell", "due"}
      BY <2>1, EdgeTyped DEF Data
    <2>4. Rings'
      BY <2>1, SameRings DEF Data
    <2> QED
      BY <2>1, <2>2, <2>3, <2>4 DEF Data, Typed
  <1> QED
    BY <1>2, <1>3

\* or resumed.
LEMMA ReadResumedData ==
  ASSUME Data, NEW p \in Procs, read_resumed(p)
  PROVE  Data'
  <1>1. proc[p] \in Processes /\ proc[p].state = "ready"
    BY DEF Data, Typed, read_resumed, Resumes
  <1>2. SockOf(p) \in Socks /\ proc[p].count \in Nat
    BY <1>1 DEF SockOf, Processes
  <1>3. /\ ReadReturns(p, SockOf(p), proc[p].count) /\ Leaves
        /\ UNCHANGED <<taken, recorded, usable>>
    BY DEF read_resumed
  <1> QED
    BY <1>2, <1>3, ReadReturnsData

\* The end of a write: the frame is in the buffer, and the wait for the chip ends
\* at once, with the transmission, or with a timeout.
LEMMA WaitData ==
  ASSUME Data, NEW p \in Procs, NEW s \in Socks, NEW n \in Nat,
         bytes[s].written + n - bytes[s].sent <= BufferSize,
         wait_send_complete(p, s, Framed(chip[s].tx, Run(bytes[s].written, n)), n),
         UNCHANGED <<taken, waiting, recorded, proc, truthful>>
  PROVE  Data'
  <1> DEFINE tx == Framed(chip[s].tx, Run(bytes[s].written, n))
             out == Outgoing(tx)
             sent == bytes[s].written + n
  <1>1. /\ chip[s] \in Chips /\ chip[s].tx \in Buffers /\ chip[s].ir \subseteq Events
        /\ bytes[s] \in Counters
    BY ChipParts DEF Data, Typed
  <1>2. /\ bytes[s].sent \in Nat /\ bytes[s].written \in Nat /\ sent \in Nat
        /\ Holds(chip[s].tx, bytes[s].sent, bytes[s].written)
        /\ Holds(chip[s].rx, bytes[s].read, bytes[s].received)
    BY <1>1 DEF Data, Rings, Counters
  <1>3. tx \in Buffers /\ Holds(tx, bytes[s].sent, sent)
    BY <1>1, <1>2, FramedHolds
  <1>4. out = Run(bytes[s].sent, sent - bytes[s].sent)
    BY <1>2, <1>3, OutgoingOf
  <1>5. InOrder(out, bytes[s].sent) /\ bytes[s].sent + Len(out) = sent
    <2>1. sent - bytes[s].sent \in Nat
      BY <1>2, <1>3, Constants DEF Holds
    <2> HIDE DEF sent
    <2>2. InOrder(out, bytes[s].sent) /\ Len(out) = sent - bytes[s].sent
      BY <1>2, <1>4, <2>1, RunFacts
    <2> QED
      BY <1>2, <2>2
  <1>6. wait_send_complete(p, s, tx, n)
    OBVIOUS
  <1> HIDE DEF tx, out
  <1>7. CASE EndsEarly(s) /\ Leaves /\ UNCHANGED <<usable, ordered>>
             /\ chip' = [chip EXCEPT ![s].tx = tx, ![s].ir = @ \ INT_SENDOK]
             /\ bytes' = [bytes EXCEPT ![s].written = @ + n]
    <2> DEFINE c == [chip[s] EXCEPT !.tx = tx, !.ir = @ \ INT_SENDOK]
               b == [bytes[s] EXCEPT !.written = @ + n]
    <2>1. c \in Chips /\ c.rx = chip[s].rx /\ c.tx = tx
      BY <1>1, <1>3 DEF Chips
    <2>2. /\ b \in Counters /\ b.read = bytes[s].read /\ b.received = bytes[s].received
          /\ b.sent = bytes[s].sent /\ b.written = sent
      BY <1>1, <1>2 DEF Counters
    <2>3. chip' = [chip EXCEPT ![s] = c] /\ bytes' = [bytes EXCEPT ![s] = b]
      BY <1>7 DEF Data, Typed
    <2> HIDE DEF c, b
    <2>4. /\ chip' \in [Socks -> Chips] /\ chip'[s] = c
          /\ \A r \in Socks \ {s} : chip'[r] = chip[r]
      BY <2>1, <2>3, ChipTyped DEF Data
    <2>5. /\ bytes' \in [Socks -> Counters] /\ bytes'[s] = b
          /\ \A r \in Socks \ {s} : bytes'[r] = bytes[r]
      BY <2>2, <2>3 DEF Data, Typed
    <2>6. edge' \in {"high", "fell", "due"}
      BY <1>7, EdgeTyped DEF Data
    <2>7. Typed'
      BY <1>7, <2>4, <2>5, <2>6 DEF Data, Typed
    <2>8. Rings'
      BY <1>2, <1>3, <2>1, <2>2, <2>4, <2>5, OneRing DEF Data
    <2> QED
      BY <1>7, <2>7, <2>8 DEF Data
  <1>8. CASE Leaves /\ UNCHANGED usable
             /\ chip' = [chip EXCEPT ![s].tx = [tx EXCEPT !.rd = tx.wr]]
             /\ bytes' = [bytes EXCEPT ![s].written = @ + n, ![s].sent = @ + Len(out)]
             /\ ordered' = (ordered /\ InOrder(out, bytes[s].sent))
    <2> DEFINE empty == [tx EXCEPT !.rd = tx.wr]
               c == [chip[s] EXCEPT !.tx = empty]
               b == [bytes[s] EXCEPT !.written = @ + n, !.sent = @ + Len(out)]
    <2>0. empty \in Buffers /\ Holds(empty, sent, sent)
      BY <1>2, <1>3, DrainedHolds
    <2>3. chip' = [chip EXCEPT ![s] = c] /\ bytes' = [bytes EXCEPT ![s] = b]
      BY <1>8 DEF Data, Typed
    <2> HIDE DEF empty
    <2>1. c \in Chips /\ c.rx = chip[s].rx /\ c.tx = empty
      BY <1>1, <2>0 DEF Chips
    <2>2. /\ b \in Counters /\ b.read = bytes[s].read /\ b.received = bytes[s].received
          /\ b.sent = sent /\ b.written = sent
      BY <1>1, <1>2, <1>5 DEF Counters
    <2> HIDE DEF c, b
    <2>4. /\ chip' \in [Socks -> Chips] /\ chip'[s] = c
          /\ \A r \in Socks \ {s} : chip'[r] = chip[r]
      BY <2>1, <2>3, ChipTyped DEF Data
    <2>5. /\ bytes' \in [Socks -> Counters] /\ bytes'[s] = b
          /\ \A r \in Socks \ {s} : bytes'[r] = bytes[r]
      BY <2>2, <2>3 DEF Data, Typed
    <2>6. edge' \in {"high", "fell", "due"} /\ ordered'
      BY <1>5, <1>8, EdgeTyped DEF Data
    <2>7. Typed'
      BY <1>8, <2>4, <2>5, <2>6 DEF Data, Typed
    <2>8. Rings'
      BY <1>2, <2>0, <2>1, <2>2, <2>4, <2>5, OneRing DEF Data
    <2> QED
      BY <2>6, <2>7, <2>8 DEF Data
  <1>9. CASE /\ chip' = [chip EXCEPT ![s].sr = "CLOSED", ![s].ir = @ \cup {"TIMEOUT"}]
             /\ usable' = [usable EXCEPT ![s] = FALSE]
             /\ edge' = "due" /\ UNCHANGED <<bytes, ordered>>
    <2> DEFINE c == [chip[s] EXCEPT !.sr = "CLOSED", !.ir = @ \cup {"TIMEOUT"}]
    <2>1. c \in Chips /\ c.rx = chip[s].rx /\ c.tx = chip[s].tx
      BY <1>1 DEF Chips, States, Events
    <2>2. chip' = [chip EXCEPT ![s] = c]
      BY <1>9 DEF Data, Typed
    <2> HIDE DEF c
    <2>3. /\ chip' \in [Socks -> Chips] /\ chip'[s] = c
          /\ \A r \in Socks \ {s} : chip'[r] = chip[r]
      BY <2>1, <2>2, ChipTyped DEF Data
    <2>4. Typed'
      BY <1>9, <2>3 DEF Data, Typed
    <2>5. \A r \in Socks : chip'[r].rx = chip[r].rx /\ chip'[r].tx = chip[r].tx
      BY <2>1, <2>3
    <2>6. Rings'
      BY <1>9, <2>5, SameRings DEF Data
    <2> QED
      BY <1>9, <2>4, <2>6 DEF Data
  <1> QED
    BY <1>6, <1>7, <1>8, <1>9 DEF wait_send_complete, out

\* The free room tx_frame compares a frame with.
LEMMA FreeSpaceIs ==
  ASSUME Data, NEW s \in Socks
  PROVE  /\ FreeSpace(s) = BufferSize - (bytes[s].written - bytes[s].sent)
         /\ FreeSpace(s) \in Nat
  <1>1. /\ bytes[s].sent \in Nat /\ bytes[s].written \in Nat
        /\ chip[s].tx.rd = bytes[s].sent % RegModulus
        /\ chip[s].tx.wr = bytes[s].written % RegModulus
        /\ bytes[s].written - bytes[s].sent \in 0 .. BufferSize
    BY DEF Data, Typed, Counters, Rings, Holds
  <1>2. Distance(chip[s].tx.rd, chip[s].tx.wr) = bytes[s].written - bytes[s].sent
    BY <1>1, DistanceOf
  <1> QED
    BY <1>1, <1>2, Constants DEF FreeSpace

\* A write keeps the bytes in order.
LEMMA TxFrameData ==
  ASSUME Data, NEW p \in Procs, NEW s \in Socks, NEW n \in 1 .. BufferSize,
         tx_frame(p, s, n)
  PROVE  Data'
  <1> DEFINE frame == Run(bytes[s].written, n)
  <1>1. /\ chip[s].tx \in Buffers /\ bytes[s] \in Counters /\ n \in Nat
    BY ChipParts, Constants DEF Data, Typed
  <1>2. /\ bytes[s].sent \in Nat /\ bytes[s].written \in Nat
        /\ Holds(chip[s].tx, bytes[s].sent, bytes[s].written)
    BY <1>1 DEF Data, Rings, Counters
  <1>3. CASE n > FreeSpace(s) \/ chip[s].sr \notin Connected
    <2>1. UNCHANGED <<chip, edge, usable, bytes, ordered, taken, waiting, recorded,
                      proc, truthful>>
      BY <1>3 DEF tx_frame
    <2> QED
      BY <2>1 DEF Data, Typed, Rings, Holds
  <1>4. CASE ~(n > FreeSpace(s) \/ chip[s].sr \notin Connected)
    <2>1. /\ wait_send_complete(p, s, Filled(s, frame), n)
          /\ UNCHANGED <<taken, waiting, recorded, proc, truthful>>
      BY <1>4 DEF tx_frame, Run
    <2>2. Filled(s, frame) = Framed(chip[s].tx, frame)
      BY DEF Filled, Framed
    <2>3. bytes[s].written + n - bytes[s].sent <= BufferSize
      <3>1. ~(n > BufferSize - (bytes[s].written - bytes[s].sent))
        BY <1>4, FreeSpaceIs
      <3> QED
        BY <1>1, <1>2, <3>1, Constants
    <2> HIDE DEF frame
    <2>4. wait_send_complete(p, s, Framed(chip[s].tx, frame), n)
      BY <2>1, <2>2
    <2> QED
      BY <1>1, <2>1, <2>3, <2>4, WaitData DEF frame
  <1> QED
    BY <1>3, <1>4

\* Every step keeps the rings and their order, whoever breaks which rule.
LEMMA DataStep == Data /\ [Next]_vars => Data'
  <1> SUFFICES ASSUME Data, [Next]_vars
               PROVE  Data'
    OBVIOUS
  <1>1. CASE eth_irq
    BY <1>1, InterruptData
  <1>2. CASE Driver
    <2>1. PICK p \in Procs :
            \/ sys_socket(p) \/ accept_resumed(p) \/ connect_resumed(p)
            \/ read_resumed(p) \/ Exit(p)
            \/ \E s \in Socks : \/ listen_socket(p, s) \/ accept_socket(p, s)
                                \/ connect_socket(p, s)
                                \/ \E n \in 1 .. BufferSize : \/ rx_frame(p, s, n)
                                                              \/ tx_frame(p, s, n)
      BY <1>2 DEF Driver
    <2>2. CASE accept_resumed(p)
      BY <2>2, AcceptReturnsData DEF accept_resumed
    <2>3. CASE sys_socket(p)
      BY <2>3, SocketData
    <2>4. CASE connect_resumed(p)
      BY <2>4, ConnectResumedData
    <2>5. CASE read_resumed(p)
      BY <2>5, ReadResumedData
    <2>6. CASE Exit(p)
      BY <2>6, ExitData
    <2>7. ASSUME NEW s \in Socks, listen_socket(p, s)
          PROVE  Data'
      BY <2>7, ListenData
    <2>8. ASSUME NEW s \in Socks, accept_socket(p, s)
          PROVE  Data'
      BY <2>8, AcceptData
    <2>9. ASSUME NEW s \in Socks, connect_socket(p, s)
          PROVE  Data'
      BY <2>9, ConnectData
    <2>10. ASSUME NEW s \in Socks, NEW n \in 1 .. BufferSize, rx_frame(p, s, n)
           PROVE  Data'
      BY <2>10, RxFrameData
    <2>11. ASSUME NEW s \in Socks, NEW n \in 1 .. BufferSize, tx_frame(p, s, n)
           PROVE  Data'
      BY <2>11, TxFrameData
    <2> QED
      BY <2>1, <2>2, <2>3, <2>4, <2>5, <2>6, <2>7, <2>8, <2>9, <2>10, <2>11
  <1>3. CASE Network
    <2>1. PICK s \in Socks :
            \/ PeerConnects(s) \/ PeerAnswers(s) \/ PeerIsSilent(s) \/ PeerCloses(s)
            \/ Transmits(s)
            \/ \E n \in 1 .. BufferSize : PeerSends(s, n)
      BY <1>3 DEF Network
    <2>2. CASE PeerConnects(s) \/ PeerAnswers(s) \/ PeerIsSilent(s) \/ PeerCloses(s)
      <3>1. \E event \in Events, from \in States, to \in States :
              Happens(s, event, from, to)
        BY <2>2 DEF PeerConnects, PeerAnswers, PeerIsSilent, PeerCloses, Events,
                    States, Connected
      <3> QED
        BY <3>1, HappensData
    <2>3. CASE Transmits(s)
      BY <2>3, TransmitsData
    <2>4. ASSUME NEW n \in 1 .. BufferSize, PeerSends(s, n)
          PROVE  Data'
      BY <2>4, PeerSendsData
    <2> QED
      BY <2>1, <2>2, <2>3, <2>4
  <1>4. CASE UNCHANGED vars
    BY <1>4 DEF vars, Data, Typed, Rings, Holds
  <1> QED
    BY <1>1, <1>2, <1>3, <1>4 DEF Next

\* The invariant gives the types and the order of the bytes.
LEMMA DataTypes == Data => TypeOK /\ BytesInOrder
  <1> SUFFICES ASSUME Data
               PROVE  TypeOK /\ ordered
    BY DEF BytesInOrder
  <1>1. ASSUME NEW s \in Socks
        PROVE  /\ chip[s].sr \in States /\ chip[s].ir \subseteq Events
               /\ \A b \in {chip[s].rx, chip[s].tx} : {b.rd, b.wr} \subseteq Pointers
               /\ bytes[s].read <= bytes[s].received /\ bytes[s].sent <= bytes[s].written
    <2>1. /\ chip[s].sr \in States /\ chip[s].ir \subseteq Events
          /\ chip[s].rx \in Buffers /\ chip[s].tx \in Buffers /\ bytes[s] \in Counters
      BY ChipParts DEF Data, Typed
    <2>2. /\ bytes[s].received - bytes[s].read \in 0 .. BufferSize
          /\ bytes[s].written - bytes[s].sent \in 0 .. BufferSize
      BY DEF Data, Rings, Holds
    <2>3. bytes[s].read <= bytes[s].received /\ bytes[s].sent <= bytes[s].written
      BY <2>1, <2>2, Constants DEF Counters
    <2> QED
      BY <2>1, <2>3 DEF Buffers
  <1>2. \A p \in Procs : proc[p].state \in {"running", "asleep", "ready", "gone"}
    BY DEF Data, Typed, Processes
  <1>3. {taken[s] : s \in Socks} \cup {waiting[s] : s \in Socks} \subseteq Procs \cup {Nobody}
    BY DEF Data, Typed
  <1> QED
    BY <1>1, <1>2, <1>3 DEF TypeOK, Data, Typed, States

\* Whatever programs and peers do, the bytes stay in order.
LEMMA DataInvariance == Spec => []Data
  BY DataInit, DataStep, PTL DEF Spec

\* The types of the driver's variables and of the chip's registers, and that no
\* counter of the bytes of a direction passes the one it follows.
THEOREM TypeCorrect == Spec => []TypeOK
  BY DataInvariance, DataTypes, PTL

\* tx_frame and rx_frame deliver the bytes of each direction once and in order,
\* for every size of the buffers and of the pointers that run over them, under
\* whatever rules programs and peers break.
THEOREM OrderCorrect == Spec => []BytesInOrder
  BY DataInvariance, DataTypes, PTL

-----------------------------------------------------------------------------
(* Events, under all the rules                                             *)

Early == {"INIT", "LISTEN", "SYNSENT"}
Busy(p) == proc[p].state \in {"asleep", "ready"}

\* The owner of the socket is at its program, and the interrupt comes first.
Unattended(s) == edge = "due" /\ (waiting[s] # Nobody => ~Busy(waiting[s]))

\* What is so of a socket between two calls of its owner: who waits for it is
\* its owner and lives, and the events it reports belong to its state, but for
\* those the owner has just made stale, which the next interrupt clears unheard.
SocketFits(s) ==
  LET sr == chip[s].sr
      ir == chip[s].ir
  IN  /\ taken[s] = Nobody => sr = "CLOSED"
      /\ waiting[s] # Nobody => /\ waiting[s] = taken[s]
                                /\ proc[waiting[s]].state # "gone"
      /\ usable[s] => sr \in Connected /\ waiting[s] # Nobody
      /\ ~(ir \subseteq {"SENDOK"}) => waiting[s] # Nobody
      /\ ir # {} => edge # "high"
      /\ sr \in Early => ir = {}
      /\ sr = "SYNSENT" => /\ waiting[s] # Nobody
                           /\ proc[waiting[s]].state = "asleep"
                           /\ proc[waiting[s]].call = "connect"
      /\ "TIMEOUT" \in ir => sr = "CLOSED"
      /\ "DISCON" \in ir => sr # "ESTABLISHED"
      /\ sr = "CLOSED" /\ ~(ir \subseteq {"TIMEOUT"}) => Unattended(s)
      /\ "RECV" \in ir /\ chip[s].rx.rd = chip[s].rx.wr => Unattended(s)
      /\ "CON" \in ir /\ usable[s] => Unattended(s)

\* What a call that sleeps, or has been woken, can rely on.
CallFits(p) ==
  LET s == proc[p].sock
      call == proc[p].call
  IN  Busy(p) =>
        /\ waiting[s] = p
        /\ call = "accept" => chip[s].sr \in {"LISTEN"} \cup Connected
        /\ call = "read" => usable[s] /\ proc[p].count # 0
        /\ proc[p].state = "ready" =>
             /\ chip[s].sr \notin Early /\ "CON" \notin chip[s].ir
             /\ call = "connect" => chip[s].sr \in Connected \/ "TIMEOUT" \in recorded[s]
             /\ call = "read" => \/ chip[s].sr # "ESTABLISHED"
                                 \/ chip[s].rx.rd # chip[s].rx.wr

OneEach == \A r, s \in Socks : taken[r] = taken[s] /\ taken[r] # Nobody => r = s

\* The inductive invariant of the events.
EventInv ==
  /\ Data
  /\ OneEach
  /\ \A s \in Socks : SocketFits(s)
  /\ \A p \in Procs : CallFits(p)
  /\ truthful /\ damage = "none"

\* The events are right at first.
LEMMA EventInit == Init => EventInv
  <1> SUFFICES ASSUME Init
               PROVE  EventInv
    OBVIOUS
  <1>1. Data
    BY DataInit
  <1>2. OneEach
    BY DEF Init, OneEach
  <1>3. \A s \in Socks : SocketFits(s)
    BY DEF Init, SocketFits, Reset, Buffer, Early, Connected
  <1>4. \A p \in Procs : CallFits(p)
    BY DEF Init, CallFits, Busy, Awake
  <1> QED
    BY <1>1, <1>2, <1>3, <1>4 DEF EventInv, Init

\* Who waits for a socket, or sleeps on it, is its owner, and on no other.
LEMMA Owners ==
  ASSUME EventInv
  PROVE  /\ \A s \in Socks : waiting[s] # Nobody => taken[s] = waiting[s]
         /\ \A p \in Procs : Busy(p) => /\ proc[p].sock \in Socks
                                        /\ waiting[proc[p].sock] = p
                                        /\ taken[proc[p].sock] = p
                                        /\ p # Nobody
         /\ \A r, s \in Socks : taken[r] = taken[s] /\ taken[r] # Nobody => r = s
  <1>1. \A s \in Socks : waiting[s] # Nobody => taken[s] = waiting[s]
    BY DEF EventInv, SocketFits
  <1>2. ASSUME NEW p \in Procs, Busy(p)
        PROVE  proc[p].sock \in Socks /\ waiting[proc[p].sock] = p /\ p # Nobody
    <2>1. proc[p] \in Processes
      BY DEF EventInv, Data, Typed
    <2>2. proc[p].sock \in Socks
      BY <1>2, <2>1 DEF Processes, Busy
    <2>3. p # Nobody
      BY Constants
    <2> QED
      BY <1>2, <2>2, <2>3 DEF EventInv, CallFits
  <1> QED
    BY <1>1, <1>2 DEF EventInv, OneEach

\* What a call of p on its socket s leaves to be shown: the other sockets and
\* the other calls are as they were.
LEMMA CallStep ==
  ASSUME EventInv, NEW p \in Procs, NEW s \in Socks,
         edge # "due", edge' = "high" => edge = "high",
         taken'[s] = p, p # Nobody,
         \A r \in Socks \ {s} :
           /\ chip'[r] = chip[r] /\ taken'[r] = taken[r] /\ taken[r] # p
           /\ waiting'[r] = waiting[r] /\ usable'[r] = usable[r]
           /\ recorded'[r] = recorded[r],
         \A q \in Procs \ {p} : proc'[q] = proc[q],
         taken[s] \in {p, Nobody},
         Data', SocketFits(s)', CallFits(p)', truthful', damage' = "none"
  PROVE  EventInv'
  <1>1. OneEach'
    BY DEF EventInv, OneEach
  <1>2. ASSUME NEW r \in Socks, r # s
        PROVE  SocketFits(r)'
    <2>1. SocketFits(r) /\ waiting[r] # p
      BY <1>2 DEF EventInv, SocketFits
    <2>2. waiting[r] # Nobody => waiting[r] \in Procs /\ proc'[waiting[r]] = proc[waiting[r]]
      BY <2>1 DEF EventInv, Data, Typed
    <2> QED
      BY <1>2, <2>1, <2>2 DEF SocketFits, Unattended
  <1>3. ASSUME NEW q \in Procs, q # p
        PROVE  CallFits(q)'
    <2>1. CASE Busy(q)
      <3>1. proc[q].sock \in Socks /\ taken[proc[q].sock] = q /\ q # Nobody
        BY <2>1, Owners
      <3>2. proc[q].sock # s
        BY <1>3, <3>1
      <3>3. CallFits(q)
        BY DEF EventInv
      <3> QED
        BY <1>3, <3>1, <3>2, <3>3 DEF CallFits, Busy
    <2>2. CASE ~Busy(q)
      BY <1>3, <2>2 DEF CallFits, Busy
    <2> QED
      BY <2>1, <2>2
  <1> QED
    BY <1>1, <1>2, <1>3 DEF EventInv

\* The same of an event on socket s.
LEMMA NetworkStep ==
  ASSUME EventInv, NEW s \in Socks,
         \A r \in Socks \ {s} : chip'[r] = chip[r],
         edge' = Falls,
         UNCHANGED <<taken, waiting, recorded, proc, usable, truthful, damage>>,
         Data', SocketFits(s)',
         \A q \in Procs : Busy(q) /\ proc[q].sock = s => CallFits(q)'
  PROVE  EventInv'
  <1>1. ASSUME NEW r \in Socks, r # s
        PROVE  SocketFits(r)'
    <2>1. SocketFits(r) /\ chip'[r] = chip[r]
      BY <1>1 DEF EventInv
    <2>2. chip[r].ir # {} => edge' = edge
      BY DEF Falls
    <2>3. (chip[r].sr = "CLOSED" /\ ~(chip[r].ir \subseteq {"TIMEOUT"}))
          \/ "RECV" \in chip[r].ir \/ "CON" \in chip[r].ir => chip[r].ir # {}
      OBVIOUS
    <2> QED
      BY <2>1, <2>2, <2>3 DEF SocketFits, Unattended, Busy
  <1>2. ASSUME NEW q \in Procs
        PROVE  CallFits(q)'
    <2>1. CASE Busy(q) /\ proc[q].sock # s
      <3>1. proc[q].sock \in Socks /\ CallFits(q)
        BY <2>1, Owners DEF EventInv
      <3> QED
        BY <2>1, <3>1 DEF CallFits, Busy
    <2>2. CASE ~Busy(q)
      BY <2>2 DEF CallFits, Busy
    <2> QED
      BY <2>1, <2>2
  <1>3. OneEach'
    BY DEF EventInv, OneEach
  <1> QED
    BY <1>1, <1>2, <1>3 DEF EventInv

\* A change of state is noted for a socket that someone waits for.
LEMMA EventHappens ==
  ASSUME EventInv, Keeps("someone waits"), NEW s \in Socks,
         PeerConnects(s) \/ PeerAnswers(s) \/ PeerIsSilent(s) \/ PeerCloses(s)
  PROVE  EventInv'
  <1>1. PICK event \in {"CON", "TIMEOUT", "DISCON"}, from \in States, to \in States :
          /\ Happens(s, event, from, to)
          /\ \/ event = "CON" /\ from \in {"LISTEN", "SYNSENT"} /\ to = "ESTABLISHED"
             \/ event = "TIMEOUT" /\ from = "SYNSENT" /\ to = "CLOSED"
             \/ event = "DISCON" /\ from = "ESTABLISHED" /\ to = "CLOSE_WAIT"
    BY DEF PeerConnects, PeerAnswers, PeerIsSilent, PeerCloses, States, Connected
  <1>2. Data'
    BY <1>1, HappensData DEF EventInv, Events
  <1>3. /\ chip[s].sr = from /\ chip'[s].sr = to /\ chip'[s].ir = chip[s].ir \cup {event}
        /\ chip'[s].rx = chip[s].rx /\ \A r \in Socks \ {s} : chip'[r] = chip[r]
        /\ edge' = Falls /\ waiting[s] # Nobody
        /\ UNCHANGED <<taken, waiting, recorded, proc, usable, truthful, damage>>
    BY <1>1, ChipParts DEF Happens, EventInv, Data, Typed, Chips
  <1>4. SocketFits(s) /\ waiting[s] \in Procs
    BY <1>3 DEF EventInv, Data, Typed
  <1>5. edge' # "high"
    BY <1>3 DEF Falls, EventInv, SocketFits
  <1>6. SocketFits(s)'
    <2>1. chip[s].ir # {} => edge' = edge
      BY <1>3 DEF Falls
    <2>2. CASE event # "DISCON"
      <3>1. chip[s].ir = {} /\ ~usable[s]
        BY <1>1, <1>3, <1>4, <2>2 DEF SocketFits, Early, Connected
      <3> QED
        BY <1>1, <1>3, <1>4, <1>5, <2>2, <3>1 DEF SocketFits, Early, Connected
    <2>3. CASE event = "DISCON"
      <3>1. chip[s].sr = "ESTABLISHED" /\ chip'[s].sr = "CLOSE_WAIT"
        BY <1>1, <1>3, <2>3
      <3> QED
        BY <1>3, <1>4, <1>5, <2>1, <2>3, <3>1
           DEF SocketFits, Unattended, Busy, Early, Connected
    <2> QED
      BY <2>2, <2>3
  <1>7. ASSUME NEW q \in Procs, Busy(q), proc[q].sock = s
        PROVE  CallFits(q)'
    <2>1. CallFits(q) /\ waiting[s] = q
      BY <1>7, Owners DEF EventInv
    <2>2. CASE event = "CON"
      <3>1. proc[q].state = "asleep" /\ ~usable[s]
        BY <1>1, <1>3, <1>4, <1>7, <2>1, <2>2
           DEF CallFits, Busy, SocketFits, Early, Connected
      <3> QED
        BY <1>1, <1>3, <1>7, <2>1, <2>2, <3>1 DEF CallFits, Busy, Connected
    <2>3. CASE event = "TIMEOUT"
      <3>1. proc[q].state = "asleep" /\ proc[q].call = "connect"
        BY <1>1, <1>3, <1>4, <1>7, <2>1, <2>3 DEF CallFits, Busy, SocketFits
      <3> QED
        BY <1>1, <1>3, <1>7, <2>1, <2>3, <3>1 DEF CallFits, Busy
    <2>4. CASE event = "DISCON"
      <3>1. /\ chip'[s].sr = "CLOSE_WAIT" /\ proc'[q] = proc[q]
            /\ "CON" \in chip'[s].ir <=> "CON" \in chip[s].ir
            /\ UNCHANGED <<waiting, usable, recorded>>
        BY <1>1, <1>3, <2>4
      <3> QED
        BY <1>7, <2>1, <3>1 DEF CallFits, Busy, Connected, Early
    <2> QED
      BY <1>1, <2>2, <2>3, <2>4
  <1> QED
    BY <1>2, <1>3, <1>6, <1>7, NetworkStep

\* What is stored is there to be read.
LEMMA StoredIsThere ==
  ASSUME Data, NEW s \in Socks, NEW n \in 1 .. BufferSize, PeerSends(s, n)
  PROVE  chip'[s].rx.rd # chip'[s].rx.wr
  <1>1. bytes'[s].received = bytes[s].received + n /\ bytes'[s].read = bytes[s].read
    BY DEF PeerSends, Data, Typed, Counters
  <1>2. /\ bytes[s].received \in Nat /\ bytes[s].read \in Nat /\ n \in Nat /\ n # 0
        /\ bytes[s].received - bytes[s].read \in Nat
    BY Constants DEF Data, Typed, Counters, Rings, Holds
  <1>3. Holds(chip'[s].rx, bytes'[s].read, bytes'[s].received)
    <2>1. Data'
      BY PeerSendsData
    <2>2. Rings'
      BY <2>1 DEF Data
    <2> QED
      BY <2>2 DEF Rings, Holds
  <1> DEFINE from == bytes[s].read
             to == bytes[s].received + n
  <1>4. /\ chip'[s].rx.rd = from % RegModulus /\ chip'[s].rx.wr = to % RegModulus
        /\ to - from \in 0 .. BufferSize /\ from \in Nat /\ to \in Nat /\ to - from # 0
    BY <1>1, <1>2, <1>3 DEF Holds
  <1> HIDE DEF from, to
  <1>5. Distance(from % RegModulus, to % RegModulus) = to - from
    BY <1>4, DistanceOf
  <1>6. \A x \in Int : Distance(x, x) = 0
    BY Constants DEF Distance
  <1>7. from % RegModulus \in Int
    BY <1>4, Constants
  <1> QED
    BY <1>4, <1>5, <1>6, <1>7

\* A frame that arrives is noted for a socket that someone waits for.
LEMMA EventSends ==
  ASSUME EventInv, Keeps("someone waits"), NEW s \in Socks, NEW n \in 1 .. BufferSize,
         PeerSends(s, n)
  PROVE  EventInv'
  <1>1. Data'
    BY PeerSendsData DEF EventInv
  <1>2. chip'[s].rx.rd # chip'[s].rx.wr
    BY StoredIsThere DEF EventInv
  <1>3. /\ chip[s].sr = "ESTABLISHED" /\ chip'[s].sr = chip[s].sr
        /\ chip'[s].ir = chip[s].ir \cup {"RECV"}
        /\ \A r \in Socks \ {s} : chip'[r] = chip[r]
        /\ edge' = Falls /\ waiting[s] # Nobody
        /\ UNCHANGED <<taken, waiting, recorded, proc, usable, truthful, damage>>
    BY ChipParts DEF PeerSends, EventInv, Data, Typed, Chips
  <1>4. SocketFits(s) /\ (edge = "due" /\ chip[s].ir # {} => edge' = "due")
    BY <1>3 DEF EventInv, Falls
  <1>5. edge' # "high"
    BY <1>3 DEF Falls, EventInv, SocketFits
  <1>6. SocketFits(s)'
    BY <1>2, <1>3, <1>4, <1>5 DEF SocketFits, Unattended, Busy, Early, Connected
  <1>7. ASSUME NEW q \in Procs, Busy(q), proc[q].sock = s
        PROVE  CallFits(q)'
    <2>1. CallFits(q)
      BY DEF EventInv
    <2>2. /\ "CON" \in chip'[s].ir <=> "CON" \in chip[s].ir
          /\ chip'[s].sr = chip[s].sr /\ proc'[q] = proc[q]
          /\ UNCHANGED <<waiting, usable, recorded>>
      BY <1>3
    <2> QED
      BY <1>2, <1>7, <2>1, <2>2 DEF CallFits, Busy
  <1> QED
    BY <1>1, <1>3, <1>6, <1>7, NetworkStep

\* The end of a transmission is noted for nobody.
LEMMA EventTransmits ==
  ASSUME EventInv, NEW s \in Socks, Transmits(s)
  PROVE  EventInv'
  <1>1. Data'
    BY TransmitsData DEF EventInv
  <1>2. /\ chip[s].sr \in Connected /\ chip'[s].sr = chip[s].sr
        /\ chip'[s].ir = chip[s].ir \cup {"SENDOK"} /\ chip'[s].rx = chip[s].rx
        /\ \A r \in Socks \ {s} : chip'[r] = chip[r]
        /\ edge' = Falls
        /\ UNCHANGED <<taken, waiting, recorded, proc, usable, truthful, damage>>
    BY ChipParts DEF Transmits, EventInv, Data, Typed, Chips
  <1>3. SocketFits(s) /\ (edge = "due" /\ chip[s].ir # {} => edge' = "due")
    BY <1>2 DEF EventInv, Falls
  <1>4. edge' # "high"
    BY <1>2 DEF Falls, EventInv, SocketFits
  <1>5. SocketFits(s)'
    BY <1>2, <1>3, <1>4 DEF SocketFits, Unattended, Busy, Early, Connected
  <1>6. ASSUME NEW q \in Procs, Busy(q), proc[q].sock = s
        PROVE  CallFits(q)'
    <2>1. CallFits(q)
      BY DEF EventInv
    <2> QED
      BY <1>2, <1>6, <2>1 DEF CallFits, Busy
  <1> QED
    BY <1>1, <1>2, <1>5, <1>6, NetworkStep

\* What the interrupt notes comes from a socket its owner waits for.
LEMMA NotedWaits ==
  ASSUME EventInv, NEW pair \in Noted
  PROVE  /\ pair[1] \in Socks /\ pair[2] \in Events \ {"SENDOK"}
         /\ pair[2] \in chip[pair[1]].ir
         /\ waiting[pair[1]] # Nobody /\ waiting[pair[1]] \in Procs
         /\ proc[waiting[pair[1]]].state # "gone"
  <1>1. /\ pair[1] \in Socks /\ pair[2] \in Events \ {"SENDOK"}
        /\ pair[1] \in FirstWith(pair[2])
    BY DEF Noted
  <1>2. pair[2] \in chip[pair[1]].ir
    <2> DEFINE those == {s \in Socks : pair[2] \in chip[s].ir}
    <2>1. those # {} /\ pair[1] = Min(those)
      BY <1>1 DEF FirstWith
    <2>2. those \in SUBSET Nat
      BY Constants
    <2> HIDE DEF those
    <2>3. pair[1] \in those
      BY <2>1, <2>2, Least
    <2> QED
      BY <2>3 DEF those
  <1>3. waiting[pair[1]] # Nobody /\ proc[waiting[pair[1]]].state # "gone"
    BY <1>1, <1>2 DEF EventInv, SocketFits
  <1>4. waiting[pair[1]] \in Procs
    BY <1>1, <1>3 DEF EventInv, Data, Typed
  <1> QED
    BY <1>1, <1>2, <1>3, <1>4

\* The interrupt wakes who waits, and notes what happened.
LEMMA EventInterrupt ==
  ASSUME EventInv, eth_irq
  PROVE  EventInv'
  <1>1. Data'
    BY InterruptData DEF EventInv
  <1>2. Nobody \notin Woken /\ \A p \in Woken : p \in Procs /\ proc[p].state # "gone"
    BY NotedWaits DEF Woken
  <1>3. /\ recorded' = [s \in Socks |->
                          recorded[s] \cup {pair[2] : pair \in {x \in Noted : x[1] = s}}]
        /\ proc' = [p \in Procs |->
                      IF p \in Woken /\ proc[p].state = "asleep"
                      THEN [proc[p] EXCEPT !.state = "ready"] ELSE proc[p]]
        /\ chip' = [s \in Socks |-> [chip[s] EXCEPT !.ir = {}]]
        /\ edge' = "high" /\ damage' = "none"
        /\ UNCHANGED <<taken, waiting, usable, truthful>>
    BY <1>2 DEF eth_irq, EventInv
  <1>4. ASSUME NEW s \in Socks
        PROVE  /\ chip'[s].ir = {} /\ chip'[s].sr = chip[s].sr
               /\ chip'[s].rx = chip[s].rx
    BY <1>3, ChipParts DEF EventInv, Data, Chips
  <1>5. ASSUME NEW p \in Procs
        PROVE  /\ proc'[p].call = proc[p].call /\ proc'[p].sock = proc[p].sock
               /\ proc'[p].count = proc[p].count
               /\ IF p \in Woken /\ proc[p].state = "asleep"
                  THEN proc'[p].state = "ready" ELSE proc'[p] = proc[p]
    <2>1. proc[p] \in Processes
      BY DEF EventInv, Data, Typed
    <2> QED
      BY <1>3, <2>1 DEF Processes
  <1>6. OneEach'
    BY <1>3 DEF EventInv, OneEach
  <1>7. ASSUME NEW s \in Socks
        PROVE  SocketFits(s)'
    <2>1. SocketFits(s)
      BY DEF EventInv
    <2>2. waiting[s] # Nobody => waiting[s] \in Procs
      BY DEF EventInv, Data, Typed
    <2>3. ASSUME chip[s].sr = "SYNSENT"
          PROVE  waiting[s] \notin Woken
      <3> SUFFICES ASSUME waiting[s] \in Woken
                   PROVE  FALSE
        OBVIOUS
      <3>1. PICK pair \in Noted : waiting[s] = waiting[pair[1]]
        BY DEF Woken
      <3>2. pair[1] \in Socks /\ pair[2] \in chip[pair[1]].ir /\ waiting[pair[1]] # Nobody
        BY NotedWaits
      <3>3. pair[1] = s
        BY <3>1, <3>2, Owners
      <3> QED
        BY <2>1, <2>3, <3>2, <3>3 DEF SocketFits, Early
    <2> QED
      BY <1>3, <1>4, <1>5, <2>1, <2>2, <2>3 DEF SocketFits
  <1>8. ASSUME NEW q \in Procs
        PROVE  CallFits(q)'
    <2>1. CASE ~Busy(q)
      BY <1>5, <2>1 DEF CallFits, Busy
    <2>2. CASE Busy(q)
      <3> DEFINE s == proc[q].sock
      <3>1. s \in Socks /\ waiting[s] = q /\ taken[s] = q /\ q # Nobody
        BY <2>2, Owners
      <3>2. CallFits(q) /\ SocketFits(s) /\ ~Unattended(s)
        BY <2>2, <3>1 DEF EventInv, Unattended
      <3>3. /\ waiting'[s] = q /\ chip'[s].ir = {} /\ chip'[s].sr = chip[s].sr
            /\ chip'[s].rx = chip[s].rx /\ usable'[s] = usable[s]
            /\ recorded[s] \subseteq recorded'[s] /\ proc'[q].sock = s
        BY <1>3, <1>4, <1>5, <3>1
      <3>4. CASE proc'[q] = proc[q]
        BY <2>2, <3>2, <3>3, <3>4 DEF CallFits, Busy
      <3>5. CASE proc[q].state = "asleep" /\ q \in Woken
        <4>1. PICK pair \in Noted : q = waiting[pair[1]]
          BY <3>5 DEF Woken
        <4>2. /\ pair[1] \in Socks /\ pair[2] \in Events \ {"SENDOK"}
              /\ pair[2] \in chip[pair[1]].ir
          BY NotedWaits
        <4>3. pair[1] = s
          BY <3>1, <4>1, <4>2, Owners
        <4> DEFINE e == pair[2]
        <4>4. e \in chip[s].ir /\ e \in recorded'[s] /\ e \in Events \ {"SENDOK"}
          BY <1>3, <3>1, <4>2, <4>3
        <4> HIDE DEF e
        <4>5. chip[s].sr \notin Early
          BY <3>2, <4>4 DEF SocketFits
        <4>6. ASSUME proc[q].call = "connect"
              PROVE  chip[s].sr \in Connected \/ "TIMEOUT" \in recorded'[s]
          <5>1. CASE chip[s].sr = "CLOSED"
            <6>1. chip[s].ir \subseteq {"TIMEOUT"}
              BY <3>2, <5>1 DEF SocketFits
            <6> QED
              BY <4>4, <6>1
          <5>2. CASE chip[s].sr # "CLOSED"
            <6>1. chip[s].sr \in States
              BY <3>1, ChipParts DEF EventInv, Data
            <6> QED
              BY <4>5, <5>2, <6>1 DEF States, Early
          <5> QED
            BY <5>1, <5>2
        <4>7. ASSUME proc[q].call = "read"
              PROVE  chip[s].sr # "ESTABLISHED" \/ chip[s].rx.rd # chip[s].rx.wr
          <5>1. usable[s]
            BY <2>2, <3>2, <4>7 DEF CallFits
          <5> QED
            BY <3>2, <4>4, <5>1 DEF SocketFits, Events
        <4>8. /\ proc'[q].state = "ready" /\ proc'[q].call = proc[q].call
              /\ proc'[q].count = proc[q].count
          BY <1>5, <3>5
        <4> HIDE DEF s
        <4> QED
          BY <2>2, <3>2, <3>3, <4>5, <4>6, <4>7, <4>8 DEF CallFits, Busy, s
      <3> QED
        BY <1>5, <3>4, <3>5
    <2> QED
      BY <2>1, <2>2
  <1> QED
    BY <1>1, <1>3, <1>6, <1>7, <1>8 DEF EventInv

\* What the driver finds when it is called, or goes on, with the pin not due.
LEMMA AtCall ==
  ASSUME EventInv, edge # "due", NEW s \in Socks
  PROVE  /\ SocketFits(s) /\ ~Unattended(s)
         /\ Leaves => /\ edge' = "high" => edge = "high"
                      /\ chip[s].ir # {} => edge' = "due"
  BY DEF EventInv, Unattended, Leaves, SocketFits, Data, Typed

\* What the owner of a socket calls for, and no other call stands on it.
LEMMA OwnersOthers ==
  ASSUME EventInv, NEW p \in Procs, NEW s \in Socks, taken[s] = p
  PROVE  /\ \A r \in Socks \ {s} : taken[r] # p
         /\ waiting[s] # Nobody => waiting[s] = p
         /\ p # Nobody
  <1>1. p # Nobody
    BY Constants
  <1> QED
    BY <1>1, Owners

\* A new socket keeps the events right, since its owner had none before.
LEMMA EventSocket ==
  ASSUME EventInv, Keeps("one socket each"), NEW p \in Procs, sys_socket(p)
  PROVE  EventInv'
  <1>1. PICK s \in Socks : s = create_socket /\ taken[s] = Nobody
    BY CreatesFree DEF sys_socket
  <1>2. /\ edge # "due" /\ Leaves /\ proc[p].state = "running"
        /\ taken' = [taken EXCEPT ![s] = p] /\ chip' = [chip EXCEPT ![s].sr = "INIT"]
        /\ \A r \in Socks : taken[r] # p
        /\ UNCHANGED <<waiting, recorded, proc, usable, truthful, damage>>
    BY <1>1 DEF sys_socket, Calls
  <1>3. /\ chip'[s].sr = "INIT" /\ chip'[s].ir = chip[s].ir
        /\ \A r \in Socks \ {s} : chip'[r] = chip[r]
        /\ taken'[s] = p /\ \A r \in Socks \ {s} : taken'[r] = taken[r]
    BY <1>2, ChipParts DEF EventInv, Data, Typed, Chips
  <1>4. SocketFits(s) /\ ~Unattended(s) /\ (edge' = "high" => edge = "high")
    BY <1>2, AtCall
  <1>5. waiting[s] = Nobody /\ ~usable[s] /\ chip[s].ir = {}
    <2>1. waiting[s] = Nobody
      BY <1>1, <1>4 DEF SocketFits
    <2> QED
      BY <1>1, <1>4, <2>1 DEF SocketFits
  <1>6. SocketFits(s)'
    BY <1>2, <1>3, <1>5, Constants DEF SocketFits, Early, Connected
  <1>7. CallFits(p)'
    BY <1>2 DEF CallFits, Busy
  <1>8. Data' /\ p # Nobody
    BY SocketData, Constants DEF EventInv
  <1>9. truthful' /\ damage' = "none"
    BY <1>2 DEF EventInv
  <1> QED
    BY <1>1, <1>2, <1>3, <1>4, <1>6, <1>7, <1>8, <1>9, CallStep

\* A listen keeps the events right.
LEMMA EventListen ==
  ASSUME EventInv, NEW p \in Procs, NEW s \in Socks, listen_socket(p, s)
  PROVE  EventInv'
  <1>1. /\ edge # "due" /\ Leaves /\ proc[p].state = "running" /\ taken[s] = p
        /\ chip[s].sr = "INIT" /\ chip' = [chip EXCEPT ![s].sr = "LISTEN"]
        /\ UNCHANGED <<taken, waiting, recorded, proc, usable, truthful, damage>>
    BY DEF listen_socket, CallsOn, Calls
  <1>2. /\ chip'[s].sr = "LISTEN" /\ chip'[s].ir = chip[s].ir
        /\ \A r \in Socks \ {s} : chip'[r] = chip[r]
    BY <1>1, ChipParts DEF EventInv, Data, Typed, Chips
  <1>3. SocketFits(s) /\ (edge' = "high" => edge = "high")
    BY <1>1, AtCall
  <1>4. ~usable[s] /\ chip[s].ir = {}
    BY <1>1, <1>3 DEF SocketFits, Early, Connected
  <1>5. (\A r \in Socks \ {s} : taken[r] # p) /\ p # Nobody
    BY <1>1, OwnersOthers
  <1>6. SocketFits(s)'
    BY <1>1, <1>2, <1>3, <1>4, <1>5 DEF SocketFits, Early, Connected
  <1>7. CallFits(p)'
    BY <1>1 DEF CallFits, Busy
  <1>8. Data' /\ truthful' /\ damage' = "none"
    BY <1>1, ListenData DEF EventInv
  <1> QED
    BY <1>1, <1>2, <1>3, <1>5, <1>6, <1>7, <1>8, CallStep

\* Nobody leaves who is waited for.
LEMMA EventExit ==
  ASSUME EventInv, Keeps("stay"), NEW p \in Procs, Exit(p)
  PROVE  EventInv'
  <1>1. /\ edge # "due" /\ Leaves /\ \A s \in Socks : waiting[s] # p
        /\ proc' = [proc EXCEPT ![p] = [Awake EXCEPT !.state = "gone"]]
        /\ UNCHANGED <<chip, taken, waiting, recorded, usable, truthful, damage>>
    BY DEF Exit, Calls
  <1>2. proc'[p].state = "gone" /\ \A q \in Procs \ {p} : proc'[q] = proc[q]
    BY <1>1 DEF EventInv, Data, Typed, Awake
  <1>3. ASSUME NEW s \in Socks
        PROVE  SocketFits(s)'
    <2>1. SocketFits(s) /\ ~Unattended(s) /\ (edge' = "high" => edge = "high")
      BY <1>1, AtCall
    <2>2. waiting[s] # Nobody => proc'[waiting[s]] = proc[waiting[s]]
      BY <1>1, <1>2 DEF EventInv, Data, Typed
    <2> QED
      BY <1>1, <2>1, <2>2 DEF SocketFits
  <1>4. ASSUME NEW q \in Procs
        PROVE  CallFits(q)'
    <2>1. CallFits(q)
      BY DEF EventInv
    <2> QED
      BY <1>1, <1>2, <2>1 DEF CallFits, Busy
  <1>5. Data' /\ truthful' /\ damage' = "none" /\ OneEach'
    BY <1>1, ExitData DEF EventInv, OneEach
  <1> QED
    BY <1>3, <1>4, <1>5 DEF EventInv

\* A call begins to sleep: nothing it waits for is there.
LEMMA EventSleeps ==
  ASSUME EventInv, NEW p \in Procs, NEW s \in Socks, NEW n \in Nat,
         NEW call \in {"accept", "connect", "read"},
         edge # "due", Leaves, taken[s] = p, Sleeps(p, s, call, n), Data',
         UNCHANGED <<taken, recorded, usable, truthful, damage>>,
         \A r \in Socks \ {s} : chip'[r] = chip[r],
         chip'[s].ir = chip[s].ir, chip'[s].rx = chip[s].rx,
         \/ chip'[s].sr = chip[s].sr /\ (chip[s].sr = "SYNSENT" => call = "connect")
         \/ chip[s].sr = "INIT" /\ chip'[s].sr = "SYNSENT" /\ call = "connect",
         call = "accept" => chip[s].sr \in {"LISTEN"} \cup Connected,
         call = "read" => usable[s] /\ n # 0
  PROVE  EventInv'
  <1>1. /\ proc'[p].state = "asleep" /\ proc'[p].call = call /\ proc'[p].sock = s
        /\ proc'[p].count = n
        /\ \A q \in Procs \ {p} : proc'[q] = proc[q]
        /\ waiting'[s] = p /\ \A r \in Socks \ {s} : waiting'[r] = waiting[r]
    BY DEF Sleeps, EventInv, Data, Typed
  <1>2. SocketFits(s) /\ ~Unattended(s) /\ (edge' = "high" => edge = "high")
    BY AtCall
  <1>3. (\A r \in Socks \ {s} : taken[r] # p) /\ p # Nobody
    BY OwnersOthers
  <1>4. SocketFits(s)'
    <2>1. CASE chip'[s].sr = chip[s].sr
      BY <1>1, <1>2, <1>3, <2>1 DEF SocketFits
    <2>2. CASE chip[s].sr = "INIT" /\ chip'[s].sr = "SYNSENT" /\ call = "connect"
      <3>1. chip[s].ir = {} /\ ~usable[s]
        BY <1>2, <2>2 DEF SocketFits, Early, Connected
      <3> QED
        BY <1>1, <1>3, <2>2, <3>1 DEF SocketFits, Early, Connected
    <2> QED
      BY <2>1, <2>2
  <1>5. CallFits(p)'
    BY <1>1 DEF CallFits, Busy
  <1>6. truthful' /\ damage' = "none"
    BY DEF EventInv
  <1> QED
    BY <1>1, <1>2, <1>3, <1>4, <1>5, <1>6, CallStep

\* A call returns, with the socket connected or as it was, and the chip as it
\* was but for bytes it has read.
LEMMA EventReturns ==
  ASSUME EventInv, NEW p \in Procs, NEW s \in Socks,
         edge # "due", Leaves, taken[s] = p, Returns(p), Data', truthful',
         UNCHANGED <<taken, waiting, damage>>,
         \A r \in Socks \ {s} : chip'[r] = chip[r] /\ usable'[r] = usable[r]
                                /\ recorded'[r] = recorded[r],
         chip'[s].sr = chip[s].sr, chip'[s].ir = chip[s].ir,
         \/ usable'[s] = usable[s]
         \/ usable'[s] = TRUE /\ chip[s].sr \in Connected,
         waiting[s] # Nobody, proc[p].state # "asleep"
  PROVE  EventInv'
  <1>1. proc'[p] = Awake /\ \A q \in Procs \ {p} : proc'[q] = proc[q]
    BY DEF Returns, EventInv, Data, Typed
  <1>2. /\ SocketFits(s) /\ ~Unattended(s) /\ (edge' = "high" => edge = "high")
        /\ chip[s].ir # {} => edge' = "due"
    BY AtCall
  <1>3. (\A r \in Socks \ {s} : taken[r] # p) /\ p # Nobody /\ waiting[s] = p
    BY OwnersOthers
  <1>4. chip[s].sr # "SYNSENT"
    BY <1>2, <1>3 DEF SocketFits
  <1>5. SocketFits(s)'
    <2>1. chip[s].ir # {} => Unattended(s)'
      BY <1>1, <1>2, <1>3 DEF Unattended, Busy, Awake
    <2> QED
      BY <1>1, <1>2, <1>3, <1>4, <2>1 DEF SocketFits, Awake
  <1>6. CallFits(p)'
    BY <1>1 DEF CallFits, Busy, Awake
  <1>7. damage' = "none"
    BY DEF EventInv
  <1> QED
    BY <1>1, <1>2, <1>3, <1>4, <1>5, <1>6, <1>7, CallStep

\* An accept keeps the events right, when it is called
LEMMA EventAccept ==
  ASSUME EventInv, NEW p \in Procs, NEW s \in Socks, accept_socket(p, s)
  PROVE  EventInv'
  <1>1. /\ edge # "due" /\ Leaves /\ proc[p].state = "running" /\ taken[s] = p
        /\ chip[s].sr \in {"LISTEN"} \cup Connected
        /\ UNCHANGED <<chip, taken, recorded, bytes, ordered, damage>>
    BY DEF accept_socket, CallsOn, Calls
  <1>2. SocketFits(s) /\ Data'
    BY AcceptData DEF EventInv
  <1>3. CASE "CON" \in chip[s].ir
    <2>1. AcceptReturns(p, s)
      BY <1>3 DEF accept_socket
    <2>2. chip[s].sr \in Connected /\ waiting[s] # Nobody
      BY <1>1, <1>2, <1>3 DEF SocketFits, Early
    <2>3. /\ Returns(p) /\ waiting' = waiting /\ truthful'
          /\ usable'[s] = TRUE /\ \A r \in Socks \ {s} : usable'[r] = usable[r]
      BY <2>1, <2>2 DEF AcceptReturns, EventInv, Data, Typed
    <2> QED
      BY <1>1, <1>2, <2>2, <2>3, EventReturns
  <1>4. CASE "CON" \notin chip[s].ir
    <2>1. Sleeps(p, s, "accept", 0) /\ UNCHANGED <<usable, truthful>>
      BY <1>4 DEF accept_socket
    <2>2. 0 \in Nat /\ chip[s].sr # "SYNSENT"
      BY <1>1 DEF Connected
    <2> QED
      BY <1>1, <1>2, <2>1, <2>2, EventSleeps
  <1> QED
    BY <1>3, <1>4

\* What a woken call finds.
LEMMA AtResume ==
  ASSUME EventInv, NEW p \in Procs, NEW call, Resumes(p, call)
  PROVE  /\ SockOf(p) \in Socks /\ edge # "due" /\ taken[SockOf(p)] = p
         /\ waiting[SockOf(p)] # Nobody /\ proc[p].state = "ready"
         /\ proc[p].call = call /\ chip[SockOf(p)].sr \notin Early
         /\ call = "accept" => chip[SockOf(p)].sr \in Connected
         /\ call = "connect" => \/ chip[SockOf(p)].sr \in Connected
                                \/ "TIMEOUT" \in recorded[SockOf(p)]
         /\ call = "read" => /\ \/ chip[SockOf(p)].sr # "ESTABLISHED"
                                \/ chip[SockOf(p)].rx.rd # chip[SockOf(p)].rx.wr
                             /\ proc[p].count # 0
  <1>1. edge # "due" /\ proc[p].state = "ready" /\ proc[p].call = call /\ Busy(p)
    BY DEF Resumes, Busy
  <1>2. /\ SockOf(p) \in Socks /\ taken[SockOf(p)] = p /\ waiting[SockOf(p)] = p
        /\ p # Nobody
    BY <1>1, Owners DEF SockOf
  <1>3. CallFits(p)
    BY DEF EventInv
  <1> QED
    BY <1>1, <1>2, <1>3 DEF CallFits, SockOf, Early

\* and when it is resumed.
LEMMA EventAcceptResumed ==
  ASSUME EventInv, NEW p \in Procs, accept_resumed(p)
  PROVE  EventInv'
  <1>1. PICK s \in Socks : s = SockOf(p)
    BY AtResume DEF accept_resumed
  <1>2. /\ edge # "due" /\ Leaves /\ taken[s] = p /\ proc[p].state # "asleep"
        /\ waiting[s] # Nobody /\ chip[s].sr \in Connected /\ AcceptReturns(p, s)
        /\ UNCHANGED <<chip, taken, recorded, bytes, ordered, damage>>
    BY <1>1, AtResume DEF accept_resumed
  <1>3. Data'
    BY <1>2, AcceptReturnsData DEF EventInv
  <1>4. /\ Returns(p) /\ waiting' = waiting /\ truthful'
        /\ usable'[s] = TRUE /\ \A r \in Socks \ {s} : usable'[r] = usable[r]
    BY <1>2 DEF AcceptReturns, EventInv, Data, Typed
  <1> QED
    BY <1>2, <1>3, <1>4, EventReturns

\* connect_socket takes what was recorded for an answer: it is one where no
\* timeout was recorded.
LEMMA EventConnectReturns ==
  ASSUME EventInv, NEW p \in Procs, NEW s \in Socks, ConnectReturns(p, s),
         edge # "due", Leaves, taken[s] = p, Data', proc[p].state # "asleep",
         waiting[s] # Nobody,
         chip[s].sr \in Connected \/ "TIMEOUT" \in recorded[s],
         \A r \in Socks : chip'[r] = chip[r], UNCHANGED <<taken, damage>>
  PROVE  EventInv'
  <1> DEFINE seen == IF "TIMEOUT" \in recorded[s] THEN {"TIMEOUT"} ELSE {"CON"}
             succeeds == seen = {"CON"} /\ "CON" \in recorded[s]
  <1>1. /\ Returns(p) /\ waiting' = waiting
        /\ recorded' = [recorded EXCEPT ![s] = @ \ seen]
        /\ usable' = [usable EXCEPT ![s] = @ \/ succeeds]
        /\ truthful' = (truthful /\ (succeeds => chip[s].sr \in Connected))
    BY DEF ConnectReturns
  <1>2. succeeds => chip[s].sr \in Connected
    <2>1. ASSUME "TIMEOUT" \in recorded[s]
          PROVE  seen # {"CON"}
      BY <2>1
    <2> QED
      BY <2>1
  <1> HIDE DEF seen, succeeds
  <1>3. truthful'
    BY <1>1, <1>2 DEF EventInv
  <1>4. \A r \in Socks \ {s} : usable'[r] = usable[r] /\ recorded'[r] = recorded[r]
    BY <1>1 DEF EventInv, Data, Typed
  <1>5. usable'[s] = (usable[s] \/ succeeds) /\ usable[s] \in BOOLEAN
    BY <1>1, Zenon DEF EventInv, Data, Typed
  <1>6. CASE succeeds
    <2>1. usable'[s] = TRUE
      BY <1>5, <1>6
    <2> QED
      BY <1>1, <1>2, <1>3, <1>4, <1>6, <2>1, EventReturns
  <1>7. CASE ~succeeds
    <2>1. usable'[s] = usable[s]
      BY <1>5, <1>7
    <2> QED
      BY <1>1, <1>3, <1>4, <2>1, EventReturns
  <1> QED
    BY <1>6, <1>7

\* A connect keeps them right, when it is called
LEMMA EventConnect ==
  ASSUME EventInv, Keeps("someone waits"), NEW p \in Procs, NEW s \in Socks,
         connect_socket(p, s)
  PROVE  EventInv'
  <1>1. /\ edge # "due" /\ Leaves /\ proc[p].state = "running" /\ taken[s] = p
        /\ chip' = [chip EXCEPT
             ![s].sr = IF @ # "INIT" THEN @ ELSE "SYNSENT", ![s].ir = @]
        /\ IF "CON" \in chip[s].ir THEN ConnectReturns(p, s)
           ELSE Sleeps(p, s, "connect", 0) /\ UNCHANGED <<recorded, usable, truthful>>
        /\ UNCHANGED <<taken, bytes, ordered, damage>>
    BY DEF connect_socket, CallsOn, Calls
  <1>2. /\ chip'[s].sr = (IF chip[s].sr # "INIT" THEN chip[s].sr ELSE "SYNSENT")
        /\ chip'[s].ir = chip[s].ir /\ chip'[s].rx = chip[s].rx
        /\ chip'[s].tx = chip[s].tx
        /\ \A r \in Socks \ {s} : chip'[r] = chip[r]
    BY <1>1, ChipParts DEF EventInv, Data, Typed, Chips
  <1>3. SocketFits(s) /\ ~Unattended(s) /\ Data'
    BY <1>1, AtCall, ConnectData DEF EventInv
  <1>4. CASE "CON" \in chip[s].ir
    <2>1. chip[s].sr \notin Early /\ waiting[s] # Nobody /\ chip[s].sr # "CLOSED"
      BY <1>3, <1>4 DEF SocketFits
    <2>2. chip[s].sr \in Connected
      <3>1. chip[s].sr \in States
        BY ChipParts DEF EventInv, Data
      <3> QED
        BY <2>1, <3>1 DEF States, Early
    <2>3. \A r \in Socks : chip'[r] = chip[r]
      <3>1. chip[s].sr # "INIT"
        BY <2>1 DEF Early
      <3>2. chip'[s] = chip[s]
        BY <1>2, <1>3, <3>1, ChipParts DEF EventInv, Data, Typed, Chips
      <3> QED
        BY <1>2, <3>2
    <2> QED
      BY <1>1, <1>3, <1>4, <2>1, <2>2, <2>3, EventConnectReturns
  <1>5. CASE "CON" \notin chip[s].ir
    <2>1. Sleeps(p, s, "connect", 0) /\ UNCHANGED <<recorded, usable, truthful>>
      BY <1>1, <1>5
    <2>2. 0 \in Nat
      OBVIOUS
    <2>3. \/ chip'[s].sr = chip[s].sr
          \/ chip[s].sr = "INIT" /\ chip'[s].sr = "SYNSENT"
      BY <1>2
    <2> QED
      BY <1>1, <1>2, <1>3, <2>1, <2>2, <2>3, EventSleeps
  <1> QED
    BY <1>4, <1>5

\* and when it is resumed.
LEMMA EventConnectResumed ==
  ASSUME EventInv, NEW p \in Procs, connect_resumed(p)
  PROVE  EventInv'
  <1>1. PICK s \in Socks : s = SockOf(p)
    BY AtResume DEF connect_resumed
  <1>2. /\ edge # "due" /\ Leaves /\ taken[s] = p /\ proc[p].state # "asleep"
        /\ waiting[s] # Nobody /\ ConnectReturns(p, s)
        /\ chip[s].sr \in Connected \/ "TIMEOUT" \in recorded[s]
        /\ UNCHANGED <<chip, taken, damage>>
    BY <1>1, AtResume DEF connect_resumed
  <1>3. Data'
    BY ConnectResumedData DEF EventInv
  <1> QED
    BY <1>2, <1>3, EventConnectReturns

\* A read that may take a byte and finds one there does not return nothing.
LEMMA EventReadReturns ==
  ASSUME EventInv, NEW p \in Procs, NEW s \in Socks, NEW n \in Nat, n # 0,
         ReadReturns(p, s, n),
         edge # "due", Leaves, taken[s] = p, Data', proc[p].state # "asleep",
         waiting[s] # Nobody,
         chip[s].sr # "ESTABLISHED" \/ chip[s].rx.rd # chip[s].rx.wr,
         UNCHANGED <<taken, recorded, usable, damage>>
  PROVE  EventInv'
  <1> DEFINE in == read_rxbuf(chip[s].rx, n)
  <1>1. /\ Returns(p) /\ waiting' = waiting
        /\ truthful' = (truthful /\ (in = <<>> => chip[s].sr # "ESTABLISHED"))
        /\ chip' = [chip EXCEPT ![s].rx.rd = add_to_socket_pointer_reg(@, Len(in))]
    BY DEF ReadReturns
  <1>2. in = <<>> => chip[s].rx.rd = chip[s].rx.wr
    <2>1. /\ chip[s].rx \in Buffers /\ bytes[s] \in Counters
      BY ChipParts DEF EventInv, Data, Typed
    <2>2. /\ bytes[s].read \in Nat /\ bytes[s].received \in Nat
          /\ Holds(chip[s].rx, bytes[s].read, bytes[s].received)
      BY <2>1 DEF EventInv, Data, Rings, Counters
    <2>3. PICK m \in 0 .. bytes[s].received - bytes[s].read :
            /\ in = Run(bytes[s].read, m)
            /\ m = 0 => n = 0 \/ bytes[s].read = bytes[s].received
      BY <2>1, <2>2, ReadOf
    <2>4. in = <<>> <=> m = 0
      <3>1. m \in Nat
        BY <2>2
      <3> QED
        BY <2>2, <2>3, <3>1, RunFacts
    <2> QED
      BY <2>2, <2>3, <2>4 DEF Holds
  <1> HIDE DEF in
  <1>3. truthful'
    BY <1>1, <1>2 DEF EventInv
  <1>4. /\ chip'[s].sr = chip[s].sr /\ chip'[s].ir = chip[s].ir
        /\ \A r \in Socks \ {s} : chip'[r] = chip[r]
    BY <1>1, ChipParts DEF EventInv, Data, Typed, Chips
  <1> QED
    BY <1>1, <1>3, <1>4, EventReturns

\* A read keeps them right, when it is called
LEMMA EventRxFrame ==
  ASSUME EventInv, Keeps("transfer when told"), NEW p \in Procs, NEW s \in Socks,
         NEW n \in 1 .. BufferSize, rx_frame(p, s, n)
  PROVE  EventInv'
  <1>1. /\ edge # "due" /\ Leaves /\ proc[p].state = "running" /\ taken[s] = p
        /\ usable[s] /\ UNCHANGED <<taken, recorded, usable, damage>>
    BY DEF rx_frame, CallsOn, Calls, MayTransfer
  <1>2. SocketFits(s) /\ ~Unattended(s) /\ Data' /\ n \in Nat /\ n # 0
    <2>1. n \in Nat /\ n # 0
      BY Lengths
    <2>2. Data'
      BY RxFrameData DEF EventInv
    <2> QED
      BY <1>1, <2>1, <2>2, AtCall
  <1>3. CASE "RECV" \in chip[s].ir
    <2>1. ReadReturns(p, s, n)
      BY <1>3 DEF rx_frame
    <2>2. chip[s].rx.rd # chip[s].rx.wr /\ waiting[s] # Nobody
      BY <1>1, <1>2, <1>3 DEF SocketFits
    <2> QED
      BY <1>1, <1>2, <2>1, <2>2, EventReadReturns
  <1>4. CASE "RECV" \notin chip[s].ir
    <2>1. Sleeps(p, s, "read", n) /\ UNCHANGED <<chip, truthful>>
      BY <1>4 DEF rx_frame
    <2>2. chip[s].sr # "SYNSENT"
      BY <1>1, <1>2 DEF SocketFits, Connected
    <2> QED
      BY <1>1, <1>2, <2>1, <2>2, EventSleeps
  <1> QED
    BY <1>3, <1>4

\* and when it is resumed.
LEMMA EventReadResumed ==
  ASSUME EventInv, NEW p \in Procs, read_resumed(p)
  PROVE  EventInv'
  <1>1. PICK s \in Socks : s = SockOf(p)
    BY AtResume DEF read_resumed
  <1>2. PICK n \in Nat : n = proc[p].count
    BY DEF EventInv, Data, Typed, Processes
  <1>3. /\ edge # "due" /\ Leaves /\ taken[s] = p /\ proc[p].state # "asleep"
        /\ waiting[s] # Nobody /\ ReadReturns(p, s, n) /\ n # 0
        /\ chip[s].sr # "ESTABLISHED" \/ chip[s].rx.rd # chip[s].rx.wr
        /\ UNCHANGED <<taken, recorded, usable, damage>>
    BY <1>1, <1>2, AtResume DEF read_resumed
  <1>4. Data'
    BY ReadResumedData DEF EventInv
  <1> QED
    BY <1>3, <1>4, EventReadReturns

\* A write keeps them right.
LEMMA EventTxFrame ==
  ASSUME EventInv, Keeps("transfer when told"), Keeps("frames fit"),
         NEW p \in Procs, NEW s \in Socks, NEW n \in 1 .. BufferSize, tx_frame(p, s, n)
  PROVE  EventInv'
  <1> DEFINE tx == Filled(s, [k \in 1 .. n |-> bytes[s].written + k - 1])
  <1>1. /\ edge # "due" /\ proc[p].state = "running" /\ taken[s] = p /\ usable[s]
        /\ n <= FreeSpace(s)
        /\ UNCHANGED <<taken, waiting, recorded, proc, truthful>>
    BY DEF tx_frame, CallsOn, Calls, MayTransfer
  <1>2. /\ SocketFits(s) /\ ~Unattended(s) /\ Data'
        /\ Leaves => (edge' = "high" => edge = "high")
    BY <1>1, AtCall, TxFrameData DEF EventInv
  <1>3. chip[s].sr \in Connected /\ waiting[s] # Nobody
    BY <1>1, <1>2 DEF SocketFits
  <1>4. wait_send_complete(p, s, tx, n) /\ damage' = damage
    <2>1. ~(n > FreeSpace(s) \/ chip[s].sr \notin Connected)
      <3>1. FreeSpace(s) \in Nat
        BY FreeSpaceIs DEF EventInv
      <3>2. ~(n > FreeSpace(s))
        BY <1>1, <3>1, Lengths
      <3> QED
        BY <1>3, <3>2
    <2> QED
      BY <2>1 DEF tx_frame
  <1>5. (\A r \in Socks \ {s} : taken[r] # p) /\ p # Nobody /\ waiting[s] = p
    BY <1>1, <1>3, OwnersOthers
  <1>6. CallFits(p)' /\ truthful' /\ damage' = "none"
    BY <1>1, <1>4 DEF CallFits, Busy, EventInv
  <1> HIDE DEF tx
  <1>7. CASE Leaves /\ usable' = usable
             /\ (\/ chip' = [chip EXCEPT ![s].tx = tx, ![s].ir = @ \ INT_SENDOK]
                 \/ chip' = [chip EXCEPT ![s].tx = [tx EXCEPT !.rd = tx.wr]])
    <2>1. /\ chip'[s].sr = chip[s].sr /\ chip'[s].rx = chip[s].rx
          /\ chip'[s].ir \subseteq chip[s].ir
          /\ \A r \in Socks \ {s} : chip'[r] = chip[r]
      <3>1. chip \in [Socks -> Chips] /\ chip[s] \in Chips
        BY DEF EventInv, Data, Typed
      <3>2. CASE chip' = [chip EXCEPT ![s].tx = tx, ![s].ir = @ \ INT_SENDOK]
        BY <3>1, <3>2 DEF Chips
      <3>3. CASE chip' = [chip EXCEPT ![s].tx = [tx EXCEPT !.rd = tx.wr]]
        BY <3>1, <3>3 DEF Chips
      <3> QED
        BY <1>7, <3>2, <3>3
    <2>2. SocketFits(s)'
      <3>1. edge # "high" => edge' # "high"
        BY <1>2, <1>7
      <3> QED
        BY <1>1, <1>2, <1>3, <1>7, <2>1, <3>1 DEF SocketFits, Connected
    <2> QED
      BY <1>1, <1>2, <1>5, <1>6, <1>7, <2>1, <2>2, CallStep
  <1>8. CASE edge' = "due" /\ usable' = [usable EXCEPT ![s] = FALSE] /\ ~EndsEarly(s)
             /\ chip' = [chip EXCEPT ![s].sr = "CLOSED", ![s].ir = @ \cup {"TIMEOUT"}]
    <2>1. /\ chip'[s].sr = "CLOSED" /\ usable'[s] = FALSE
          /\ \A r \in Socks \ {s} : chip'[r] = chip[r] /\ usable'[r] = usable[r]
      BY <1>8, ChipParts DEF EventInv, Data, Typed, Chips
    <2>2. Unattended(s)'
      BY <1>1, <1>5, <1>8 DEF Unattended, Busy
    <2>3. SocketFits(s)'
      BY <1>1, <1>2, <1>5, <1>8, <2>1, <2>2 DEF SocketFits, Connected, Early
    <2> QED
      BY <1>1, <1>2, <1>5, <1>6, <1>8, <2>1, <2>3, CallStep
  <1> QED
    BY <1>4, <1>7, <1>8 DEF wait_send_complete

\* Every step keeps the events right.
LEMMA EventStep ==
  ASSUME Rules = AllRules, EventInv, [Next]_vars
  PROVE  EventInv'
  <1>1. /\ Keeps("someone waits") /\ Keeps("one socket each") /\ Keeps("stay")
        /\ Keeps("transfer when told") /\ Keeps("frames fit")
    BY DEF Keeps, AllRules
  <1>2. CASE eth_irq
    BY <1>2, EventInterrupt
  <1>3. CASE Driver
    <2>1. PICK p \in Procs :
            \/ sys_socket(p) \/ accept_resumed(p) \/ connect_resumed(p)
            \/ read_resumed(p) \/ Exit(p)
            \/ \E s \in Socks : \/ listen_socket(p, s) \/ accept_socket(p, s)
                                \/ connect_socket(p, s)
                                \/ \E n \in 1 .. BufferSize : \/ rx_frame(p, s, n)
                                                              \/ tx_frame(p, s, n)
      BY <1>3 DEF Driver
    <2>2. CASE sys_socket(p)
      BY <1>1, <2>2, EventSocket
    <2>3. CASE accept_resumed(p)
      BY <2>3, EventAcceptResumed
    <2>4. CASE connect_resumed(p)
      BY <2>4, EventConnectResumed
    <2>5. CASE read_resumed(p)
      BY <2>5, EventReadResumed
    <2>6. CASE Exit(p)
      BY <1>1, <2>6, EventExit
    <2>7. ASSUME NEW s \in Socks, listen_socket(p, s)
          PROVE  EventInv'
      BY <2>7, EventListen
    <2>8. ASSUME NEW s \in Socks, accept_socket(p, s)
          PROVE  EventInv'
      BY <2>8, EventAccept
    <2>9. ASSUME NEW s \in Socks, connect_socket(p, s)
          PROVE  EventInv'
      BY <1>1, <2>9, EventConnect
    <2>10. ASSUME NEW s \in Socks, NEW n \in 1 .. BufferSize, rx_frame(p, s, n)
           PROVE  EventInv'
      BY <1>1, <2>10, EventRxFrame
    <2>11. ASSUME NEW s \in Socks, NEW n \in 1 .. BufferSize, tx_frame(p, s, n)
           PROVE  EventInv'
      BY <1>1, <2>11, EventTxFrame
    <2> QED
      BY <2>1, <2>2, <2>3, <2>4, <2>5, <2>6, <2>7, <2>8, <2>9, <2>10, <2>11
  <1>4. CASE Network
    <2>1. PICK s \in Socks :
            \/ PeerConnects(s) \/ PeerAnswers(s) \/ PeerIsSilent(s) \/ PeerCloses(s)
            \/ Transmits(s)
            \/ \E n \in 1 .. BufferSize : PeerSends(s, n)
      BY <1>4 DEF Network
    <2>2. CASE PeerConnects(s) \/ PeerAnswers(s) \/ PeerIsSilent(s) \/ PeerCloses(s)
      BY <1>1, <2>2, EventHappens
    <2>3. CASE Transmits(s)
      BY <2>3, EventTransmits
    <2>4. ASSUME NEW n \in 1 .. BufferSize, PeerSends(s, n)
          PROVE  EventInv'
      BY <1>1, <2>4, EventSends
    <2> QED
      BY <2>1, <2>2, <2>3, <2>4
  <1>5. CASE UNCHANGED vars
    <2>1. Data'
      BY <1>5 DEF vars, EventInv, Data, Typed, Rings, Holds
    <2>2. \A s \in Socks : SocketFits(s)'
      BY <1>5 DEF vars, EventInv, SocketFits, Unattended, Busy
    <2>3. \A p \in Procs : CallFits(p)'
      BY <1>5 DEF vars, EventInv, CallFits, Busy
    <2> QED
      BY <1>5, <2>1, <2>2, <2>3 DEF vars, EventInv, OneEach
  <1> QED
    BY <1>2, <1>3, <1>4, <1>5 DEF Next

\* Where programs and peers keep the rules: each event finds the owner of its
\* socket asleep on it or about to look, and what a call finds there is still so.
THEOREM EventInvariance ==
  ASSUME Rules = AllRules
  PROVE  Spec => []EventInv
  <1>1. Init => EventInv
    BY EventInit
  <1>2. EventInv /\ [Next]_vars => EventInv'
    BY EventStep
  <1> QED
    BY <1>1, <1>2, PTL DEF Spec

\* accept, connect and read tell the state of the connection.
THEOREM ReturnsCorrect ==
  ASSUME Rules = AllRules
  PROVE  Spec => []ReturnsAreTrue
  <1>1. EventInv => ReturnsAreTrue
    BY DEF EventInv, ReturnsAreTrue
  <1>2. Spec => []EventInv
    BY EventInvariance
  <1> QED
    BY <1>1, <1>2, PTL

\* eth_irq finds a living process for all it notes, and tx_frame, given what
\* fits, neither reads past its frame nor waits on a dead connection.
THEOREM AccessCorrect ==
  ASSUME Rules = AllRules
  PROVE  Spec => []NoUndefinedAccess
  <1>1. EventInv => NoUndefinedAccess
    BY DEF EventInv, NoUndefinedAccess
  <1>2. Spec => []EventInv
    BY EventInvariance
  <1> QED
    BY <1>1, <1>2, PTL
=============================================================================
