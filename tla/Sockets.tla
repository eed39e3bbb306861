------------------------------ MODULE Sockets ------------------------------
(***************************************************************************)
(* TCP sockets on the W5100S chip: src/drivers/ethernet.c, with the calls  *)
(* of src/kernel/network.c that lead there.                                *)
(*                                                                         *)
(* A call runs in the kernel up to where it sleeps; the interrupt is taken *)
(* before the next one.  The chip changes at any time.  sys_close and the  *)
(* end of a process call active_close for the owner of a File only, and    *)
(* the owner of a socket's File is always 0: a socket is never released,   *)
(* and the mutexes, held to the end of an operation, are always free.  A   *)
(* byte carries its number in its direction.  `Rules' are what programs    *)
(* and peers keep to; the README says which property needs which.  Raw and *)
(* UDP sockets and addresses are left out, and the interrupt handler reads *)
(* and clears the chip at one moment.                                      *)
(***************************************************************************)
EXTENDS Integers, Sequences, FiniteSetsExt

CONSTANTS
  WIZNET_SOCKET_COUNT,
  Procs,
  BufferSize,    \* of a socket, each way; the pointers are masked to it
  RegModulus,    \* 2^16, where the pointer registers wrap
  Rules,
  MaxIn, MaxOut  \* bounds of the model: bytes each way, of each socket

AllRules == {"someone waits",      \* events come to sockets someone has slept on
             "one socket each",    \* a process makes one socket in its life
             "transfer when told", \* after an accept or a connect returned 0
             "stay",               \* who has slept on a socket does not end
             "frames fit"}         \* no write is longer than the free buffer

Nobody == "nobody"

ASSUME SocketsAssumption ==
  /\ WIZNET_SOCKET_COUNT \in Nat \ {0, 1}
  /\ BufferSize \in Nat \ {0} /\ RegModulus \in Nat
  /\ RegModulus > BufferSize /\ RegModulus % BufferSize = 0
  /\ Rules \subseteq AllRules /\ MaxIn \in Seq(Nat) /\ MaxOut \in Seq(Nat)
  /\ {Len(MaxIn), Len(MaxOut)} = {WIZNET_SOCKET_COUNT - 1}
  /\ Nobody \notin Procs

Socks == 1 .. WIZNET_SOCKET_COUNT - 1      \* socket 0 is for raw frames
Events == {"SENDOK", "TIMEOUT", "RECV", "DISCON", "CON"}
INT_SENDOK == {"SENDOK", "RECV", "DISCON"}  \* 0x16 has the bits of two others
Connected == {"ESTABLISHED", "CLOSE_WAIT"}
Cells == 0 .. BufferSize - 1
Nothing == -1

VARIABLES
  chip,     \* [Socks -> sr, ir, and the two buffers with their pointers]
  edge,     \* the pin: "high", "fell" during this call, or "due" before the next
  taken,    \* [Socks -> who made it]: never given back
  waiting,  \* socket_waiting_processes: who slept on it last
  recorded, \* socket_interrupts
  proc,     \* [Procs -> state, and the call it sleeps in]
  bytes,    \* ghost, [Socks -> bytes received, read, written and sent]
  ordered,  \* ghost: every byte that was read or sent was the next one
  truthful, \* ghost: every return told the state of the connection
  usable,   \* [Socks -> whether the program takes it for connected]
  damage    \* "none", or the first undefined access or endless loop

vars == <<chip, edge, taken, waiting, recorded, proc, bytes, ordered, truthful, usable, damage>>
Keeps(rule) == rule \in Rules
Distance(from, to) == (to - from + RegModulus) % RegModulus

Buffer == [mem |-> [c \in Cells |-> Nothing], rd |-> 0, wr |-> 0]
Reset == [sr |-> "CLOSED", ir |-> {}, rx |-> Buffer, tx |-> Buffer]
Awake == [state |-> "running", call |-> "none", sock |-> 0, count |-> 0]

Init ==
  /\ chip = [s \in Socks |-> Reset]
  /\ edge = "high"
  /\ taken = [s \in Socks |-> Nobody]
  /\ waiting = [s \in Socks |-> Nobody]
  /\ recorded = [s \in Socks |-> {}]
  /\ proc = [p \in Procs |-> Awake]
  /\ bytes = [s \in Socks |-> [received |-> 0, read |-> 0, written |-> 0, sent |-> 0]]
  /\ usable = [s \in Socks |-> FALSE]
  /\ ordered = TRUE /\ truthful = TRUE /\ damage = "none"

-----------------------------------------------------------------------------
(* The chip and the peers, from how the driver uses them.                  *)

\* The pin falls with the first event, and stays low for the others.
Falls == IF \A s \in Socks : chip[s].ir = {} THEN "fell" ELSE edge

\* An event on a socket, and what it changes there.
Happens(s, event, from, to) ==
  /\ damage = "none"
  /\ Keeps("someone waits") => waiting[s] # Nobody
  /\ chip[s].sr = from
  /\ chip' = [chip EXCEPT ![s].sr = to, ![s].ir = @ \cup {event}]
  /\ edge' = Falls
  /\ UNCHANGED <<taken, waiting, recorded, proc, bytes, ordered, truthful, usable, damage>>

PeerConnects(s) == Happens(s, "CON", "LISTEN", "ESTABLISHED")
PeerAnswers(s) == Happens(s, "CON", "SYNSENT", "ESTABLISHED")
PeerIsSilent(s) == Happens(s, "TIMEOUT", "SYNSENT", "CLOSED")
PeerCloses(s) == Happens(s, "DISCON", "ESTABLISHED", "CLOSE_WAIT")

Stored(buffer, first, n) ==
  [mem |-> [c \in Cells |->
      LET k == Distance(buffer.wr % BufferSize, c) % BufferSize
      IN  IF k < n THEN first + k ELSE buffer.mem[c]],
   rd |-> buffer.rd, wr |-> (buffer.wr + n) % RegModulus]

PeerSends(s, n) ==
  /\ damage = "none" /\ chip[s].sr = "ESTABLISHED"
  /\ Keeps("someone waits") => waiting[s] # Nobody
  /\ bytes[s].received + n <= MaxIn[s]
  /\ Distance(chip[s].rx.rd, chip[s].rx.wr) + n <= BufferSize
  /\ chip' = [chip EXCEPT ![s].ir = @ \cup {"RECV"},
                          ![s].rx = Stored(@, bytes[s].received, n)]
  /\ bytes' = [bytes EXCEPT ![s].received = @ + n]
  /\ edge' = Falls
  /\ UNCHANGED <<taken, waiting, recorded, proc, ordered, truthful, usable, damage>>

\* What the chip puts on the wire: the bytes from its read to its write pointer.
Outgoing(buffer) ==
  [k \in 1 .. Distance(buffer.rd, buffer.wr) |->
     buffer.mem[(buffer.rd + k - 1) % BufferSize]]
InOrder(sequence, first) ==
  \A k \in DOMAIN sequence : sequence[k] = first + k - 1

\* The end of a transmission no call is waiting for any more.
Transmits(s) ==
  LET out == Outgoing(chip[s].tx)
  IN  /\ damage = "none" /\ chip[s].sr \in Connected /\ out # <<>>
      /\ chip' = [chip EXCEPT ![s].ir = @ \cup {"SENDOK"}, ![s].tx.rd = chip[s].tx.wr]
      /\ bytes' = [bytes EXCEPT ![s].sent = @ + Len(out)]
      /\ ordered' = (ordered /\ InOrder(out, bytes[s].sent))
      /\ edge' = Falls
      /\ UNCHANGED <<taken, waiting, recorded, proc, truthful, usable, damage>>

-----------------------------------------------------------------------------
(* The interrupt.                                                          *)

\* The first socket that reports the event; the others are passed over.
FirstWith(event) ==
  LET those == {s \in Socks : event \in chip[s].ir}
  IN  IF those = {} THEN {} ELSE {Min(those)}
Noted == {pair \in Socks \X (Events \ {"SENDOK"}) : pair[1] \in FirstWith(pair[2])}

\* Mutant: everyone who waits is woken.
Woken_all == {waiting[s] : s \in IF Noted = {} THEN {} ELSE Socks} \ {Nobody}

Woken == {waiting[pair[1]] : pair \in Noted}

\* Every event of every socket is cleared, noted or not.
eth_irq ==
  /\ damage = "none" /\ edge # "high"
  /\ IF Nobody \in Woken
     THEN damage' = "null" /\ UNCHANGED <<chip, edge, recorded, proc>>
     ELSE /\ recorded' = [s \in Socks |->
                            recorded[s] \cup {pair[2] : pair \in {x \in Noted : x[1] = s}}]
          /\ proc' = [p \in Procs |->
                        IF p \in Woken /\ proc[p].state = "asleep"
                        THEN [proc[p] EXCEPT !.state = "ready"] ELSE proc[p]]
          /\ chip' = [s \in Socks |-> [chip[s] EXCEPT !.ir = {}]]
          /\ edge' = "high"
          /\ damage' = IF \E p \in Woken : proc[p].state = "gone"
                       THEN "revived" ELSE damage
  /\ UNCHANGED <<taken, waiting, bytes, ordered, truthful, usable>>

-----------------------------------------------------------------------------
(* The calls.                                                              *)

Calls(p) == damage = "none" /\ edge # "due" /\ proc[p].state = "running"
CallsOn(p, s) == Calls(p) /\ taken[s] = p
Leaves == edge' = IF edge = "fell" THEN "due" ELSE edge

create_socket == Min({s \in Socks : taken[s] = Nobody})

\* A stream socket, opened.
sys_socket(p) ==
  /\ Calls(p) /\ \E s \in Socks : taken[s] = Nobody
  /\ Keeps("one socket each") => \A s \in Socks : taken[s] # p
  /\ taken' = [taken EXCEPT ![create_socket] = p]
  /\ chip' = [chip EXCEPT ![create_socket].sr = "INIT"]
  /\ Leaves
  /\ UNCHANGED <<waiting, recorded, proc, bytes, ordered, truthful, usable, damage>>

listen_socket(p, s) ==
  /\ CallsOn(p, s) /\ chip[s].sr = "INIT"
  /\ chip' = [chip EXCEPT ![s].sr = "LISTEN"]
  /\ Leaves
  /\ UNCHANGED <<taken, waiting, recorded, proc, bytes, ordered, truthful, usable, damage>>

Sleeps(p, s, call, n) ==
  /\ proc' = [proc EXCEPT ![p] =
                [state |-> "asleep", call |-> call, sock |-> s, count |-> n]]
  /\ waiting' = [waiting EXCEPT ![s] = p]
Returns(p) == proc' = [proc EXCEPT ![p] = Awake]
Resumes(p, call) == /\ damage = "none" /\ edge # "due"
                    /\ proc[p].state = "ready" /\ proc[p].call = call
SockOf(p) == proc[p].sock

\* The peer's address is read and the call succeeds, whatever woke it.
AcceptReturns(p, s) ==
  /\ Returns(p)
  /\ usable' = [usable EXCEPT ![s] = TRUE]
  /\ truthful' = (truthful /\ chip[s].sr \in Connected)
  /\ UNCHANGED waiting

accept_socket(p, s) ==
  /\ CallsOn(p, s) /\ chip[s].sr \in {"LISTEN"} \cup Connected
  /\ IF "CON" \in chip[s].ir THEN AcceptReturns(p, s)
     ELSE Sleeps(p, s, "accept", 0) /\ UNCHANGED <<usable, truthful>>
  /\ Leaves /\ UNCHANGED <<chip, taken, recorded, bytes, ordered, damage>>

accept_resumed(p) ==
  /\ Resumes(p, "accept") /\ AcceptReturns(p, SockOf(p))
  /\ Leaves /\ UNCHANGED <<chip, taken, recorded, bytes, ordered, damage>>

\* Mutant: whatever woke the call, it succeeds.
ConnectReturns_hopeful(p, s) ==
  /\ Returns(p)
  /\ recorded' = [recorded EXCEPT ![s] = {}]
  /\ usable' = [usable EXCEPT ![s] = TRUE]
  /\ truthful' = (truthful /\ chip[s].sr \in Connected)
  /\ UNCHANGED waiting

\* Success is what the interrupt recorded, after a timeout it recorded.
ConnectReturns(p, s) ==
  LET seen == IF "TIMEOUT" \in recorded[s] THEN {"TIMEOUT"} ELSE {"CON"}
      succeeds == seen = {"CON"} /\ "CON" \in recorded[s]
  IN  /\ Returns(p)
      /\ recorded' = [recorded EXCEPT ![s] = @ \ seen]
      /\ usable' = [usable EXCEPT ![s] = @ \/ succeeds]
      /\ truthful' = (truthful /\ (succeeds => chip[s].sr \in Connected))
      /\ UNCHANGED waiting

\* CMD_CONNECT has a meaning for an open socket only; the answer may be there
\* before the driver looks for it.
connect_socket(p, s) ==
  \E answered \in IF chip[s].sr = "INIT" /\ ~Keeps("someone waits")
                  THEN BOOLEAN ELSE {FALSE} :
    /\ CallsOn(p, s)
    /\ chip' = [chip EXCEPT
         ![s].sr = IF @ # "INIT" THEN @
                   ELSE IF answered THEN "ESTABLISHED" ELSE "SYNSENT",
         ![s].ir = IF answered THEN @ \cup {"CON"} ELSE @]
    /\ IF answered \/ "CON" \in chip[s].ir THEN ConnectReturns(p, s)
       ELSE Sleeps(p, s, "connect", 0) /\ UNCHANGED <<recorded, usable, truthful>>
    /\ IF answered THEN edge' = "due" ELSE Leaves
    /\ UNCHANGED <<taken, bytes, ordered, damage>>

connect_resumed(p) ==
  /\ Resumes(p, "connect") /\ ConnectReturns(p, SockOf(p))
  /\ Leaves /\ UNCHANGED <<chip, taken, bytes, ordered, damage>>

-----------------------------------------------------------------------------
(* Data.  The 16-bit pointers run on, and are masked to the buffer.        *)

\* Mutant: the register keeps more than its 16 bits.
add_to_socket_pointer_reg_wide(pointer, n) == pointer + n

add_to_socket_pointer_reg(pointer, n) == (pointer + n) % RegModulus

\* Mutant: the part behind the end of the buffer is read where it would be.
read_rxbuf_straight(rx, n) ==
  LET length == Min({n, Distance(rx.rd, rx.wr)})
      offset == rx.rd % BufferSize
  IN  [k \in 1 .. length |->
         IF offset + k - 1 < BufferSize THEN rx.mem[offset + k - 1] ELSE Nothing]

\* At most n of the bytes that are there, in two parts at the end of the buffer.
read_rxbuf(rx, n) ==
  LET length == Min({n, Distance(rx.rd, rx.wr)})
      offset == rx.rd % BufferSize
      rest == BufferSize - offset
  IN  [k \in 1 .. length |->
         IF offset + length > BufferSize /\ k > rest
         THEN rx.mem[k - rest - 1] ELSE rx.mem[offset + k - 1]]

MayTransfer(s) == Keeps("transfer when told") => usable[s]

\* Nothing is only read, after a wait of 100 ms, from a peer that has closed.
ReadReturns(p, s, n) ==
  LET in == read_rxbuf(chip[s].rx, n)
  IN  /\ Returns(p)
      /\ chip' = [chip EXCEPT ![s].rx.rd = add_to_socket_pointer_reg(@, Len(in))]
      /\ bytes' = [bytes EXCEPT ![s].read = @ + Len(in)]
      /\ ordered' = (ordered /\ InOrder(in, bytes[s].read))
      /\ truthful' = (truthful /\ (in = <<>> => chip[s].sr # "ESTABLISHED"))
      /\ UNCHANGED waiting

rx_frame(p, s, n) ==
  /\ CallsOn(p, s) /\ MayTransfer(s)
  /\ IF "RECV" \in chip[s].ir THEN ReadReturns(p, s, n)
     ELSE Sleeps(p, s, "read", n) /\ UNCHANGED <<chip, bytes, ordered, truthful>>
  /\ Leaves /\ UNCHANGED <<taken, recorded, usable, damage>>

read_resumed(p) ==
  /\ Resumes(p, "read") /\ ReadReturns(p, SockOf(p), proc[p].count)
  /\ Leaves /\ UNCHANGED <<taken, recorded, usable, damage>>

write_txbuf(tx, frame) ==
  LET offset == tx.wr % BufferSize
      rest == BufferSize - offset
      beyond == offset + Len(frame) - BufferSize
  IN  [c \in Cells |->
         IF c - offset \in 0 .. Len(frame) - 1 THEN frame[c - offset + 1]
         ELSE IF c < beyond THEN frame[rest + c + 1]
         ELSE tx.mem[c]]

FreeSpace(s) == BufferSize - Distance(chip[s].tx.rd, chip[s].tx.wr)
Filled(s, frame) ==
  [chip[s].tx EXCEPT !.mem = write_txbuf(chip[s].tx, frame),
                     !.wr = add_to_socket_pointer_reg(@, Len(frame))]
EndsEarly(s) == chip[s].ir \cap INT_SENDOK # {}

\* The wait for the end is over at once when the peer has sent or closed, and
\* then clears that too; otherwise the chip sends, or gives up.
wait_send_complete(p, s, tx, n) ==
  LET out == Outgoing(tx)
  IN  \/ /\ EndsEarly(s)
         /\ chip' = [chip EXCEPT ![s].tx = tx, ![s].ir = @ \ INT_SENDOK]
         /\ bytes' = [bytes EXCEPT ![s].written = @ + n]
         /\ Leaves /\ UNCHANGED <<usable, ordered>>
      \/ /\ ~EndsEarly(s)
         /\ chip' = [chip EXCEPT ![s].tx = [tx EXCEPT !.rd = tx.wr]]
         /\ bytes' = [bytes EXCEPT ![s].written = @ + n, ![s].sent = @ + Len(out)]
         /\ ordered' = (ordered /\ InOrder(out, bytes[s].sent))
         /\ Leaves /\ UNCHANGED usable
      \/ /\ ~EndsEarly(s)
         /\ chip' = [chip EXCEPT ![s].sr = "CLOSED", ![s].ir = @ \cup {"TIMEOUT"}]
         /\ usable' = [usable EXCEPT ![s] = FALSE]
         /\ edge' = "due" /\ UNCHANGED <<bytes, ordered>>

\* A frame that does not fit is sent in pieces as long as the free buffer, the
\* last one too; with no room at all, nothing is sent.
tx_frame(p, s, n) ==
  LET frame == [k \in 1 .. n |-> bytes[s].written + k - 1]
  IN  /\ CallsOn(p, s) /\ MayTransfer(s)
      /\ bytes[s].written + n <= MaxOut[s]
      /\ Keeps("frames fit") => n <= FreeSpace(s)
      /\ IF n > FreeSpace(s) \/ chip[s].sr \notin Connected
         THEN /\ FreeSpace(s) > 0
              /\ damage' = IF n > FreeSpace(s) THEN "overread" ELSE "hang"
              /\ UNCHANGED <<chip, edge, usable, bytes, ordered>>
         ELSE wait_send_complete(p, s, Filled(s, frame), n) /\ UNCHANGED damage
      /\ UNCHANGED <<taken, waiting, recorded, proc, truthful>>

\* A process goes, and its sockets stay as they are.
Exit(p) ==
  /\ Calls(p)
  /\ Keeps("stay") => p \notin {waiting[s] : s \in Socks}
  /\ proc' = [proc EXCEPT ![p] = [Awake EXCEPT !.state = "gone"]]
  /\ Leaves
  /\ UNCHANGED <<chip, taken, waiting, recorded, bytes, ordered, truthful, usable, damage>>

Driver ==
  \E p \in Procs :
    \/ sys_socket(p) \/ accept_resumed(p) \/ connect_resumed(p) \/ read_resumed(p)
    \/ Exit(p)
    \/ \E s \in Socks : \/ listen_socket(p, s) \/ accept_socket(p, s)
                        \/ connect_socket(p, s)
                        \/ \E n \in 1 .. BufferSize : rx_frame(p, s, n) \/ tx_frame(p, s, n)
Network ==
  \E s \in Socks :
    \/ PeerConnects(s) \/ PeerAnswers(s) \/ PeerIsSilent(s) \/ PeerCloses(s)
    \/ Transmits(s)
    \/ \E n \in 1 .. BufferSize : PeerSends(s, n)

Next == eth_irq \/ Driver \/ Network

Spec == Init /\ [][Next]_vars

-----------------------------------------------------------------------------
(* Properties.                                                             *)

Pointers == 0 .. RegModulus - 1
TypeOK ==
  /\ \A s \in Socks :
       /\ chip[s].sr \in {"CLOSED", "INIT", "LISTEN", "SYNSENT"} \cup Connected
       /\ chip[s].ir \subseteq Events
       /\ \A b \in {chip[s].rx, chip[s].tx} : {b.rd, b.wr} \subseteq Pointers
       /\ bytes[s].read <= bytes[s].received /\ bytes[s].sent <= bytes[s].written
  /\ edge \in {"high", "fell", "due"}
  /\ {taken[s] : s \in Socks} \cup {waiting[s] : s \in Socks} \subseteq Procs \cup {Nobody}
  /\ recorded \in [Socks -> SUBSET (Events \ {"SENDOK"})]
  /\ usable \in [Socks -> BOOLEAN] /\ truthful \in BOOLEAN /\ ordered \in BOOLEAN
  /\ \A p \in Procs : proc[p].state \in {"running", "asleep", "ready", "gone"}

\* The bytes a socket delivers and those it puts on the wire are the ones that
\* came and the ones that were written, each once and in order, across the end
\* of the ring buffers and of the 16-bit pointers, and however interrupts, early
\* ends of a transmission and the two directions interleave.
BytesInOrder == ordered

\* What a call says of the connection is so: accept and connect succeed on an
\* established connection, and a read returns nothing only when it is over.
ReturnsAreTrue == truthful

\* The interrupt handler reaches a live process for every event it notes, and
\* no write runs past its frame or waits for ever on a dead connection.
NoUndefinedAccess == damage = "none"
=============================================================================
