-------------------------------- MODULE Heap --------------------------------
(***************************************************************************)
(* The kernel's heap allocator (src/kernel/memory.c): a singly linked list *)
(* of chunks, each a header of three words followed by the block handed to *)
(* the caller.  All of kmalloc, krealloc, kfree and of the system calls    *)
(* malloc, realloc and free runs in handler mode, which nothing preempts,  *)
(* so each call is one action.                                             *)
(*                                                                         *)
(* Pointers are numbers, 0 is the null pointer, and a chunk is named by    *)
(* the address of its header.  `chunk` holds the headers the allocator has *)
(* written for the chunks that are allocated; the list is what is reached  *)
(* from `head` through the `next` fields.                                  *)
(***************************************************************************)
EXTENDS Integers, FiniteSets, Functions

CONSTANTS
  HeapStart,      \* Allocator.heap_start, i.e. __heap_start__
  HeapEnd,        \* __heap_end__
  WordModulus,    \* 2^32 on the target: size_t arithmetic wraps there
  Requests,       \* the byte counts callers ask for
  Processes,      \* the processes that call malloc, realloc and free
  AddressBound    \* the model grants no chunk that ends above this address

Null == 0
Header == 12                   \* sizeof(struct Chunk)
Kernel == "kernel"             \* owner of what the kernel itself kmallocs
Owners == Processes \cup {Kernel}

\* The heap lies at a word-aligned address, and no request is so large that
\* aligning it and adding a header to it and to the heap wraps a size_t.
ASSUME HeapAssumption ==
  /\ HeapStart \in Nat \ {0} /\ HeapStart % 4 = 0
  /\ HeapEnd \in Nat /\ HeapStart < HeapEnd
  /\ AddressBound \in Nat
  /\ WordModulus \in Nat \ {0}
  /\ Requests \subseteq Nat
  /\ \A r \in Requests : r + 8 + Header + HeapEnd + AddressBound < WordModulus
  /\ Kernel \notin Processes

VARIABLES
  head,               \* Allocator.head
  chunk,              \* [headers -> [size, next, owner]]; owner is a history
                      \* variable, the caller the block was given to
  smashed,            \* headers that krealloc's memmove has overwritten
  allocated_size,     \* Allocator.allocated_size
  allocated_chunks,   \* Allocator.allocated_chunks
  allocated_memory    \* [Processes -> Process.allocated_memory], the part
                      \* of it that malloc, realloc and free account for

vars == <<head, chunk, smashed, allocated_size, allocated_chunks,
          allocated_memory>>

Live == DOMAIN chunk
Block(a) == a + Header                       \* chunk->ptr
BlockEnd(a) == Block(a) + chunk[a].size

\* Every header the list can reach is one the allocator wrote.  When this is
\* false a walk of the list reads memory that holds something else: the next
\* call is undefined, and the model has no step.
Intact ==
  /\ head \in Live \cup {Null}
  /\ \A a \in Live : chunk[a].next \in Live \cup {Null}
  /\ smashed = {}

-----------------------------------------------------------------------------
(* align_size, align_ptr, get_current_heap_size                            *)

\* Mutant: a size that is not rounded up.
align_size_unrounded(n) == IF n <= 8 THEN 8 ELSE n

align_size(n) ==
  LET proposed_size == (n - (n % 4) + 4) % WordModulus
  IN  IF proposed_size <= 8 THEN 8 ELSE proposed_size

align_ptr(p) == IF p % 4 = 0 THEN p ELSE (p \div 4) * 4 + 4

get_current_heap_size == allocated_size + allocated_chunks * Header

-----------------------------------------------------------------------------
(* Where a new chunk goes                                                  *)

\* Mutant: no room for the header is asked for.
RoomAfter_headerless(a, n) ==
  chunk[a].next = Null \/ chunk[a].next - align_ptr(BlockEnd(a)) >= n

\* A new chunk with a block of n bytes can follow chunk a: a is the last one,
\* or the gap up to the next header is wide enough.
RoomAfter(a, n) ==
  \/ chunk[a].next = Null
  \/ chunk[a].next - align_ptr(BlockEnd(a)) >= n + Header

\* find_free_chunk_predecessor.  The list is in address order (ListSorted,
\* below), so the first chunk on the list is the lowest one.
find_free_chunk_predecessor(n) ==
  CHOOSE a \in Live :
    /\ RoomAfter(a, n)
    /\ \A b \in Live : RoomAfter(b, n) => a <= b

\* The header of the new chunk.  The gap below the first chunk is never used.
Place(n) ==
  IF head = Null THEN HeapStart
  ELSE align_ptr(BlockEnd(find_free_chunk_predecessor(n)))

\* Mutant: the new chunk does not take over its predecessor's successor.
Successor_dropped(n) == Null

\* The next field of the new chunk.
Successor(n) ==
  IF head = Null THEN Null ELSE chunk[find_free_chunk_predecessor(n)].next

\* The chunks once the predecessor's next field names the new chunk, whose
\* own header is not written yet.
Linked(n) ==
  IF head = Null THEN chunk
  ELSE [chunk EXCEPT ![find_free_chunk_predecessor(n)].next = Place(n)]

\* The chunks once the header of the new chunk is written too.
Inserted(n, o) ==
  [a \in Live \cup {Place(n)} |->
     IF a = Place(n) THEN [size |-> n, next |-> Successor(n), owner |-> o]
     ELSE Linked(n)[a]]

\* The chunks c without chunk a: its predecessor's next field skips it.
Removed(c, a) ==
  [b \in DOMAIN c \ {a} |->
     IF c[b].next = a THEN [c[b] EXCEPT !.next = c[a].next] ELSE c[b]]

\* A list that has had its header linked before the limit check failed.
LinkedOnly(n) ==
  /\ head' = IF head = Null THEN HeapStart ELSE head
  /\ chunk' = Linked(n)
  /\ UNCHANGED <<smashed, allocated_size, allocated_chunks, allocated_memory>>

LimitReached(n) ==
  (get_current_heap_size + n + Header) % WordModulus >= HeapEnd - HeapStart

\* Process.allocated_memory after the allocator's total became size_after;
\* only system calls, made by a process, account for it.
Accounted(o, size_after) ==
  IF o \in Processes
  THEN [allocated_memory EXCEPT
          ![o] = (@ + size_after - allocated_size) % WordModulus]
  ELSE allocated_memory

-----------------------------------------------------------------------------
(* The operations.  o is the kernel (kmalloc, krealloc, kfree) or a         *)
(* process (sys_malloc, sys_realloc, sys_free); r is the requested size    *)
(* and a the chunk of the pointer passed, one o was given and still has.   *)

kmalloc(o, r) ==
  LET n == align_size(r)
  IN  /\ ~LimitReached(n)
      /\ Place(n) + Header + n <= AddressBound
      /\ head' = IF head = Null THEN HeapStart ELSE head
      /\ chunk' = Inserted(n, o)
      /\ allocated_size' = allocated_size + n
      /\ allocated_chunks' = allocated_chunks + 1
      /\ allocated_memory' = Accounted(o, allocated_size + n)
      /\ UNCHANGED smashed

\* The limit is checked after the list was changed.
kmalloc_refused(r) == LimitReached(align_size(r)) /\ LinkedOnly(align_size(r))

\* Mutant: the total is not adjusted by an in-place resize.
krealloc_last_unaccounted(o, a, r) ==
  LET n == align_size(r)
  IN  /\ chunk[a].next = Null
      /\ Block(a) + n <= AddressBound
      /\ chunk' = [chunk EXCEPT ![a].size = n]
      /\ UNCHANGED <<head, smashed, allocated_size, allocated_chunks,
                     allocated_memory>>

\* The last chunk is resized in place, whatever the limit.
krealloc_last(o, a, r) ==
  LET n == align_size(r)
  IN  /\ chunk[a].next = Null
      /\ Block(a) + n <= AddressBound
      /\ chunk' = [chunk EXCEPT ![a].size = n]
      /\ allocated_size' = allocated_size + n - chunk[a].size
      /\ allocated_memory' =
           Accounted(o, allocated_size + n - chunk[a].size)
      /\ UNCHANGED <<head, smashed, allocated_chunks>>

\* Headers within the bytes that memmove writes behind the new block: it
\* copies as many bytes as the old block had.
Overwritten(a, n) ==
  {h \in Live : /\ h < Place(n) + Header + chunk[a].size
                /\ h + Header > Place(n) + Header + n}

\* Mutant: a chunk between others is extended where it is, unchecked.
krealloc_in_place(o, a, r) ==
  LET n == align_size(align_size(r))
  IN  /\ chunk[a].next # Null
      /\ ~LimitReached(n)
      /\ chunk' = [chunk EXCEPT ![a].size = n]
      /\ allocated_size' = allocated_size + n - chunk[a].size
      /\ allocated_memory' =
           Accounted(o, allocated_size + n - chunk[a].size)
      /\ UNCHANGED <<head, smashed, allocated_chunks>>

\* Any other chunk is copied to a new one and freed.  krealloc has aligned the
\* size once, kmalloc aligns it again.
krealloc_moved(o, a, r) ==
  LET n == align_size(align_size(r))
      after == Inserted(n, o)
  IN  /\ chunk[a].next # Null
      /\ ~LimitReached(n)
      /\ Place(n) + Header + n <= AddressBound
      /\ Overwritten(a, n) = {}
      /\ chunk' = Removed(after, a)
      /\ head' = IF a = head THEN after[a].next ELSE head
      /\ allocated_size' = allocated_size + n - chunk[a].size
      /\ allocated_memory' =
           Accounted(o, allocated_size + n - chunk[a].size)
      /\ UNCHANGED <<smashed, allocated_chunks>>

\* A shrunk block is copied beyond the end of its new chunk, over headers: the
\* walk of kfree that follows is undefined.
krealloc_smashes(o, a, r) ==
  LET n == align_size(align_size(r))
  IN  /\ chunk[a].next # Null
      /\ ~LimitReached(n)
      /\ Overwritten(a, n) # {}
      /\ smashed' = Overwritten(a, n)
      /\ chunk' = Inserted(n, o)
      /\ allocated_size' = allocated_size + n
      /\ allocated_chunks' = allocated_chunks + 1
      /\ UNCHANGED <<head, allocated_memory>>

krealloc_refused(a, r) ==
  /\ chunk[a].next # Null
  /\ LimitReached(align_size(align_size(r)))
  /\ LinkedOnly(align_size(align_size(r)))

\* Mutant: the free system call does not give the bytes back to the process.
kfree_unaccounted(o, a) ==
  /\ head' = IF a = head THEN chunk[a].next ELSE head
  /\ chunk' = Removed(chunk, a)
  /\ allocated_size' = allocated_size - chunk[a].size
  /\ allocated_chunks' = allocated_chunks - 1
  /\ UNCHANGED <<smashed, allocated_memory>>

kfree(o, a) ==
  /\ head' = IF a = head THEN chunk[a].next ELSE head
  /\ chunk' = Removed(chunk, a)
  /\ allocated_size' = allocated_size - chunk[a].size
  /\ allocated_chunks' = allocated_chunks - 1
  /\ allocated_memory' = Accounted(o, allocated_size - chunk[a].size)
  /\ UNCHANGED smashed

-----------------------------------------------------------------------------
Init ==
  /\ head = Null
  /\ chunk = <<>>
  /\ smashed = {}
  /\ allocated_size = 0
  /\ allocated_chunks = 0
  /\ allocated_memory = [p \in Processes |-> 0]

Next ==
  /\ Intact
  /\ \/ \E o \in Owners, r \in Requests : kmalloc(o, r)
     \/ \E r \in Requests : kmalloc_refused(r)
     \/ \E a \in Live, r \in Requests :
          \/ krealloc_last(chunk[a].owner, a, r)
          \/ krealloc_moved(chunk[a].owner, a, r)
          \/ krealloc_smashes(chunk[a].owner, a, r)
          \/ krealloc_refused(a, r)
     \/ \E a \in Live : kfree(chunk[a].owner, a)

Spec == Init /\ [][Next]_vars

-----------------------------------------------------------------------------
(* Properties                                                              *)

TypeOK ==
  /\ head \in Nat
  /\ Live \subseteq Nat \ {Null}
  /\ chunk \in [Live -> [size : Nat \ {0}, next : Nat, owner : Owners]]
  /\ \A a \in Live : a % 4 = 0 /\ chunk[a].size % 4 = 0
  /\ smashed \subseteq Live
  /\ allocated_size \in Int
  /\ allocated_chunks \in Nat
  /\ allocated_memory \in [Processes -> 0 .. WordModulus - 1]

\* No byte of a block is a byte of another chunk's header or block, after any
\* sequence of kmalloc, krealloc and kfree, whatever order chunks are freed in
\* and wherever the gaps are.
BlocksDisjoint ==
  \A a, b \in Live : a < b => BlockEnd(a) <= b

\* a and b are neighbours in address order.
Neighbours(a, b) == a < b /\ \A c \in Live : c <= a \/ b <= c

\* The list holds every chunk kmalloc has handed out, once, in address order:
\* head is the lowest, next_node is the next one up, and the last has none.
\* kfree, krealloc and find_free_chunk_predecessor find chunks by this walk.
ListSorted ==
  Intact =>
    /\ head = Null <=> Live = {}
    /\ head # Null => \A b \in Live : head <= b
    /\ \A a \in Live : IF chunk[a].next = Null
                       THEN \A b \in Live : b <= a
                       ELSE Neighbours(a, chunk[a].next)

\* The blocks of o, and the size of each block.
BlocksOf(o) == {a \in Live : chunk[a].owner = o}
Sizes == [a \in Live |-> chunk[a].size]

\* The totals kmalloc checks its limit against, and which size and chunks the
\* heap occupies at this moment: each malloc, realloc and free has added or
\* subtracted exactly the difference it made.  krealloc does this once on its
\* in-place path and by a kmalloc and a kfree on the other.
AccountingExact ==
  Intact => /\ allocated_chunks = Cardinality(Live)
            /\ allocated_size = SumFunctionOnSet(Sizes, Live)

\* A process's allocated_memory is the total size of the blocks malloc and
\* realloc gave it and free has not taken back.
ProcessAccounting ==
  Intact => \A p \in Processes :
    allocated_memory[p] = SumFunctionOnSet(Sizes, BlocksOf(p))

\* The refinement: the callers see a store of blocks that do not overlap.
BlockMap == [p \in {Block(a) : a \in Live} |->
               [size |-> chunk[p - Header].size,
                owner |-> chunk[p - Header].owner]]

Blocks == INSTANCE BlockStore WITH blocks <- BlockMap

\* Every call does to the blocks what its caller was promised: a failed one
\* changes none of them, and none is moved or resized but the one named.
ImplementsBlockStore == Blocks!Spec

\* What the CHANGELOG entry "allocator: add max size check" says of kmalloc:
\* no chunk extends beyond the heap.
WithinHeap == \A a \in Live : BlockEnd(a) - 1 <= HeapEnd
=============================================================================
