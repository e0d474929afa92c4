--------------------------------- MODULE Heap ---------------------------------
(***************************************************************************)
(* The isolated memory of a simulation (system/memory/isolated): one       *)
(* segment in which the heap grows up and the stacks of threads grow down, *)
(* the heap allocator with its block index and its free lists by size      *)
(* class, the pool of stacks, and the statistics behind the leak check.    *)
(*                                                                         *)
(* The unit of memory is kAlignment bytes, which is also the size of a     *)
(* block header; two pointers fit into a unit. Contents of blocks, memset  *)
(* and allocation ids are left out. A heap call runs without a switch of   *)
(* threads, so an action is a whole call, whichever thread makes it.       *)
(***************************************************************************)
EXTENDS Integers, Sequences, FiniteSets, SequencesExt, FiniteSetsExt

CONSTANTS
  Segment,        \* size of the dynamic segment
  BootSize,       \* boot block: the allocator object itself
  IndexSize,      \* BlockIndex::kSizeBytes
  IndexCapacity,  \* BlockIndex::kCapacity
  StackSize,
  Sizes,          \* sizes the program asks for
  MaxClass,       \* classes 0 .. MaxClass: 2^k units
  Initial,        \* first capacity of a free list
  MaxAllocs       \* bound: allocations of one simulation

ASSUME HeapAssumption ==
  /\ {Segment, BootSize, IndexSize, IndexCapacity, MaxClass, MaxAllocs} \subseteq Nat
  /\ StackSize \in Nat \ {0} /\ Initial \in Nat \ {0}
  /\ Sizes \subseteq Nat /\ \A n \in Sizes : n <= 2 ^ MaxClass
  /\ Initial <= 2 ^ MaxClass /\ IndexCapacity <= 2 + 2 ^ MaxClass   \* buffers of free lists have a class

VARIABLES
  phase,    \* "off", "boot" (malloc not set up yet), "run", "aborted"; "dead": the process is
  up, down, \* SharedSegment; up is also next_ of BrkAllocator
  blocks,   \* BlockIndex: the headers in the order of their addresses
  lists,    \* free_lists_: [buf, capacity] by class; buf holds positions in blocks
  stat,     \* AllocatorStat
  stacks,   \* stacks of alive threads
  pool      \* pool_ of StackAllocator

vars == <<phase, up, down, blocks, lists, stat, stacks, pool>>
heap == <<blocks, lists, stat>>

Class == 0 .. MaxClass
Header == 1

-----------------------------------------------------------------------------
\* Sizes and blocks

BlockSize(k) == 2 ^ k

GetSizeClass(size) == Min({k \in Class : BlockSize(k) >= size})

Data(b) == blocks[b].addr + Header

UserDataEnd_Block(b) == Data(b) + BlockSize(blocks[b].klass)

UserDataEnd(b) == Data(b) + blocks[b].userSize

IsAllocated(b) == blocks[b].state = "allocated"

EmptyList == [buf |-> <<>>, capacity |-> 0]

NoStat == [allocs |-> 0, frees |-> 0, userAllocated |-> 0, userFreed |-> 0]

SpaceLeft == down - up

TotalSize_NoHeader(k) == BlockSize(k)

\* NewBlock: header, payload and the header of the next block must fit, and the index has room.
TotalSize(k) == BlockSize(k) + Header

Fits(k) == TotalSize(k) + Header <= SpaceLeft

HasRoom == Len(blocks) < IndexCapacity

NewBlock(k, service, size) ==
  [addr |-> up, klass |-> k, state |-> "allocated", service |-> service, userSize |-> size]

-----------------------------------------------------------------------------
\* The life of a simulation

Init ==
  /\ phase = "off" /\ up = 0 /\ down = Segment
  /\ blocks = <<>> /\ lists = [k \in Class |-> EmptyList] /\ stat = NoStat
  /\ stacks = {} /\ pool = <<>>

Dies == phase' = "dead" /\ UNCHANGED <<up, down, heap, stacks, pool>>

\* Memory is built, and the main thread gets a stack: it comes before the heap.
Start ==
  /\ phase = "off"
  /\ IF SpaceLeft < StackSize THEN Dies
     ELSE /\ phase' = "boot"
          /\ down' = down - StackSize
          /\ stacks' = {down - StackSize}
          /\ UNCHANGED <<up, heap, pool>>

\* The boot block, and an index from each of the two resets: the constructor of the allocator
\* makes one, InitMalloc the other, whose index is used.
Base == BootSize + 2 * IndexSize

\* The main thread sets up malloc.
InitMalloc ==
  /\ phase = "boot"
  /\ IF Base > SpaceLeft THEN Dies
     ELSE /\ phase' = "run"
          /\ up' = up + Base
          /\ blocks' = <<>> /\ lists' = [k \in Class |-> EmptyList] /\ stat' = NoStat
          /\ UNCHANGED <<down, stacks, pool>>

\* Simulator::Burn: segment, stacks and heap are given up at once.
Burn ==
  /\ phase \in {"run", "aborted"} /\ phase' = "off"
  /\ up' = 0 /\ down' = Segment
  /\ stacks' = {} /\ pool' = <<>>
  /\ blocks' = <<>> /\ lists' = [k \in Class |-> EmptyList] /\ stat' = NoStat

-----------------------------------------------------------------------------
\* Stacks

\* The pool first (last in, first out), then the segment; otherwise "Stack memory overflow".
AllocateStack ==
  /\ phase = "run"
  /\ IF pool # <<>>
     THEN /\ stacks' = stacks \cup {Head(pool)} /\ pool' = Tail(pool)
          /\ UNCHANGED <<phase, up, down, heap>>
     ELSE IF SpaceLeft < StackSize THEN Dies
     ELSE /\ down' = down - StackSize
          /\ stacks' = stacks \cup {down - StackSize}
          /\ UNCHANGED <<phase, up, heap, pool>>

FreeStack(s) ==
  /\ phase = "run" /\ s \in stacks /\ Cardinality(stacks) > 1
  /\ stacks' = stacks \ {s} /\ pool' = <<s>> \o pool
  /\ UNCHANGED <<phase, up, down, heap>>

-----------------------------------------------------------------------------
\* Allocation

Counted(size) == [stat EXCEPT !.allocs = @ + 1, !.userAllocated = @ + size]

TryPop_NoSwap(buf, i) == SubSeq(buf, 1, Len(buf) - 1)

\* TryPopSome swaps element i with the last one; TryPopBack is the case of the last one.
TryPop(buf, i) == SubSeq([buf EXCEPT ![i] = buf[Len(buf)]], 1, Len(buf) - 1)

Reuse(k, size) ==
  \E i \in DOMAIN lists[k].buf :
    /\ lists' = [lists EXCEPT ![k].buf = TryPop(@, i)]
    /\ blocks' = [blocks EXCEPT ![lists[k].buf[i]] =
                    [@ EXCEPT !.state = "allocated", !.service = FALSE, !.userSize = size]]
    /\ stat' = Counted(size)
    /\ UNCHANGED <<phase, up, down, stacks, pool>>

\* "Heap overflow" and "Block index overflow" end the process.
Extend(k, size) ==
  IF ~(Fits(k) /\ HasRoom) THEN Dies
  ELSE /\ blocks' = Append(blocks, NewBlock(k, FALSE, size))
       /\ up' = up + TotalSize(k)
       /\ stat' = Counted(size)
       /\ UNCHANGED <<phase, down, lists, stacks, pool>>

Malloc(size) ==
  /\ phase = "run" /\ stat.allocs < MaxAllocs
  /\ LET k == GetSizeClass(size) IN
       IF lists[k].buf # <<>> THEN Reuse(k, size) ELSE Extend(k, size)

-----------------------------------------------------------------------------
\* Free

NewCapacity(curr) == IF curr = 0 THEN Initial ELSE curr * 2

ToUnits(items) == (items + 1) \div 2

BufferClass(capacity) == GetSizeClass(ToUnits(capacity))

Freed_StillAllocated(b) == [blocks EXCEPT ![b].userSize = 0]

Freed(b) == [blocks EXCEPT ![b] = [@ EXCEPT !.state = "available", !.userSize = 0]]

\* Push of the free list. A full buffer is replaced by a new block, and the old one leaks; without
\* memory for it the block's header is written through a null pointer.
Push(b, k) ==
  LET grown == NewCapacity(lists[k].capacity) IN
  IF Len(lists[k].buf) < lists[k].capacity
  THEN /\ blocks' = Freed(b)
       /\ lists' = [lists EXCEPT ![k].buf = Append(@, b)]
       /\ UNCHANGED <<phase, up, down, stacks, pool>>
  ELSE IF ~(Fits(BufferClass(grown)) /\ HasRoom)
  THEN phase' = "dead" /\ UNCHANGED <<up, down, blocks, lists, stacks, pool>>
  ELSE /\ blocks' = Append(Freed(b), NewBlock(BufferClass(grown), TRUE, 0))
       /\ up' = up + TotalSize(BufferClass(grown))
       /\ lists' = [lists EXCEPT ![k] = [buf |-> Append(@.buf, b), capacity |-> grown]]
       /\ UNCHANGED <<phase, down, stacks, pool>>

\* The program frees a pointer that Malloc returned to it, perhaps a second time.
Free(b) ==
  /\ phase = "run" /\ ~blocks[b].service
  /\ IF ~IsAllocated(b)
     THEN phase' = "aborted" /\ UNCHANGED <<up, down, heap, stacks, pool>>
     ELSE /\ stat' = [stat EXCEPT !.frees = @ + 1, !.userFreed = @ + blocks[b].userSize]
          /\ Push(b, blocks[b].klass)

Next ==
  \/ Start \/ InitMalloc \/ Burn \/ AllocateStack
  \/ \E s \in stacks : FreeStack(s)
  \/ \E size \in Sizes : Malloc(size)
  \/ \E b \in DOMAIN blocks : Free(b)

Spec == Init /\ [][Next]_vars

-----------------------------------------------------------------------------
\* Access checks

\* BlockIndex::Lookup: bounds, then the last block that starts before the address; 0 is nullptr.
Lookup(addr) ==
  IF blocks = <<>> THEN 0
  ELSE IF addr < Data(1) \/ addr >= UserDataEnd(Len(blocks)) THEN 0
  ELSE LET candidate == Max({b \in DOMAIN blocks : blocks[b].addr < addr})
       IN IF addr >= Data(candidate) /\ addr < UserDataEnd(candidate) THEN candidate ELSE 0

Access(addr, size) ==
  LET b == Lookup(addr) IN b # 0 /\ IsAllocated(b) /\ addr + size <= UserDataEnd(b)

\* CheckMemory of the simulator
LeakCount == stat.allocs - stat.frees
LeakBytes == stat.userAllocated - stat.userFreed

-----------------------------------------------------------------------------
\* Properties

Live == {b \in DOMAIN blocks : IsAllocated(b) /\ ~blocks[b].service}

Allocations == {[addr |-> Data(b), size |-> blocks[b].userSize] : b \in Live}

\* Everything placed in the segment, [lo, hi)
Ranges ==
  {<<blocks[b].addr, Data(b) + BlockSize(blocks[b].klass)>> : b \in DOMAIN blocks}
    \cup {<<s, s + StackSize>> : s \in stacks \cup Range(pool)}
    \cup IF phase = "run" THEN {<<0, Base>>} ELSE {}

\* Blocks with their headers, buffers of free lists, the stacks of threads, pooled stacks and the
\* allocator's own boot block and indexes lie inside the segment and never overlap, whatever mix of
\* heap and stacks meets in the middle (shared_segment.hpp, brk.hpp, stack_allocator.hpp).
MemoryIsDisjoint ==
  phase \in {"run", "aborted"} =>
    /\ Cardinality(Ranges) = Len(blocks) + Cardinality(stacks) + Len(pool)
                               + (IF phase = "run" THEN 1 ELSE 0)
    /\ \A r \in Ranges : 0 <= r[1] /\ r[2] <= Segment
    /\ \A r, s \in Ranges : r # s => r[2] <= s[1] \/ s[2] <= r[1]

\* The free list of a class holds every available block of that class once and nothing else, and
\* its buffer is large enough for them: across reuse, random pops and replaced buffers no block is
\* lost and none is handed out twice (allocator.hpp Free, free_list/vector.hpp).
FreeListsAreExact ==
  phase \in {"run", "aborted"} =>
    \A k \in Class :
      /\ Range(lists[k].buf) = {b \in DOMAIN blocks : ~IsAllocated(b) /\ blocks[b].klass = k}
      /\ IsInjective(lists[k].buf)
      /\ Len(lists[k].buf) <= lists[k].capacity

\* The access check answers yes exactly for the ranges inside one live allocation of the program:
\* never for a freed block, a header, the slack of a block or a buffer of the allocator
\* (index.hpp Lookup, allocator.hpp Access).
AccessIsExact ==
  phase = "run" =>
    \A addr \in 0 .. Segment, size \in 1 .. 2 ^ MaxClass :
      Access(addr, size) <=>
        \E r \in Allocations : r.addr <= addr /\ addr + size <= r.addr + r.size

\* The leak report of CheckMemory counts exactly the live allocations and their bytes: the buffers
\* the allocator takes for itself and leaks are not in it (simulator.cpp CheckMemory).
LeakReportIsExact ==
  phase = "run" =>
    /\ LeakCount = Cardinality(Live)
    /\ LeakBytes = MapThenSumSet(LAMBDA b : blocks[b].userSize, Live)

\* What the allocator keeps about its blocks is exact: in the free lists and in the statistics, which
\* are updated apart from the block headers.
BookkeepingIsExact == FreeListsAreExact /\ LeakReportIsExact

Contract == INSTANCE HeapSpec WITH Address <- 0 .. Segment, live <- Allocations

\* The allocator implements the contract of malloc and free for the program, double frees and
\* burnt simulations included (memory.cpp Malloc, Free, Burn).
ImplementsHeap == Contract!Spec
==============================================================================
