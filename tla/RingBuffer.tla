----------------------------- MODULE RingBuffer -----------------------------
(***************************************************************************)
(* The sliding window of FEC blocks of util_rbuf.c, as operators.  A ring  *)
(* is given by ring_front, ring_alloc (a size_t, hence modulo SizeMod),    *)
(* last_block and the function index that gives the block number held by   *)
(* each slot, or BLOCK_INVAL.  The loops of the code are written in closed *)
(* form; RingLoops states them turn by turn and compares the two.          *)
(***************************************************************************)
EXTENDS Integers, FiniteSetsExt

CONSTANTS
  RingSize,   \* RX_RING_SIZE, the number of slots
  SizeMod,    \* 2^64: ring_alloc is a size_t
  IntMod      \* 2^32: new_blocks and the loop counters are int

ASSUME RingAssumption ==
  /\ RingSize \in Nat \ {0, 1}
  /\ IntMod \in Nat /\ 2 * RingSize + 1 < IntMod
  /\ SizeMod \in Nat /\ IntMod <= SizeMod

Slots == 0 .. RingSize - 1

(* (uint64_t)-1 in the code: no block number, MAX_BLOCK_IDX is far below.  *)
BLOCK_INVAL == -1

At(front, d) == (front + d) % RingSize

(***************************************************************************)
(* rbuf_get_block, the search: the turns 0 <= d < alloc that meet block b. *)
(* Turns beyond RingSize visit the same slots again.                       *)
(***************************************************************************)
Hits_OneMore(front, alloc, index, b) ==
  {d \in Slots : d <= alloc /\ index[At(front, d)] = b}

Hits(front, alloc, index, b) ==
  {d \in Slots : d < alloc /\ index[At(front, d)] = b}

FirstHit(front, alloc, index, b) == At(front, Min(Hits(front, alloc, index, b)))

(* A search that meets nothing runs its counter, an int, up to ring_alloc: *)
(* beyond INT_MAX it overflows, which the language leaves undefined.       *)
SearchOverflows(alloc) == alloc >= IntMod \div 2

(***************************************************************************)
(* rbuf_get_block, the number of blocks to allocate: a difference of two   *)
(* uint64_t cut to an int, then compared as a size_t with ring_size, so    *)
(* that a negative value counts as a large one.                            *)
(***************************************************************************)
NewBlocks_Uncapped(last, b) ==
  IF last = BLOCK_INVAL THEN 1 ELSE (b - last) % IntMod

NewBlocks_Between(last, b) ==
  IF last = BLOCK_INVAL THEN 1 ELSE (b - last - 1) % (RingSize + 1)

NewBlocks(last, b) ==
  IF last = BLOCK_INVAL THEN 1
  ELSE LET diff == (b - last) % IntMod
       IN  IF diff < IntMod \div 2 /\ diff <= RingSize THEN diff ELSE RingSize

(* The slot of turn i of the allocation loop.  ring_alloc has already been *)
(* incremented i times when turn i reads it.                               *)
AllocSlot(front, alloc, i) == ((front + alloc + i) % SizeMod) % RingSize

(***************************************************************************)
(* rbuf_free_block, after the slot's index became BLOCK_INVAL: while the   *)
(* front slot is empty, decrement ring_alloc, stop at zero, else advance   *)
(* the front.  From 0 the counter wraps, so the loop has Turns(alloc)      *)
(* turns unless it meets a slot in use first.                              *)
(***************************************************************************)
InUse(front, index) == {d \in Slots : index[At(front, d)] # BLOCK_INVAL}

Turns(alloc) == IF alloc = 0 THEN SizeMod ELSE alloc

FrontMeets(front, alloc, index) ==
  /\ InUse(front, index) # {}
  /\ Min(InUse(front, index)) < Turns(alloc)

(* No slot in use and a wrapped counter: about SizeMod turns.              *)
FreeSpins(front, alloc, index) ==
  ~FrontMeets(front, alloc, index) /\ SearchOverflows(Turns(alloc))

FreedFront_Stays(front, alloc, index) == front

FreedFront(front, alloc, index) ==
  IF FrontMeets(front, alloc, index)
  THEN At(front, Min(InUse(front, index)))
  ELSE At(front, Turns(alloc) - 1)

FreedAlloc(front, alloc, index) ==
  IF FrontMeets(front, alloc, index)
  THEN (Turns(alloc) - Min(InUse(front, index))) % SizeMod
  ELSE 0
=============================================================================
