----------------------------- MODULE RingLoops -----------------------------
(***************************************************************************)
(* The two while/for loops of util_rbuf.c whose closed forms RingBuffer    *)
(* gives, turn by turn, from every ring: any front, any ring_alloc a       *)
(* size_t can hold, any placement of blocks.                               *)
(***************************************************************************)
EXTENDS RingBuffer

CONSTANT LoopBlocks        \* block numbers a slot may hold

VARIABLES
  loop,                    \* "search" or "free": the loop that runs
  front0, alloc0,          \* the ring when the loop starts
  ring_index,              \* the slots; neither loop changes them
  asked,                   \* block_idx of the search
  ring_front, ring_alloc,  \* the ring as the freeing loop changes it
  counter,                 \* the counter of the search
  result                   \* "running", "ended", or the slot the search returns

loopVars ==
  <<loop, front0, alloc0, ring_index, asked, ring_front, ring_alloc, counter, result>>

LoopsInit ==
  /\ loop \in {"search", "free"}
  /\ front0 \in Slots
  /\ alloc0 \in 0 .. SizeMod - 1
  /\ ring_index \in [Slots -> LoopBlocks \cup {BLOCK_INVAL}]
  /\ asked \in LoopBlocks
  /\ ring_front = front0
  /\ ring_alloc = alloc0
  /\ counter = 0
  /\ result = <<"running">>

(* for (i = 0; i < ring_alloc; i++), with an i wide enough not to overflow *)
Search ==
  /\ loop = "search"
  /\ result = <<"running">>
  /\ LET idx == (ring_front + counter) % RingSize
     IN  \/ /\ counter < ring_alloc
            /\ ring_index[idx] = asked
            /\ result' = <<"found", idx>>
            /\ UNCHANGED counter
         \/ /\ counter < ring_alloc
            /\ ring_index[idx] # asked
            /\ counter' = counter + 1
            /\ UNCHANGED result
         \/ /\ counter >= ring_alloc
            /\ result' = <<"ended">>
            /\ UNCHANGED counter
  /\ UNCHANGED <<loop, front0, alloc0, ring_index, asked, ring_front, ring_alloc>>

(* while (blocks[ring_front].index == BLOCK_INVAL) { ... }                 *)
Free ==
  /\ loop = "free"
  /\ result = <<"running">>
  /\ LET less == (ring_alloc - 1) % SizeMod
     IN  \/ /\ ring_index[ring_front] # BLOCK_INVAL
            /\ result' = <<"ended">>
            /\ UNCHANGED <<ring_front, ring_alloc>>
         \/ /\ ring_index[ring_front] = BLOCK_INVAL
            /\ less = 0
            /\ ring_alloc' = 0
            /\ result' = <<"ended">>
            /\ UNCHANGED ring_front
         \/ /\ ring_index[ring_front] = BLOCK_INVAL
            /\ less # 0
            /\ ring_alloc' = less
            /\ ring_front' = (ring_front + 1) % RingSize
            /\ UNCHANGED result
  /\ UNCHANGED <<loop, front0, alloc0, ring_index, asked, counter>>

LoopsNext == Search \/ Free

LoopsSpec == LoopsInit /\ [][LoopsNext]_loopVars /\ WF_loopVars(LoopsNext)

-----------------------------------------------------------------------------
(* The search of rbuf_get_block returns the slot RingBuffer says, and      *)
(* nothing exactly when RingBuffer finds no hit.                           *)
SearchAgrees ==
  LET hits == Hits(front0, alloc0, ring_index, asked)
  IN  loop = "search" /\ result # <<"running">> =>
        IF hits = {} THEN result = <<"ended">>
        ELSE result = <<"found", FirstHit(front0, alloc0, ring_index, asked)>>

(* The loop of rbuf_free_block leaves ring_front and ring_alloc as         *)
(* RingBuffer says, the counter's wrap at zero included.                   *)
FreeAgrees ==
  loop = "free" /\ result # <<"running">> =>
    /\ ring_front = FreedFront(front0, alloc0, ring_index)
    /\ ring_alloc = FreedAlloc(front0, alloc0, ring_index)
=============================================================================
