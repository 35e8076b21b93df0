---------------------------- MODULE ReceiverProps ----------------------------
(***************************************************************************)
(* The properties of the receive path.                                     *)
(***************************************************************************)
EXTENDS Receiver

Delivered == [block : Int, frag : Nat, data : Payload]

FlagTypes == has_session_key \in BOOLEAN /\ no_fec \in BOOLEAN

SessionTypes ==
  /\ session_key \in Keys \cup {NoKey}
  /\ crypto_key \in Keys \cup {NoKey}
  /\ epoch \in Nat
  /\ fec_k \in 0 .. MaxFecN
  /\ fec_n \in 0 .. MaxFecN
  /\ coder \in (0 .. MaxFecN) \X (0 .. MaxFecN)
  /\ log \in (0 .. MaxFecN) \X (0 .. MaxFecN)

RingTypes ==
  /\ ring_nof \in 0 .. MaxFecN
  /\ front \in Slots
  /\ alloc \in 0 .. SizeMod - 1
  /\ last_block \in 0 .. MaxBlockIdx \cup {BLOCK_INVAL}
  /\ index \in [Slots -> 0 .. MaxBlockIdx \cup {BLOCK_INVAL}]
  /\ used \in [Slots -> Nat]
  /\ to_send \in [Slots -> Nat]
  /\ len \in [Slots -> SUBSET Frags]
  /\ data \in [Slots -> [Frags -> Payload]]

HandlerTypes ==
  /\ pc \in Labels
  /\ wfb \in Frame
  /\ blk \in Slots
  /\ turn \in Nat
  /\ new_blocks \in 0 .. RingSize

(* The variables of the receive path stay in their types: slots and        *)
(* fragments in range, ring_alloc a size_t, no more new blocks than slots, *)
(* stored and delivered data plaintexts.                                   *)
TypeOK ==
  /\ FlagTypes
  /\ SessionTypes
  /\ RingTypes
  /\ HandlerTypes
  /\ out \in Seq(Delivered)

(* rx_session assigns the key, the code, the coder, the ring and the       *)
(* crypto module's key in many steps with error returns between them:      *)
(* whenever has_session_key lets rx_data in, they belong to one session.   *)
SessionCoherent ==
  has_session_key =>
    /\ crypto_key = session_key /\ session_key \in Keys
    /\ fec_k \in 1 .. fec_n
    /\ coder = <<fec_k, fec_n>>
    /\ ring_nof = fec_n

(* Every fragment handed to the decoder and the log, received or rebuilt   *)
(* by FEC, is the plaintext the transmitter sent at that block and         *)
(* fragment of the current session: no stale buffer of a reused slot, no   *)
(* frame of another session, no wrongly rebuilt data.                      *)
Genuine ==
  \A i \in 1 .. Len(out) :
    /\ out[i].frag < fec_k
    /\ out[i].data = [key |-> crypto_key, block |-> out[i].block,
                      frag |-> out[i].frag]

(* However frames are duplicated, reordered or lost, a ring delivers a     *)
(* fragment at most once (rx_data's duplicate test, the window test).      *)
AtMostOnce ==
  \A i, j \in 1 .. Len(out) :
    i # j => <<out[i].block, out[i].frag>> # <<out[j].block, out[j].frag>>

(* A block still in the ring has passed on everything before               *)
(* fragment_to_send: only purge_stale may skip, and it frees the block.    *)
NoSilentSkip ==
  \A s \in Slots :
    index[s] # BLOCK_INVAL /\ ~(pc = "purge" /\ s = front) =>
      \A f \in Frags : f < to_send[s] =>
        \/ <<index[s], f>> \in Withheld
        \/ \E i \in 1 .. Len(out) : out[i].block = index[s] /\ out[i].frag = f

(* rbuf_get_block moves the window to the block number of a header before  *)
(* the frame is authenticated.  A window moved by a frame that turns out   *)
(* to be damaged or foreign is never used: when the next frame comes, the  *)
(* newest block has an authentic fragment, or the session, and with it the *)
(* ring, has been given up.  This is said of block numbers below 2^32: a   *)
(* header a multiple of 2^32 blocks ahead gets the slot of another block,  *)
(* whose duplicate test may end rx_data before the frame is authenticated. *)
WindowAuthentic ==
  pc = "idle" /\ has_session_key /\ last_block \in 0 .. IntMod - 1 =>
    \/ \E s \in Slots : index[s] = last_block /\ used[s] > 0
    \/ \E i \in 1 .. Len(out) : out[i].block = last_block
    \/ \E w \in Withheld : w[1] = last_block

(* With FEC enabled throughout, a block never waits with fec_k fragments:  *)
(* when rx_data returns, it was rebuilt, delivered and freed.              *)
RecoveredInTime ==
  pc = "idle" /\ has_session_key =>
    \A s \in Slots : index[s] # BLOCK_INVAL => used[s] < fec_k

(* rx_data.c, data_add: "new block is arrived. let's forget old blocks,    *)
(* because we prefer latency to processing reordering."  Once the purge is *)
(* over no older block is left in the ring.                                *)
OldBlocksForgotten ==
  pc = "fec" =>
    \A s \in Slots : index[s] # BLOCK_INVAL => index[s] >= index[blk]

(* rx_data.c, data_add: "all data received. we can drop parity frames."    *)
(* Dropping a completed block comes to an end.                             *)
CompletedBlockFreed == pc # "freeing"

(* A header that was never encrypted under the session's key may be any    *)
(* number of blocks ahead, a multiple of 2^32 too: as an int, that is none.*)
Aliased == wfb.key # crypto_key /\ wfb.block >= IntMod

(* util_rbuf.c: "idx is point to block_idx here."  The block that          *)
(* rbuf_get_block returns is the block asked for, unless the header is one *)
(* of a frame that cannot be decrypted.                                    *)
BlockAskedFor == pc = "store" => index[blk] = wfb.block \/ Aliased

(* Every data handler comes back to the event loop: the loops of           *)
(* rbuf_get_block, rbuf_free_block, purge_stale and send_data_any end.     *)
HandlerReturns == pc # "idle" ~> pc = "idle"

(* The receive path implements the ordered, at-most-once, genuine stream.  *)
D == INSTANCE Delivery WITH key <- crypto_key, stream <- out,
                            Blocks <- 0 .. MaxBlockIdx, Fragments <- Frags

ImplementsDelivery == D!DSpec
=============================================================================
