------------------------------ MODULE Receiver ------------------------------
(***************************************************************************)
(* The receive path of wfb_listener: session announcements (rx_session.c), *)
(* data frames (rx_data.c), the sliding window they share (util_rbuf.c),   *)
(* the session key (crypto_wfb.c) and the FEC coder (fec_wfb.c).  One      *)
(* thread, the netcore thread, runs both handlers to completion; an IPC    *)
(* request may toggle the no_fec option between two frames.  A handler is  *)
(* cut at its loops: pc says which loop it is in, "idle" between frames.   *)
(*                                                                         *)
(* A data frame is its header and the key it was encrypted with; NoKey is  *)
(* a frame that does not authenticate under any key (damaged, foreign).    *)
(* Returns of a handler that change nothing are stuttering steps and have  *)
(* no action.  RSSI and last_seq, which only feed messages and the         *)
(* overlay, are left out.                                                  *)
(***************************************************************************)
EXTENDS RingBuffer, Sequences, FiniteSets

CONSTANTS
  Keys, NoKey,    \* session keys; no key
  Sessions,       \* the announcements a transmitter may broadcast
  ChannelId,      \* ctx->channel_id; 0 accepts every channel
  MaxFecN,        \* bound of fec_n (255 in the code: uint8_t)
  MaxBlockIdx,    \* MAX_BLOCK_IDX
  MaxGap,         \* authentic frames are at most this many blocks ahead
  Withheld,       \* <<block, fragment>> not passed on: FEC_ONLY or oversized
  LogOpens,       \* the outcomes of opening the log file; {FALSE}: no log_file option
  FecToggles      \* BOOLEAN: IPC clients toggle no_fec

Frags == 0 .. MaxFecN - 1

WFB_FEC_VDM_RS == 1

SessionHeader == [key : Keys, epoch : Nat, channel : Nat, fec_type : Nat,
                  k : 0 .. MaxFecN, n : 0 .. MaxFecN]

ASSUME ReceiverAssumption ==
  /\ NoKey \notin Keys
  /\ Sessions \subseteq SessionHeader
  \* a key is drawn afresh for a session: it determines the code
  /\ \A s, t \in Sessions : s.key = t.key => s.k = t.k /\ s.n = t.n
  /\ ChannelId \in Nat
  /\ MaxFecN \in Nat \ {0}
  /\ MaxBlockIdx \in Nat
  \* a transmitter does not skip 2^32 blocks
  /\ MaxGap \in 1 .. IntMod - 1
  /\ LogOpens \in (SUBSET BOOLEAN) \ {{}}
  /\ FecToggles \in BOOLEAN

(* A plaintext names the session, block and fragment it was encoded as.    *)
Payload == [key : Keys \cup {NoKey}, block : Int, frag : Int]
Garbage == [key |-> NoKey, block |-> BLOCK_INVAL, frag |-> -1]

Frame   == [key : Keys \cup {NoKey}, block : 0 .. MaxBlockIdx, frag : Frags]
NoFrame == [key |-> NoKey, block |-> 0, frag |-> 0]

NoCoder == <<0, 0>>
NoLog   == <<0, 0>>

VARIABLES
  \* struct rx_context
  has_session_key, session_key, epoch, fec_k, fec_n,
  coder,          \* <<k, n>> of ctx->fec.u.zfec, NoCoder when NULL
  log,            \* <<k, n>> in the header of the open log file, or NoLog
  \* crypto_wfb.c
  crypto_key,
  \* ctx->rx_ring; ring_nof = 0 when it is NULL
  ring_nof, front, alloc, last_block,
  \* ring->blocks, by slot: index, fragment_used, fragment_to_send,
  \* the fragments of non-zero fragment_len, the fragment buffers
  index, used, to_send, len, data,
  \* wfb_options.no_fec
  no_fec,
  \* the handler: its loop, ctx->wfb, blk, i and new_blocks
  pc, wfb, blk, turn, new_blocks,
  \* what rx_decode_frame and rx_log_decode received from this ring
  out

sessionVars == <<has_session_key, session_key, epoch, fec_k, fec_n, coder,
                 log, crypto_key>>
windowVars  == <<front, alloc, index>>
blockVars   == <<used, to_send, len, data>>
ringVars    == <<ring_nof, last_block, windowVars, blockVars>>
handlerVars == <<pc, wfb, blk, turn, new_blocks>>
vars        == <<sessionVars, ringVars, handlerVars, no_fec, out>>

-----------------------------------------------------------------------------
(* Control of the handlers.                                                *)

(* A thread that does not leave the search of rbuf_get_block, or the loop  *)
(* of rbuf_free_block.                                                     *)
Hung == {"searching", "freeing"}

Labels == {"idle", "alloc", "store", "seq", "purge", "fec", "recovered"} \cup Hung

Goto(label) == pc' = label /\ UNCHANGED <<wfb, blk, turn, new_blocks>>

(* Back to the event loop; the handler's locals are gone.                  *)
Return ==
  /\ pc' = "idle"
  /\ wfb' = NoFrame
  /\ blk' = 0
  /\ turn' = 0
  /\ new_blocks' = 0

-----------------------------------------------------------------------------
(* rx_session: an announcement that decrypts.                              *)

(* The session in use needs no rekeying.                                   *)
Announced(s) ==
  /\ pc = "idle"
  /\ ~(has_session_key /\ session_key = s.key /\ epoch = s.epoch)

Acceptable(s) ==
  /\ ChannelId = 0 \/ ChannelId = s.channel
  /\ s.fec_type = WFB_FEC_VDM_RS
  /\ s.n >= 1
  /\ s.k >= 1 /\ s.k <= s.n

StartRekeying_KeepsKey == UNCHANGED has_session_key

StartRekeying == has_session_key' = FALSE

SessionRejected(s) ==
  /\ Announced(s)
  /\ ~Acceptable(s)
  /\ StartRekeying
  /\ UNCHANGED <<session_key, epoch, fec_k, fec_n, coder, log, crypto_key,
                 ringVars, handlerVars, no_fec, out>>

(* fec_wfb_new has dropped the old coder when fec_new fails.               *)
SessionNoCoder(s) ==
  /\ Announced(s)
  /\ Acceptable(s)
  /\ StartRekeying
  /\ coder' = NoCoder
  /\ UNCHANGED <<session_key, epoch, fec_k, fec_n, log, crypto_key,
                 ringVars, handlerVars, no_fec, out>>

(* rbuf_alloc: malloc leaves the fragment buffers unspecified.             *)
RbufAlloc(nof) ==
  /\ ring_nof' = nof
  /\ front' = 0
  /\ alloc' = 0
  /\ last_block' = BLOCK_INVAL
  /\ index' = [s \in Slots |-> BLOCK_INVAL]
  /\ used' = [s \in Slots |-> 0]
  /\ to_send' = [s \in Slots |-> 0]
  /\ len' = [s \in Slots |-> {}]
  /\ data' = [s \in Slots |-> [f \in Frags |-> Garbage]]

(* The old ring is freed before rbuf_alloc fails.                          *)
SessionNoRing(s) ==
  /\ Announced(s)
  /\ Acceptable(s)
  /\ StartRekeying
  /\ coder' = <<s.k, s.n>>
  /\ RbufAlloc(0)
  /\ UNCHANGED <<session_key, epoch, fec_k, fec_n, log, crypto_key,
                 handlerVars, no_fec, out>>

(* rx_log_create with the new session in ctx: the old file is closed, a    *)
(* new one with the session's code in its header is opened, if it can be.  *)
RxLogCreate(k, n) ==
  \E opened \in LogOpens : log' = IF opened THEN <<k, n>> ELSE NoLog

SessionAccepted(s) ==
  /\ Announced(s)
  /\ Acceptable(s)
  /\ coder' = <<s.k, s.n>>
  /\ RbufAlloc(s.n)
  /\ epoch' = s.epoch
  /\ fec_k' = s.k
  /\ fec_n' = s.n
  /\ session_key' = s.key
  /\ crypto_key' = s.key
  /\ has_session_key' = TRUE
  /\ IF s.epoch <= epoch THEN RxLogCreate(s.k, s.n) ELSE UNCHANGED log
  /\ out' = <<>>
  /\ UNCHANGED <<handlerVars, no_fec>>

-----------------------------------------------------------------------------
(* rx_data, up to the block: the checks, then rbuf_get_block.              *)

(* The environment: frames of the current session follow the transmitter's *)
(* block counter, every other frame may carry any header.                  *)
Plausible(f) ==
  f.key = crypto_key /\ last_block # BLOCK_INVAL =>
    f.block <= last_block + MaxGap

RxData(f) ==
  /\ pc = "idle"
  /\ has_session_key
  /\ f.frag < fec_n
  /\ Plausible(f)

Searched(f) == Hits(front, alloc, index, f.block)

RxFound(f) ==
  /\ RxData(f)
  /\ Searched(f) # {}
  /\ pc' = "store"
  /\ wfb' = f
  /\ blk' = FirstHit(front, alloc, index, f.block)
  /\ UNCHANGED <<turn, new_blocks, sessionVars, ringVars, no_fec, out>>

(* Out of the sliding window: rbuf_get_block gives NULL, rx_data returns.  *)
OutOfWindow_OneBehind(b) == last_block # BLOCK_INVAL /\ b + 1 < last_block

OutOfWindow(b) == last_block # BLOCK_INVAL /\ b <= last_block

RxNew(f) ==
  /\ RxData(f)
  /\ Searched(f) = {}
  /\ ~OutOfWindow(f.block)
  /\ pc' = "alloc"
  /\ wfb' = f
  /\ blk' = IF alloc = 0 THEN 0 ELSE At(front, alloc - 1)
  /\ turn' = 0
  /\ new_blocks' = NewBlocks(last_block, f.block)
  /\ UNCHANGED <<sessionVars, ringVars, no_fec, out>>

(* The counter of the search overflows: undefined, the loop may not end    *)
(* (the builds that wrap it come out as RxNew or as a return).             *)
RxSearchSpins(f) ==
  /\ RxData(f)
  /\ Searched(f) = {}
  /\ SearchOverflows(alloc)
  /\ pc' = "searching"
  /\ wfb' = f
  /\ UNCHANGED <<blk, turn, new_blocks, sessionVars, ringVars, no_fec, out>>

(* The slot starts over; its fragment buffers keep what they hold.         *)
ResetBlock_KeepsLengths(s) ==
  /\ used' = [used EXCEPT ![s] = 0]
  /\ to_send' = [to_send EXCEPT ![s] = 0]
  /\ UNCHANGED len

ResetBlock(s) ==
  /\ used' = [used EXCEPT ![s] = 0]
  /\ to_send' = [to_send EXCEPT ![s] = 0]
  /\ len' = [len EXCEPT ![s] = {}]

(* One turn of the allocation loop: drop what the slot holds, then reset   *)
(* it to the next block.                                                   *)
AllocBlock ==
  LET s       == AllocSlot(front, alloc, turn)
      drops   == index[s] # BLOCK_INVAL
      without == [index EXCEPT ![s] = BLOCK_INVAL]
      spins   == drops /\ FreeSpins(front, alloc, without)
      rest    == IF drops THEN FreedAlloc(front, alloc, without) ELSE alloc
  IN
  /\ pc = "alloc"
  /\ turn < new_blocks
  /\ ~spins
  /\ front' = IF drops THEN FreedFront(front, alloc, without) ELSE front
  /\ alloc' = (rest + 1) % SizeMod
  /\ index' = [index EXCEPT ![s] = wfb.block - new_blocks + 1 + turn]
  /\ ResetBlock(s)
  /\ blk' = s
  /\ turn' = turn + 1
  /\ UNCHANGED <<pc, wfb, new_blocks, ring_nof, last_block, data,
                 sessionVars, no_fec, out>>

(* An allocation turn whose drop does not come back.                       *)
AllocSpins ==
  LET s       == AllocSlot(front, alloc, turn)
      without == [index EXCEPT ![s] = BLOCK_INVAL]
  IN
  /\ pc = "alloc"
  /\ turn < new_blocks
  /\ index[s] # BLOCK_INVAL
  /\ FreeSpins(front, alloc, without)
  /\ index' = without
  /\ Goto("freeing")
  /\ UNCHANGED <<sessionVars, ring_nof, last_block, front, alloc, blockVars,
                 no_fec, out>>

AllocDone ==
  /\ pc = "alloc"
  /\ turn >= new_blocks
  /\ last_block' = wfb.block
  /\ Goto("store")
  /\ UNCHANGED <<ring_nof, windowVars, blockVars, sessionVars, no_fec, out>>

-----------------------------------------------------------------------------
(* rx_data, from the block on, and data_add.                               *)

IsFront(s) == s = front

Duplicate == wfb.frag \in len[blk]

StoreDuplicate ==
  /\ pc = "store"
  /\ Duplicate
  /\ Return
  /\ UNCHANGED <<sessionVars, ringVars, no_fec, out>>

(* crypto_wfb_data_decrypt: the header is authenticated with the body.     *)
Authentic_AnyKey(f) == f.key # NoKey

Authentic(f) == crypto_key # NoKey /\ f.key = crypto_key

(* The session is given up; the buffer's content is no longer specified.   *)
StoreRefused_KeepsSession ==
  /\ pc = "store"
  /\ ~Duplicate
  /\ ~Authentic(wfb)
  /\ data' = [data EXCEPT ![blk][wfb.frag] = Garbage]
  /\ Return
  /\ UNCHANGED <<sessionVars, ring_nof, last_block, windowVars, used, to_send,
                 len, no_fec, out>>

StoreRefused ==
  /\ pc = "store"
  /\ ~Duplicate
  /\ ~Authentic(wfb)
  /\ has_session_key' = FALSE
  /\ data' = [data EXCEPT ![blk][wfb.frag] = Garbage]
  /\ Return
  /\ UNCHANGED <<session_key, epoch, fec_k, fec_n, coder, log, crypto_key,
                 ring_nof, last_block, windowVars, used, to_send, len,
                 no_fec, out>>

(* A block that is not at the front makes data_add purge the older ones.   *)
DataAdd_NoPurge == "seq"

DataAdd == IF IsFront(blk) THEN "seq" ELSE "purge"

Store ==
  /\ pc = "store"
  /\ ~Duplicate
  /\ Authentic(wfb)
  /\ data' = [data EXCEPT ![blk][wfb.frag] = wfb]
  /\ len' = [len EXCEPT ![blk] = @ \cup {wfb.frag}]
  /\ used' = [used EXCEPT ![blk] = @ + 1]
  /\ Goto(DataAdd)
  /\ UNCHANGED <<sessionVars, ring_nof, last_block, windowVars, to_send,
                 no_fec, out>>

-----------------------------------------------------------------------------
(* send_data_any, one turn: send_data_one hands the fragment on unless its *)
(* plaintext says otherwise; the stale variant skips missing fragments.    *)

Present(s) == to_send[s] < fec_k /\ to_send[s] \in len[s]
Missing(s) == to_send[s] < fec_k /\ to_send[s] \notin len[s]

SendDataOne_ReceivedOnly(s) ==
  LET d == data[s][to_send[s]]
  IN  out' = IF to_send[s] \notin len[s] \/ <<d.block, d.frag>> \in Withheld
             THEN out
             ELSE Append(out, [block |-> index[s], frag |-> to_send[s],
                               data |-> d])

SendDataOne(s) ==
  LET d == data[s][to_send[s]]
  IN  out' = IF <<d.block, d.frag>> \in Withheld THEN out
             ELSE Append(out, [block |-> index[s], frag |-> to_send[s],
                               data |-> d])

Advance(s) == to_send' = [to_send EXCEPT ![s] = @ + 1]

(* rbuf_free_block(s), then on to label; or its loop never ends.           *)
FreeBlock(s, label) ==
  LET without == [index EXCEPT ![s] = BLOCK_INVAL]
  IN
  /\ index' = without
  /\ IF FreeSpins(front, alloc, without)
     THEN Goto("freeing") /\ UNCHANGED <<front, alloc>>
     ELSE /\ front' = FreedFront(front, alloc, without)
          /\ alloc' = FreedAlloc(front, alloc, without)
          /\ IF label = "idle" THEN Return ELSE Goto(label)

(* send_data_seq *)
SendSeq ==
  /\ pc = "seq"
  /\ Present(blk)
  /\ SendDataOne(blk)
  /\ Advance(blk)
  /\ UNCHANGED <<handlerVars, sessionVars, ring_nof, last_block, windowVars,
                 used, len, data, no_fec>>

(* All data of the block went out: the parity still to come is not needed. *)
SeqComplete ==
  /\ pc = "seq"
  /\ to_send[blk] >= fec_k
  /\ FreeBlock(blk, "idle")
  /\ UNCHANGED <<sessionVars, ring_nof, last_block, blockVars, no_fec, out>>

SeqBlocked ==
  /\ pc = "seq"
  /\ Missing(blk)
  /\ Goto("fec")
  /\ UNCHANGED <<sessionVars, ringVars, no_fec, out>>

(* purge_stale *)
PurgeSend ==
  /\ pc = "purge"
  /\ ~IsFront(blk)
  /\ Present(front)
  /\ SendDataOne(front)
  /\ Advance(front)
  /\ UNCHANGED <<handlerVars, sessionVars, ring_nof, last_block, windowVars,
                 used, len, data, no_fec>>

PurgeSkip ==
  /\ pc = "purge"
  /\ ~IsFront(blk)
  /\ Missing(front)
  /\ Advance(front)
  /\ UNCHANGED <<handlerVars, sessionVars, ring_nof, last_block, windowVars,
                 used, len, data, no_fec, out>>

PurgeFree ==
  /\ pc = "purge"
  /\ ~IsFront(blk)
  /\ to_send[front] >= fec_k
  /\ FreeBlock(front, "purge")
  /\ UNCHANGED <<sessionVars, ring_nof, last_block, blockVars, no_fec, out>>

PurgeDone ==
  /\ pc = "purge"
  /\ IsFront(blk)
  /\ Goto("fec")
  /\ UNCHANGED <<sessionVars, ringVars, no_fec, out>>

-----------------------------------------------------------------------------
(* FEC *)

Recoverable_OneMore(s) ==
  to_send[s] < fec_k /\ used[s] = fec_k + 1 /\ ~no_fec

Recoverable(s) ==
  to_send[s] < fec_k /\ used[s] = fec_k /\ ~no_fec

Lost(s) == {i \in 0 .. fec_k - 1 : i \notin len[s]}

Parity(s) == {j \in len[s] : j >= fec_k}

(* data_recovery takes the data at hand and, for each lost fragment, the   *)
(* next parity.                                                            *)
Inputs(s) ==
  {i \in len[s] : i < fec_k} \cup
  {j \in Parity(s) : Cardinality({i \in Parity(s) : i < j}) < Cardinality(Lost(s))}

(* fec_decode (zfec): fec_k fragments of one block of one session under    *)
(* that session's code give the block's data; anything else gives garbage. *)
Decoded(s, i) ==
  LET p == data[s][CHOOSE j \in Inputs(s) : TRUE]
  IN  IF /\ Cardinality(Inputs(s)) = fec_k
         /\ \A j \in Inputs(s) :
              data[s][j] = [key |-> p.key, block |-> p.block, frag |-> j]
         /\ \E t \in Sessions : t.key = p.key /\ coder = <<t.k, t.n>>
      THEN [key |-> p.key, block |-> p.block, frag |-> i]
      ELSE Garbage

(* data_recovery is only called when something still to send is lost.      *)
Recover ==
  /\ pc = "fec"
  /\ Recoverable(blk)
  /\ data' = IF \E i \in Lost(blk) : i >= to_send[blk]
             THEN [data EXCEPT ![blk] =
                     [i \in Frags |-> IF i \in Lost(blk) THEN Decoded(blk, i)
                                      ELSE @[i]]]
             ELSE data
  /\ Goto("recovered")
  /\ UNCHANGED <<sessionVars, ring_nof, last_block, windowVars, used,
                 to_send, len, no_fec, out>>

WaitForMore ==
  /\ pc = "fec"
  /\ ~Recoverable(blk)
  /\ Return
  /\ UNCHANGED <<sessionVars, ringVars, no_fec, out>>

(* send_data_recovered *)
SendRecovered ==
  /\ pc = "recovered"
  /\ to_send[blk] < fec_k
  /\ SendDataOne(blk)
  /\ Advance(blk)
  /\ UNCHANGED <<handlerVars, sessionVars, ring_nof, last_block, windowVars,
                 used, len, data, no_fec>>

RecoveredDone ==
  /\ pc = "recovered"
  /\ to_send[blk] >= fec_k
  /\ FreeBlock(blk, "idle")
  /\ UNCHANGED <<sessionVars, ring_nof, last_block, blockVars, no_fec, out>>

-----------------------------------------------------------------------------
(* ipc_rx, WFB_IPC_FEC_TOGGLE; it runs on the netcore thread too.          *)
FecToggle ==
  /\ FecToggles
  /\ pc = "idle"
  /\ no_fec' = ~no_fec
  /\ UNCHANGED <<sessionVars, ringVars, handlerVars, out>>

Spin == pc \in Hung /\ UNCHANGED vars

-----------------------------------------------------------------------------
(* rx_context_initialize: the context is cleared.                          *)
Init ==
  /\ has_session_key = FALSE
  /\ session_key = NoKey
  /\ epoch = 0
  /\ fec_k = 0
  /\ fec_n = 0
  /\ coder = NoCoder
  /\ log = NoLog
  /\ crypto_key = NoKey
  /\ ring_nof = 0
  /\ front = 0
  /\ alloc = 0
  /\ last_block = BLOCK_INVAL
  /\ index = [s \in Slots |-> BLOCK_INVAL]
  /\ used = [s \in Slots |-> 0]
  /\ to_send = [s \in Slots |-> 0]
  /\ len = [s \in Slots |-> {}]
  /\ data = [s \in Slots |-> [f \in Frags |-> Garbage]]
  /\ no_fec \in {FALSE, FecToggles}   \* the option may be set at start
  /\ pc = "idle"
  /\ wfb = NoFrame
  /\ blk = 0
  /\ turn = 0
  /\ new_blocks = 0
  /\ out = <<>>

RxSession ==
  \E s \in Sessions :
    SessionRejected(s) \/ SessionNoCoder(s) \/ SessionNoRing(s) \/ SessionAccepted(s)

RxFrame == \E f \in Frame : RxFound(f) \/ RxNew(f) \/ RxSearchSpins(f)

(* The steps of a data handler that has its frame.                         *)
Work ==
  \/ AllocBlock \/ AllocDone
  \/ StoreDuplicate \/ StoreRefused \/ Store
  \/ SendSeq \/ SeqComplete \/ SeqBlocked
  \/ PurgeSend \/ PurgeSkip \/ PurgeFree \/ PurgeDone
  \/ Recover \/ WaitForMore \/ SendRecovered \/ RecoveredDone

Hang == AllocSpins \/ Spin

Next == RxSession \/ RxFrame \/ Work \/ Hang \/ FecToggle

Spec == Init /\ [][Next]_vars

(* The thread runs a handler to its end: nothing else runs on it.          *)
FairSpec == Spec /\ WF_vars(Work)
=============================================================================
