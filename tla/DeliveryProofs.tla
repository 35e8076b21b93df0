--------------------------- MODULE DeliveryProofs ---------------------------
(***************************************************************************)
(* What the receive path delivers, skips, rebuilds and forgets.  That a    *)
(* fragment is delivered at most once, that none is skipped in silence and *)
(* that the block returned is the block asked for holds whatever frames    *)
(* arrive; rebuilding in time needs FEC to stay enabled; the last part is  *)
(* about a stream of which no block is lost as a whole, where the window   *)
(* stays in order and the receive path implements Delivery.                *)
(***************************************************************************)
EXTENDS ReceiverProofs

-----------------------------------------------------------------------------
(* Delivered once                                                          *)

(* The newest block rbuf_get_block has given a slot.                       *)
Newest ==
  IF pc = "alloc" /\ turn > 0 THEN wfb.block - new_blocks + turn ELSE last_block

(* Block numbers only go up, so that a block has one slot.                 *)
OneSlotEach ==
  /\ pc \notin Hung => \A s \in Slots : index[s] <= Newest
  /\ \A s, t \in Slots : index[s] = index[t] /\ index[s] # BLOCK_INVAL => s = t

(* Nothing of a block to come was delivered.                               *)
SentBefore ==
  has_session_key => \A i \in 1 .. Len(out) : out[i].block <= last_block

(* What was delivered of a block in the ring is before fragment_to_send.   *)
SentUpTo ==
  \A s \in Slots : index[s] # BLOCK_INVAL =>
    \A i \in 1 .. Len(out) : out[i].block = index[s] => out[i].frag < to_send[s]

(* data_recovery works on a block in the ring.                             *)
RecoversInRing == pc = "recovered" => index[blk] # BLOCK_INVAL

OnceInv ==
  /\ OneSlotEach
  /\ SentBefore
  /\ SentUpTo
  /\ RecoversInRing
  /\ AtMostOnce

-----------------------------------------------------------------------------

(* The types these proofs use.                                             *)
LEMMA OnceTypes ==
  ASSUME GenuineInv
  PROVE  /\ index \in [Slots -> Int] /\ last_block \in Int
         /\ last_block >= BLOCK_INVAL /\ BLOCK_INVAL \in Int
         /\ to_send \in [Slots -> Nat] /\ fec_k \in Nat
         /\ blk \in Slots /\ front \in Slots
         /\ turn \in Nat /\ new_blocks \in Nat /\ wfb.block \in Nat
         /\ out \in Seq(Delivered)
         /\ \A i \in 1 .. Len(out) : out[i].block \in Int /\ out[i].frag \in Nat
<1>1. TypeOK
  BY DEF GenuineInv, TypeInv
<1>2. index \in [Slots -> 0 .. MaxBlockIdx \cup {BLOCK_INVAL}]
      /\ last_block \in 0 .. MaxBlockIdx \cup {BLOCK_INVAL}
  BY <1>1 DEF TypeOK, RingTypes
<1>3. index \in [Slots -> Int] /\ last_block \in Int
      /\ last_block >= BLOCK_INVAL /\ BLOCK_INVAL \in Int
  BY <1>2, ReceiverAssumption DEF BLOCK_INVAL
<1>4. /\ to_send \in [Slots -> Nat] /\ fec_k \in Nat
      /\ blk \in Slots /\ front \in Slots
      /\ turn \in Nat /\ new_blocks \in Nat /\ wfb.block \in Nat
  BY <1>1, RingAssumption
  DEF TypeOK, RingTypes, HandlerTypes, SessionTypes, Frame
<1>5. out \in Seq(Delivered)
  BY <1>1 DEF TypeOK
<1>6. \A i \in 1 .. Len(out) : out[i] \in Delivered
  BY <1>5
<1> QED
  BY <1>3, <1>4, <1>5, <1>6 DEF Delivered

LEMMA OnceInit == Init => OnceInv
<1> SUFFICES ASSUME Init PROVE OnceInv
  OBVIOUS
<1>1. Len(out) = 0
  BY DEF Init
<1>2. OneSlotEach /\ RecoversInRing
  BY DEF Init, OneSlotEach, RecoversInRing, Newest, BLOCK_INVAL
<1> QED
  BY <1>1, <1>2 DEF OnceInv, SentBefore, SentUpTo, AtMostOnce

(* A step that moves the handler and may give up the session.              *)
LEMMA OnceKept ==
  ASSUME OnceInv, pc \notin Hung \cup {"alloc"},
         UNCHANGED <<index, to_send, last_block, out>>,
         pc' = "alloc" => turn' = 0, pc' # "recovered",
         has_session_key' => has_session_key
  PROVE  OnceInv'
<1>1. Newest = last_block /\ Newest' = last_block
  BY DEF Newest
<1>2. OneSlotEach' /\ RecoversInRing'
  BY <1>1 DEF OnceInv, OneSlotEach, RecoversInRing
<1>3. SentBefore' /\ SentUpTo' /\ AtMostOnce'
  BY DEF OnceInv, SentBefore, SentUpTo, AtMostOnce
<1> QED
  BY <1>2, <1>3 DEF OnceInv

(* rx_session: a fresh ring has no block; a new session starts a new       *)
(* stream, and a failed one is not in use.                                 *)
LEMMA OnceRekeyed ==
  ASSUME OnceInv, RxSession
  PROVE  OnceInv'
<1> PICK s \in Sessions : \/ SessionRejected(s) \/ SessionNoCoder(s)
                          \/ SessionNoRing(s) \/ SessionAccepted(s)
  BY DEF RxSession
<1>1. pc = "idle" /\ pc' = "idle"
  BY DEF SessionRejected, SessionNoCoder, SessionNoRing, SessionAccepted,
         Announced, handlerVars
<1>2. CASE SessionRejected(s) \/ SessionNoCoder(s)
  <2>1. UNCHANGED <<index, to_send, last_block, out>> /\ has_session_key' = FALSE
    BY <1>2 DEF SessionRejected, SessionNoCoder, StartRekeying, ringVars,
                windowVars, blockVars
  <2> QED
    BY <1>1, <2>1, OnceKept DEF Hung
<1>3. CASE SessionNoRing(s) \/ SessionAccepted(s)
  <2>1. index' = [t \in Slots |-> BLOCK_INVAL] /\ last_block' = BLOCK_INVAL
    BY <1>3 DEF SessionNoRing, SessionAccepted, RbufAlloc
  <2>2. (has_session_key' = FALSE /\ out' = out) \/ out' = <<>>
    BY <1>3 DEF SessionNoRing, SessionAccepted, StartRekeying
  <2>3. OneSlotEach' /\ SentUpTo' /\ RecoversInRing'
    BY <1>1, <2>1 DEF OneSlotEach, SentUpTo, RecoversInRing, Newest, BLOCK_INVAL
  <2>4. CASE out' = <<>>
    <3>1. Len(out') = 0
      BY <2>4
    <3> QED
      BY <3>1, <2>3 DEF OnceInv, SentBefore, AtMostOnce
  <2>5. CASE has_session_key' = FALSE /\ out' = out
    BY <2>3, <2>5 DEF OnceInv, SentBefore, AtMostOnce
  <2> QED
    BY <2>2, <2>4, <2>5
<1> QED
  BY <1>2, <1>3

(* rbuf_get_block gives a slot to blocks newer than every block seen.      *)
LEMMA OnceAlloc ==
  ASSUME GenuineInv, OnceInv, AllocBlock \/ AllocSpins \/ AllocDone
  PROVE  OnceInv'
<1>1. pc = "alloc" /\ has_session_key /\ UNCHANGED <<has_session_key, out, wfb, new_blocks>>
  BY DEF AllocBlock, AllocSpins, AllocDone, sessionVars, Goto, GenuineInv,
         SessionInv, Hung
<1>2. OneSlotEach /\ SentBefore /\ SentUpTo /\ AtMostOnce'
  BY <1>1 DEF OnceInv, AtMostOnce
<1>3. /\ \A s \in Slots : index[s] <= Newest
      /\ \A i \in 1 .. Len(out) : out[i].block <= last_block
  BY <1>1, <1>2 DEF OneSlotEach, SentBefore, Hung
<1> DEFINE s == AllocSlot(front, alloc, turn)
<1>4. s \in Slots
  BY AllocSlotType DEF GenuineInv, TypeInv, TypeOK, RingTypes, HandlerTypes
<1> HIDE DEF s
<1>5. CASE AllocBlock
  <2> DEFINE b == wfb.block - new_blocks + 1 + turn
  <2>1. b \in 0 .. MaxBlockIdx /\ (last_block # BLOCK_INVAL => b > last_block)
    BY <1>5, AllocNumbers DEF AllocBlock, GenuineInv
  <2>2. b \in Int /\ b > last_block /\ b > Newest /\ b # BLOCK_INVAL
    <3>1. b \in Int /\ b > last_block /\ b > BLOCK_INVAL
      <4> HIDE DEF b
      <4>1. b \in Nat
        BY <2>1
      <4>2. last_block \in Int
        BY OnceTypes
      <4> QED
        BY <2>1, <4>1, <4>2 DEF BLOCK_INVAL
    <3>2. Newest = wfb.block - new_blocks + turn \/ Newest = last_block
      BY DEF Newest
    <3>3. b = (wfb.block - new_blocks + turn) + 1
      BY OnceTypes
    <3>4. wfb.block - new_blocks + turn \in Int
      BY OnceTypes
    <3> HIDE DEF b
    <3>5. b > Newest
      BY <3>1, <3>2, <3>3, <3>4
    <3> QED
      BY <3>1, <3>5, OnceTypes
  <2>3. /\ index' = [index EXCEPT ![s] = b]
        /\ to_send' = [to_send EXCEPT ![s] = 0]
        /\ turn' = turn + 1 /\ pc' = "alloc" /\ last_block' = last_block
    BY <1>1, <1>5 DEF AllocBlock, ResetBlock, s
  <2>4. Newest' = b
    <3>1. turn \in Nat /\ new_blocks \in Nat /\ wfb.block \in Nat
      BY OnceTypes
    <3>2. turn' > 0 /\ Newest' = wfb.block - new_blocks + (turn + 1)
      BY <1>1, <2>3, <3>1 DEF Newest
    <3> QED
      BY <3>1, <3>2
  <2> HIDE DEF b
  <2>5. \A t \in Slots : index[t] <= b /\ index[t] # b
    <3>1. Newest \in Int
      BY OnceTypes DEF Newest
    <3> QED
      BY <1>3, <2>2, <3>1, OnceTypes
  <2>6. OneSlotEach'
    <3>1. \A t \in Slots : index'[t] = IF t = s THEN b ELSE index[t]
      BY <2>3, OnceTypes
    <3>2. \A t \in Slots : index'[t] <= Newest'
      BY <2>2, <2>4, <2>5, <3>1
    <3>3. \A t, u \in Slots :
             index[t] = index[u] /\ index[t] # BLOCK_INVAL => t = u
      BY <1>2 DEF OneSlotEach
    <3>4. \A t, u \in Slots :
             index'[t] = index'[u] /\ index'[t] # BLOCK_INVAL => t = u
      BY <2>5, <3>1, <3>3
    <3> QED
      BY <3>2, <3>4 DEF OneSlotEach
  <2>7. SentBefore'
    BY <1>1, <1>2, <2>3 DEF SentBefore
  <2>8. SentUpTo'
    <3>1. \A i \in 1 .. Len(out) : out[i].block # b
      BY <1>3, <2>2, OnceTypes
    <3> QED
      BY <1>1, <1>2, <1>4, <2>3, <3>1, OnceTypes DEF SentUpTo
  <2> QED
    BY <1>2, <2>3, <2>6, <2>7, <2>8 DEF OnceInv, RecoversInRing
<1>6. CASE AllocSpins
  <2>1. /\ index' = [index EXCEPT ![s] = BLOCK_INVAL] /\ pc' = "freeing"
        /\ UNCHANGED <<to_send, last_block>>
    BY <1>6 DEF AllocSpins, s, Goto, blockVars
  <2>2. OneSlotEach' /\ RecoversInRing'
    BY <1>2, <1>4, <2>1, OnceTypes DEF OneSlotEach, RecoversInRing, Hung
  <2>3. SentBefore' /\ SentUpTo'
    BY <1>1, <1>2, <1>4, <2>1, OnceTypes DEF SentBefore, SentUpTo
  <2> QED
    BY <1>2, <2>2, <2>3 DEF OnceInv
<1>7. CASE AllocDone
  <2>1. /\ UNCHANGED <<index, to_send>> /\ pc' = "store"
        /\ turn >= new_blocks /\ last_block' = wfb.block
    BY <1>7 DEF AllocDone, Goto, windowVars, blockVars
  <2>2. turn <= new_blocks /\ ~OutOfWindow(wfb.block)
    BY <1>1 DEF GenuineInv, TypeInv, AllocInv
  <2>3. last_block < wfb.block
    BY <2>2, OnceTypes DEF OutOfWindow, BLOCK_INVAL
  <2>4. Newest <= wfb.block /\ Newest' = wfb.block /\ Newest \in Int
    BY <1>1, <2>1, <2>2, <2>3, OnceTypes DEF Newest
  <2>5. OneSlotEach' /\ RecoversInRing'
    <3>1. \A t \in Slots : index[t] <= wfb.block
      BY <1>3, <2>4, OnceTypes
    <3> QED
      BY <1>2, <2>1, <2>4, <3>1 DEF OneSlotEach, RecoversInRing
  <2>6. SentBefore' /\ SentUpTo'
    BY <1>1, <1>2, <1>3, <2>1, <2>3, OnceTypes DEF SentBefore, SentUpTo
  <2> QED
    BY <1>2, <2>5, <2>6 DEF OnceInv
<1> QED
  BY <1>5, <1>6, <1>7

(* send_data_any, one turn: the fragment is the next of its block.         *)
LEMMA OnceSend ==
  ASSUME GenuineInv, OnceInv, SendSeq \/ PurgeSend \/ SendRecovered \/ PurgeSkip
  PROVE  OnceInv'
<1>1. PICK s \in Slots :
        /\ Advance(s) /\ pc \in {"seq", "purge", "recovered"}
        /\ UNCHANGED <<has_session_key, index, last_block, pc, blk>>
        /\ \/ out' = out
           \/ /\ SendDataOne(s)
              /\ Present(s) \/ (pc = "recovered" /\ s = blk)
  <2>1. CASE SendSeq
    BY <2>1, OnceTypes DEF SendSeq, sessionVars, windowVars, handlerVars
  <2>2. CASE PurgeSend
    BY <2>2, OnceTypes DEF PurgeSend, sessionVars, windowVars, handlerVars
  <2>3. CASE PurgeSkip
    BY <2>3, OnceTypes DEF PurgeSkip, sessionVars, windowVars, handlerVars
  <2>4. CASE SendRecovered
    BY <2>4, OnceTypes DEF SendRecovered, sessionVars, windowVars, handlerVars
  <2> QED
    BY <2>1, <2>2, <2>3, <2>4
<1>2. to_send' = [to_send EXCEPT ![s] = @ + 1]
  BY <1>1 DEF Advance
<1>3. OneSlotEach /\ SentBefore /\ SentUpTo /\ RecoversInRing /\ AtMostOnce
  BY DEF OnceInv
<1>4. \A t \in Slots, f \in Nat : f < to_send[t] => f < to_send'[t]
  <2>1. to_send \in [Slots -> Nat]
    BY OnceTypes
  <2> QED
    BY <1>2, <2>1
<1>5. \A i \in 1 .. Len(out) : out[i].frag \in Nat
  BY OnceTypes
<1>6. OneSlotEach' /\ RecoversInRing'
  BY <1>1, <1>3 DEF OneSlotEach, RecoversInRing, Newest
<1>7. CASE out' = out
  <2>1. SentUpTo'
    BY <1>1, <1>3, <1>7, <1>4, <1>5 DEF SentUpTo
  <2>2. SentBefore' /\ AtMostOnce'
    BY <1>1, <1>3, <1>7 DEF SentBefore, AtMostOnce
  <2> QED
    BY <1>6, <2>1, <2>2 DEF OnceInv
<1>8. CASE out' # out
  <2> DEFINE x == [block |-> index[s], frag |-> to_send[s],
                   data |-> data[s][to_send[s]]]
  <2>1. out' = Append(out, x)
    BY <1>1, <1>8 DEF SendDataOne
  <2>2. index[s] # BLOCK_INVAL
    <3>1. CASE Present(s)
      <4>1. to_send[s] \in len[s] /\ to_send[s] < fec_k
        BY <3>1 DEF Present
      <4>2. FreedSent
        BY DEF GenuineInv, StoredInv
      <4>3. pc \notin Hung
        BY <1>1 DEF Hung
      <4>4. to_send[s] \in Nat /\ fec_k \in Nat
        BY OnceTypes
      <4> QED
        BY <4>1, <4>2, <4>3, <4>4 DEF FreedSent
    <3>2. CASE pc = "recovered" /\ s = blk
      BY <3>2, <1>3 DEF RecoversInRing
    <3> QED
      BY <1>1, <1>8, <3>1, <3>2
  <2>3. x.block = index[s] /\ x.frag = to_send[s]
    OBVIOUS
  <2> HIDE DEF x
  <2>4. index[s] <= last_block
    BY <1>1, <1>3 DEF OneSlotEach, Newest, Hung
  <2>5. /\ Len(out') = Len(out) + 1 /\ out'[Len(out) + 1] = x /\ Len(out) \in Nat
        /\ \A i \in 1 .. Len(out) : out'[i] = out[i]
    BY <2>1, OnceTypes
  <2>6. SentBefore'
    BY <1>1, <1>3, <2>3, <2>4, <2>5 DEF SentBefore
  <2>7. SentUpTo'
    <3>1. ASSUME NEW t \in Slots, index[t] # BLOCK_INVAL,
                 NEW i \in 1 .. Len(out) + 1, out'[i].block = index[t]
          PROVE  out'[i].frag < to_send'[t]
      <4>1. CASE i = Len(out) + 1
        <5>1. t = s
          BY <1>3, <2>3, <2>5, <3>1, <4>1 DEF OneSlotEach
        <5>2. out'[i].frag = to_send[s] /\ to_send[s] \in Nat
          BY <2>3, <2>5, <4>1, OnceTypes
        <5>3. to_send'[s] = to_send[s] + 1
          BY <1>2, OnceTypes
        <5> QED
          BY <5>1, <5>2, <5>3
      <4>2. CASE i \in 1 .. Len(out)
        <5>1. out[i].frag < to_send[t]
          BY <1>3, <2>5, <3>1, <4>2 DEF SentUpTo
        <5> QED
          BY <1>4, <1>5, <2>5, <4>2, <5>1
      <4> QED
        BY <2>5, <4>1, <4>2
    <3> QED
      BY <1>1, <2>5, <3>1 DEF SentUpTo
  <2>8. AtMostOnce'
    <3>1. \A i \in 1 .. Len(out) :
            <<out[i].block, out[i].frag>> # <<x.block, x.frag>>
      <4>1. \A i \in 1 .. Len(out) : out[i].block = index[s] => out[i].frag < to_send[s]
        BY <1>3, <2>2 DEF SentUpTo
      <4>2. to_send[s] \in Nat
        BY OnceTypes
      <4> QED
        BY <1>5, <2>3, <4>1, <4>2
    <3> QED
      BY <1>3, <2>5, <3>1 DEF AtMostOnce
  <2> QED
    BY <1>6, <2>6, <2>7, <2>8 DEF OnceInv
<1> QED
  BY <1>7, <1>8

(* rbuf_free_block: a block leaves the ring.                               *)
LEMMA OnceFreed ==
  ASSUME GenuineInv, OnceInv, SeqComplete \/ PurgeFree \/ RecoveredDone
  PROVE  OnceInv'
<1>1. RingTypes /\ HandlerTypes
  BY DEF GenuineInv, TypeInv, TypeOK
<1>2. PICK s \in Slots, l \in {"idle", "purge"} :
        /\ FreeBlock(s, l) /\ pc \in {"seq", "purge", "recovered"}
        /\ UNCHANGED <<has_session_key, last_block, to_send, out>>
  BY OnceTypes DEF SeqComplete, PurgeFree, RecoveredDone, sessionVars, blockVars
<1>3. index' = [index EXCEPT ![s] = BLOCK_INVAL] /\ pc' \in {"freeing", l}
  BY <1>1, <1>2, FreeBlockType
<1>4. OneSlotEach /\ SentBefore /\ SentUpTo /\ AtMostOnce
  BY DEF OnceInv
<1>5. Newest = last_block /\ Newest' = last_block
  BY <1>2, <1>3 DEF Newest
<1>6. OneSlotEach' /\ RecoversInRing'
  BY <1>2, <1>3, <1>4, <1>5, OnceTypes DEF OneSlotEach, RecoversInRing, Hung
<1>7. SentBefore' /\ AtMostOnce'
  BY <1>2, <1>4 DEF SentBefore, AtMostOnce
<1>8. SentUpTo'
  BY <1>2, <1>3, <1>4, OnceTypes DEF SentUpTo
<1> QED
  BY <1>6, <1>7, <1>8 DEF OnceInv

LEMMA OnceStep == GenuineInv /\ OnceInv /\ [Next]_vars => OnceInv'
<1> SUFFICES ASSUME GenuineInv, OnceInv, [Next]_vars PROVE OnceInv'
  OBVIOUS
<1>1. CASE RxFrame \/ StoreDuplicate \/ StoreRefused \/ Store \/ SeqBlocked
           \/ PurgeDone \/ WaitForMore
  <2>1. CASE RxFrame
    BY <2>1, OnceKept DEF RxFrame, RxFound, RxNew, RxSearchSpins, RxData,
       sessionVars, ringVars, windowVars, blockVars, Hung
  <2>2. CASE StoreRefused
    BY <2>2, OnceKept DEF StoreRefused, Return, windowVars, Hung
  <2>3. CASE Store
    BY <2>3, OnceKept DEF Store, DataAdd, Goto, sessionVars, windowVars, Hung
  <2>4. CASE StoreDuplicate \/ SeqBlocked \/ PurgeDone \/ WaitForMore
    BY <2>4, OnceKept DEF StoreDuplicate, SeqBlocked, PurgeDone, WaitForMore,
       Goto, Return, sessionVars, ringVars, windowVars, blockVars, Hung
  <2> QED
    BY <1>1, <2>1, <2>2, <2>3, <2>4
<1>2. CASE Recover
  <2>1. /\ UNCHANGED <<has_session_key, index, to_send, last_block, out, blk>>
        /\ pc = "fec" /\ pc' = "recovered"
    BY <1>2 DEF Recover, Goto, sessionVars, windowVars
  <2>2. RecoversInRing'
    BY <1>2, <2>1, RecoverInRing DEF RecoversInRing
  <2>3. OneSlotEach' /\ SentBefore' /\ SentUpTo' /\ AtMostOnce'
    BY <2>1 DEF OnceInv, OneSlotEach, Newest, SentBefore, SentUpTo, AtMostOnce, Hung
  <2> QED
    BY <2>2, <2>3 DEF OnceInv
<1>3. CASE UNCHANGED vars \/ FecToggle \/ Spin
  <2>1. UNCHANGED <<has_session_key, index, to_send, last_block, out, pc, wfb,
                    blk, turn, new_blocks>>
    BY <1>3 DEF FecToggle, Spin, vars, sessionVars, ringVars, windowVars,
                blockVars, handlerVars
  <2> QED
    BY <2>1 DEF OnceInv, OneSlotEach, Newest, SentBefore, SentUpTo,
                RecoversInRing, AtMostOnce
<1> QED
  BY <1>1, <1>2, <1>3, OnceRekeyed, OnceAlloc, OnceSend, OnceFreed
  DEF Next, Work, Hang

(* No fragment is delivered twice in a session, for every ring size, code, *)
(* gap and order of arrival, duplicates of a frame included.               *)
THEOREM DeliveredOnce == Spec => []AtMostOnce
<1>1. Init => GenuineInv /\ OnceInv
  BY InitType, SessionInit, StoredInit, OnceInit DEF GenuineInv
<1>2. GenuineInv /\ OnceInv /\ [Next]_vars => (GenuineInv /\ OnceInv)'
  BY GenuineStep, OnceStep
<1>3. OnceInv => AtMostOnce
  BY DEF OnceInv
<1> QED
  BY <1>1, <1>2, <1>3, PTL DEF Spec

-----------------------------------------------------------------------------
(* Nothing is skipped in silence                                           *)

PassedOn(s) ==
  \A f \in Frags : f < to_send[s] =>
    \/ <<index[s], f>> \in Withheld
    \/ \E i \in 1 .. Len(out) : out[i].block = index[s] /\ out[i].frag = f

(* Only the front block is skipped through, and only until it is freed.    *)
SkipInv ==
  \A s \in Slots :
    index[s] # BLOCK_INVAL /\ ~(pc = "purge" /\ s = front /\ s # blk) => PassedOn(s)

(* A step that sends nothing and resets no slot.                           *)
LEMMA SkipKept ==
  ASSUME SkipInv, pc # "purge", UNCHANGED <<index, to_send, out>>
  PROVE  SkipInv'
BY DEF SkipInv, PassedOn

(* rx_session: a fresh ring holds no block.                                *)
LEMMA SkipRekeyed ==
  ASSUME SkipInv, RxSession
  PROVE  SkipInv'
<1> PICK s \in Sessions : \/ SessionRejected(s) \/ SessionNoCoder(s)
                          \/ SessionNoRing(s) \/ SessionAccepted(s)
  BY DEF RxSession
<1>1. CASE SessionRejected(s) \/ SessionNoCoder(s)
  <2>1. UNCHANGED <<index, to_send, out>> /\ pc = "idle"
    BY <1>1 DEF SessionRejected, SessionNoCoder, Announced, ringVars,
                windowVars, blockVars
  <2> QED
    BY <2>1, SkipKept
<1>2. CASE SessionNoRing(s) \/ SessionAccepted(s)
  <2>1. index' = [t \in Slots |-> BLOCK_INVAL]
    BY <1>2 DEF SessionNoRing, SessionAccepted, RbufAlloc
  <2> QED
    BY <2>1 DEF SkipInv
<1> QED
  BY <1>1, <1>2

(* rbuf_get_block resets a slot it gives to a block.                       *)
LEMMA SkipAlloc ==
  ASSUME GenuineInv, SkipInv, AllocBlock \/ AllocSpins
  PROVE  SkipInv'
<1> DEFINE s == AllocSlot(front, alloc, turn)
<1>1. s \in Slots
  BY AllocSlotType DEF GenuineInv, TypeInv, TypeOK, RingTypes, HandlerTypes
<1> HIDE DEF s
<1>2. /\ pc = "alloc" /\ out' = out
      /\ \A t \in Slots : t # s => index'[t] = index[t] /\ to_send'[t] = to_send[t]
      /\ index'[s] = BLOCK_INVAL \/ to_send'[s] = 0
  <2>1. CASE AllocBlock
    BY <1>1, <2>1, OnceTypes DEF AllocBlock, ResetBlock, s
  <2>2. CASE AllocSpins
    BY <1>1, <2>2, OnceTypes DEF AllocSpins, s, blockVars
  <2> QED
    BY <2>1, <2>2
<1>3. \A f \in Frags : ~(f < 0)
  BY ReceiverAssumption DEF Frags
<1> QED
  BY <1>1, <1>2, <1>3 DEF SkipInv, PassedOn

(* send_data_any: a fragment passed over is in the stream or withheld.     *)
LEMMA SkipSend ==
  ASSUME GenuineInv, SkipInv, SendSeq \/ PurgeSend \/ SendRecovered
  PROVE  SkipInv'
<1>1. PICK s \in Slots :
        /\ Advance(s) /\ SendDataOne(s) /\ pc \in {"seq", "purge", "recovered"}
        /\ UNCHANGED <<index, pc, blk, front>>
        /\ Present(s) \/ (pc = "recovered" /\ s = blk /\ to_send[s] < fec_k)
  <2>1. CASE SendSeq
    BY <2>1, OnceTypes DEF SendSeq, windowVars, handlerVars
  <2>2. CASE PurgeSend
    BY <2>2, OnceTypes DEF PurgeSend, windowVars, handlerVars
  <2>3. CASE SendRecovered
    BY <2>3, OnceTypes DEF SendRecovered, windowVars, handlerVars
  <2> QED
    BY <2>1, <2>2, <2>3
<1>2. data[s][to_send[s]] =
        [key |-> crypto_key, block |-> index[s], frag |-> to_send[s]]
  BY <1>1, SentGenuine DEF Hung
<1>3. /\ to_send \in [Slots -> Nat] /\ out \in Seq(Delivered)
      /\ \A f \in Frags : f \in Nat
  BY OnceTypes, ReceiverAssumption DEF Frags
<1>4. /\ to_send'[s] = to_send[s] + 1
      /\ \A t \in Slots : t # s => to_send'[t] = to_send[t]
  BY <1>1, <1>3 DEF Advance
<1> DEFINE x == [block |-> index[s], frag |-> to_send[s],
                 data |-> data[s][to_send[s]]]
<1>5. \/ out' = out /\ <<index[s], to_send[s]>> \in Withheld
      \/ out' = Append(out, x)
  BY <1>1, <1>2 DEF SendDataOne
<1>6. x.block = index[s] /\ x.frag = to_send[s]
  OBVIOUS
<1> HIDE DEF x
<1>7. /\ 1 .. Len(out) \subseteq 1 .. Len(out')
      /\ \A i \in 1 .. Len(out) : out'[i] = out[i]
      /\ \/ <<index[s], to_send[s]>> \in Withheld
         \/ \E i \in 1 .. Len(out') : out'[i].block = index[s] /\ out'[i].frag = to_send[s]
  <2>1. CASE out' = out /\ <<index[s], to_send[s]>> \in Withheld
    BY <2>1
  <2>2. CASE out' = Append(out, x)
    <3>1. /\ Len(out) \in Nat /\ Len(out') = Len(out) + 1
          /\ out'[Len(out) + 1] = x
          /\ \A i \in 1 .. Len(out) : out'[i] = out[i]
      BY <1>3, <2>2
    <3> QED
      BY <1>6, <3>1
  <2> QED
    BY <1>5, <2>1, <2>2
<1>8. ASSUME NEW t \in Slots, PassedOn(t) PROVE PassedOn(t)'
  <2> SUFFICES ASSUME NEW f \in Frags, f < to_send'[t]
               PROVE  \/ <<index[t], f>> \in Withheld
                      \/ \E i \in 1 .. Len(out') :
                           out'[i].block = index[t] /\ out'[i].frag = f
    BY <1>1 DEF PassedOn
  <2>1. CASE f < to_send[t]
    BY <1>7, <1>8, <2>1 DEF PassedOn
  <2>2. CASE ~(f < to_send[t])
    <3>1. t = s /\ f = to_send[s]
      BY <1>3, <1>4, <2>2
    <3> QED
      BY <1>7, <3>1
  <2> QED
    BY <2>1, <2>2
<1> QED
  BY <1>1, <1>8 DEF SkipInv

(* purge_stale skips in the front block, and frees it.                     *)
LEMMA SkipPurge ==
  ASSUME GenuineInv, SkipInv, PurgeSkip \/ PurgeFree \/ PurgeDone
  PROVE  SkipInv'
<1>1. pc = "purge" /\ out' = out /\ front \in Slots /\ to_send \in [Slots -> Nat]
      /\ index \in [Slots -> Int]
  BY OnceTypes DEF PurgeSkip, PurgeFree, PurgeDone
<1>2. CASE PurgeSkip
  <2>1. /\ UNCHANGED <<index, pc, blk, front>> /\ front # blk
        /\ \A t \in Slots : t # front => to_send'[t] = to_send[t]
    BY <1>1, <1>2 DEF PurgeSkip, Advance, IsFront, windowVars, handlerVars
  <2> QED
    BY <1>1, <2>1 DEF SkipInv, PassedOn
<1>3. CASE PurgeFree
  <2>1. /\ index' = [index EXCEPT ![front] = BLOCK_INVAL]
        /\ to_send' = to_send
    BY <1>3 DEF PurgeFree, FreeBlock, blockVars
  <2> QED
    BY <1>1, <2>1 DEF SkipInv, PassedOn
<1>4. CASE PurgeDone
  <2>1. UNCHANGED <<index, to_send>> /\ blk = front /\ pc' = "fec"
    BY <1>4 DEF PurgeDone, IsFront, Goto, ringVars, windowVars, blockVars
  <2> QED
    BY <1>1, <2>1 DEF SkipInv, PassedOn
<1> QED
  BY <1>2, <1>3, <1>4

(* rbuf_free_block, of a block sent to its end.                            *)
LEMMA SkipFreed ==
  ASSUME GenuineInv, SkipInv, SeqComplete \/ RecoveredDone
  PROVE  SkipInv'
<1>1. /\ pc # "purge" /\ UNCHANGED <<to_send, out>> /\ blk \in Slots
      /\ index' = [index EXCEPT ![blk] = BLOCK_INVAL] /\ index \in [Slots -> Int]
  BY OnceTypes DEF SeqComplete, RecoveredDone, FreeBlock, blockVars
<1> QED
  BY <1>1 DEF SkipInv, PassedOn

LEMMA SkipStep == GenuineInv /\ SkipInv /\ [Next]_vars => SkipInv'
<1> SUFFICES ASSUME GenuineInv, SkipInv, [Next]_vars PROVE SkipInv'
  OBVIOUS
<1>1. CASE RxFrame \/ AllocDone \/ StoreDuplicate \/ StoreRefused \/ Store
           \/ SeqBlocked \/ Recover \/ WaitForMore
  <2>1. pc # "purge" /\ UNCHANGED <<index, to_send, out>>
    BY <1>1 DEF RxFrame, RxFound, RxNew, RxSearchSpins, RxData, AllocDone,
       StoreDuplicate, StoreRefused, Store, SeqBlocked, Recover, WaitForMore,
       ringVars, windowVars, blockVars
  <2> QED
    BY <2>1, SkipKept
<1>2. CASE UNCHANGED vars \/ FecToggle \/ Spin
  <2>1. UNCHANGED <<index, to_send, out, pc, blk, front>>
    BY <1>2 DEF FecToggle, Spin, vars, ringVars, windowVars, blockVars, handlerVars
  <2> QED
    BY <2>1 DEF SkipInv, PassedOn
<1> QED
  BY <1>1, <1>2, SkipRekeyed, SkipAlloc, SkipSend, SkipPurge, SkipFreed
  DEF Next, Work, Hang

(* A block still in the ring has passed on everything before               *)
(* fragment_to_send, for every ring size, code, gap and order of arrival,  *)
(* with FEC enabled or not: only purge_stale skips, in a block it frees.   *)
THEOREM NothingSkipped == Spec => []NoSilentSkip
<1>1. Init => GenuineInv /\ SkipInv
  <2>1. Init => SkipInv
    BY DEF Init, SkipInv
  <2> QED
    BY <2>1, InitType, SessionInit, StoredInit DEF GenuineInv
<1>2. GenuineInv /\ SkipInv /\ [Next]_vars => (GenuineInv /\ SkipInv)'
  BY GenuineStep, SkipStep
<1>3. SkipInv => NoSilentSkip
  BY DEF SkipInv, NoSilentSkip, PassedOn
<1> QED
  BY <1>1, <1>2, <1>3, PTL DEF Spec

-----------------------------------------------------------------------------
(* rbuf_get_block returns the block asked for                              *)

AskedInv ==
  /\ pc = "alloc" => new_blocks >= 1 \/ Aliased
  /\ BlockAskedFor

(* The number of new blocks is not zero, but for an alias.                 *)
LEMMA AskedFrame ==
  ASSUME GenuineInv, RxFrame
  PROVE  AskedInv'
<1> PICK f \in Frame : RxFound(f) \/ RxNew(f) \/ RxSearchSpins(f)
  BY DEF RxFrame
<1>1. /\ UNCHANGED <<crypto_key, index>> /\ wfb' = f /\ f.block \in Nat
      /\ RxData(f)
  BY DEF RxFound, RxNew, RxSearchSpins, sessionVars, ringVars, windowVars, Frame
<1>2. CASE RxFound(f)
  <2>1. index[FirstHit(front, alloc, index, f.block)] = f.block
    BY <1>2, OnceTypes, FirstHitType DEF RxFound, Searched
  <2> QED
    BY <1>1, <1>2, <2>1 DEF RxFound, AskedInv, BlockAskedFor
<1>3. CASE RxNew(f)
  <2>1. /\ pc' = "alloc" /\ new_blocks' = NewBlocks(last_block, f.block)
        /\ ~OutOfWindow(f.block)
    BY <1>3 DEF RxNew
  <2>2. last_block \in Nat \cup {BLOCK_INVAL}
    BY OnceTypes DEF BLOCK_INVAL
  <2>3. last_block # BLOCK_INVAL => f.block > last_block
    BY <1>1, <2>1, <2>2 DEF OutOfWindow, BLOCK_INVAL
  <2>4. /\ last_block = BLOCK_INVAL => new_blocks' = 1
        /\ last_block # BLOCK_INVAL /\ f.block - last_block < IntMod =>
             new_blocks' >= 1
    BY <1>1, <2>1, <2>2, <2>3, NewBlocksBounds
  <2>5. CASE last_block = BLOCK_INVAL
    BY <2>1, <2>4, <2>5 DEF AskedInv, BlockAskedFor
  <2>6. CASE last_block # BLOCK_INVAL
    <3>1. f.key = crypto_key => f.block - last_block < IntMod
      BY <1>1, <2>2, <2>6, RingAssumption, ReceiverAssumption
      DEF RxData, Plausible, BLOCK_INVAL
    <3>2. ~(f.block - last_block < IntMod) => f.block >= IntMod
      BY <1>1, <2>2, <2>6, RingAssumption DEF BLOCK_INVAL
    <3> QED
      BY <1>1, <2>1, <2>4, <2>6, <3>1, <3>2 DEF AskedInv, BlockAskedFor, Aliased
  <2> QED
    BY <2>5, <2>6
<1>4. CASE RxSearchSpins(f)
  BY <1>4 DEF RxSearchSpins, AskedInv, BlockAskedFor
<1> QED
  BY <1>2, <1>3, <1>4

LEMMA AskedStep == GenuineInv /\ AskedInv /\ [Next]_vars => AskedInv'
<1> SUFFICES ASSUME GenuineInv, AskedInv, [Next]_vars PROVE AskedInv'
  OBVIOUS
<1>1. CASE RxSession \/ FecToggle
  <2>1. pc' = "idle"
    BY <1>1 DEF RxSession, SessionRejected, SessionNoCoder, SessionNoRing,
       SessionAccepted, Announced, FecToggle, handlerVars
  <2> QED
    BY <2>1 DEF AskedInv, BlockAskedFor
<1>2. CASE AllocBlock
  <2>1. pc' = "alloc" /\ UNCHANGED <<wfb, new_blocks, crypto_key>> /\ pc = "alloc"
    BY <1>2 DEF AllocBlock, sessionVars
  <2> QED
    BY <2>1 DEF AskedInv, BlockAskedFor, Aliased
<1>3. CASE AllocDone
  <2>1. /\ pc' = "store" /\ pc = "alloc" /\ turn >= new_blocks
        /\ UNCHANGED <<index, blk, wfb, crypto_key>>
    BY <1>3 DEF AllocDone, Goto, windowVars, sessionVars
  <2>2. turn <= new_blocks /\ (turn > 0 => index[blk] = wfb.block - new_blocks + turn)
    BY <2>1 DEF GenuineInv, TypeInv, AllocInv, StoredInv, BlockFound
  <2>3. new_blocks >= 1 => index[blk] = wfb.block
    BY <2>1, <2>2, OnceTypes
  <2> QED
    BY <2>1, <2>3 DEF AskedInv, BlockAskedFor, Aliased
<1>4. CASE StoreDuplicate \/ StoreRefused \/ Store \/ SendSeq \/ SeqComplete
           \/ SeqBlocked \/ PurgeSend \/ PurgeSkip \/ PurgeFree \/ PurgeDone
           \/ Recover \/ WaitForMore \/ SendRecovered \/ RecoveredDone
           \/ AllocSpins
  <2>1. pc' \notin {"alloc", "store"}
    BY <1>4 DEF StoreDuplicate, StoreRefused, Store, SendSeq, SeqComplete,
       SeqBlocked, PurgeSend, PurgeSkip, PurgeFree, PurgeDone, Recover,
       WaitForMore, SendRecovered, RecoveredDone, AllocSpins, Goto, Return,
       FreeBlock, DataAdd, handlerVars
  <2> QED
    BY <2>1 DEF AskedInv, BlockAskedFor
<1>5. CASE UNCHANGED vars \/ Spin
  <2>1. UNCHANGED <<pc, wfb, blk, new_blocks, index, crypto_key>>
    BY <1>5 DEF Spin, vars, sessionVars, ringVars, windowVars, handlerVars
  <2> QED
    BY <2>1 DEF AskedInv, BlockAskedFor, Aliased
<1> QED
  BY <1>1, <1>2, <1>3, <1>4, <1>5, AskedFrame DEF Next, Work, Hang

(* Whatever the gap, rbuf_get_block hands rx_data the slot of the block in *)
(* the header; a frame it misplaces for the width of an int is one that    *)
(* does not authenticate.                                                  *)
THEOREM BlockReturned == Spec => []BlockAskedFor
<1>1. Init => GenuineInv /\ AskedInv
  <2>1. Init => AskedInv
    BY DEF Init, AskedInv, BlockAskedFor
  <2> QED
    BY <2>1, InitType, SessionInit, StoredInit DEF GenuineInv
<1>2. GenuineInv /\ AskedInv /\ [Next]_vars => (GenuineInv /\ AskedInv)'
  BY GenuineStep, AskedStep
<1>3. AskedInv => BlockAskedFor
  BY DEF AskedInv
<1> QED
  BY <1>1, <1>2, <1>3, PTL DEF Spec

-----------------------------------------------------------------------------
(* A block is rebuilt as soon as it can be                                 *)

(* The handler's own block may be complete, or sent to its end, until the  *)
(* handler has freed it; the front block is sent to its end by a purge.    *)
FecInv ==
  /\ no_fec = FALSE
  /\ has_session_key /\ pc \notin Hung =>
       \A s \in Slots : index[s] # BLOCK_INVAL =>
         /\ \/ to_send[s] < fec_k
            \/ s = blk /\ pc \in {"seq", "recovered"}
            \/ s = front /\ s # blk /\ pc = "purge"
         /\ used[s] <= fec_k
         /\ used[s] = fec_k => s = blk /\ pc \in {"seq", "purge", "fec", "recovered"}

LEMMA FecStep ==
  ASSUME FecToggles = FALSE, GenuineInv, FecInv, [Next]_vars
  PROVE  FecInv'
<1>1. /\ used \in [Slots -> Nat] /\ to_send \in [Slots -> Nat] /\ fec_k \in Nat
      /\ index \in [Slots -> Int] /\ blk \in Slots /\ front \in Slots
  BY OnceTypes DEF GenuineInv, TypeInv, TypeOK, RingTypes
<1>2. CASE RxSession
  <2>1. no_fec' = no_fec
    BY <1>2 DEF RxSession, SessionRejected, SessionNoCoder, SessionNoRing, SessionAccepted
  <2>2. has_session_key' = FALSE \/ index' = [t \in Slots |-> BLOCK_INVAL]
    BY <1>2 DEF RxSession, SessionRejected, SessionNoCoder, SessionNoRing,
       SessionAccepted, StartRekeying, RbufAlloc
  <2> QED
    BY <2>1, <2>2 DEF FecInv
<1>3. CASE RxFrame \/ AllocDone \/ StoreDuplicate
  <2>1. /\ pc \in {"idle", "alloc", "store"}
        /\ UNCHANGED <<no_fec, has_session_key, fec_k, index, used, to_send>>
    BY <1>3 DEF RxFrame, RxFound, RxNew, RxSearchSpins, RxData, AllocDone,
       StoreDuplicate, sessionVars, ringVars, windowVars, blockVars
  <2> QED
    BY <1>1, <2>1 DEF FecInv, Hung
<1>4. CASE AllocBlock
  <2> DEFINE s == AllocSlot(front, alloc, turn)
  <2>1. s \in Slots
    BY AllocSlotType DEF GenuineInv, TypeInv, TypeOK, RingTypes, HandlerTypes
  <2> HIDE DEF s
  <2>2. /\ pc = "alloc" /\ pc' = "alloc"
        /\ UNCHANGED <<no_fec, has_session_key, fec_k>>
        /\ used'[s] = 0 /\ to_send'[s] = 0
        /\ \A t \in Slots : t # s =>
             index'[t] = index[t] /\ used'[t] = used[t] /\ to_send'[t] = to_send[t]
    BY <1>1, <1>4, <2>1 DEF AllocBlock, ResetBlock, s, sessionVars
  <2>3. has_session_key => fec_k > 0
    BY <1>1 DEF GenuineInv, SessionInv, SessionCoherent
  <2> QED
    BY <1>1, <2>1, <2>2, <2>3 DEF FecInv, Hung
<1>5. CASE AllocSpins
  <2>1. pc' \in Hung /\ no_fec' = no_fec
    BY <1>5 DEF AllocSpins, Goto, Hung
  <2> QED
    BY <2>1 DEF FecInv
<1>6. CASE StoreRefused
  BY <1>6 DEF StoreRefused, FecInv
<1>7. CASE Store
  <2>1. /\ pc = "store" /\ pc' \in {"seq", "purge"}
        /\ UNCHANGED <<no_fec, has_session_key, fec_k, index, to_send, blk>>
        /\ used'[blk] = used[blk] + 1
        /\ \A t \in Slots : t # blk => used'[t] = used[t]
    BY <1>1, <1>7 DEF Store, DataAdd, Goto, sessionVars, windowVars
  <2> QED
    BY <1>1, <2>1 DEF FecInv, Hung
<1>8. CASE SendSeq \/ SendRecovered
  <2>1. /\ pc \in {"seq", "recovered"}
        /\ UNCHANGED <<no_fec, has_session_key, fec_k, index, used, blk, pc>>
        /\ \A t \in Slots : t # blk => to_send'[t] = to_send[t]
    BY <1>1, <1>8 DEF SendSeq, SendRecovered, Advance, sessionVars, windowVars,
       handlerVars
  <2> QED
    BY <1>1, <2>1 DEF FecInv, Hung
<1>9. CASE PurgeSend \/ PurgeSkip
  <2>1. /\ pc = "purge" /\ front # blk
        /\ UNCHANGED <<no_fec, has_session_key, fec_k, index, used, blk, pc, front>>
        /\ \A t \in Slots : t # front => to_send'[t] = to_send[t]
    BY <1>1, <1>9 DEF PurgeSend, PurgeSkip, Advance, IsFront, sessionVars,
       windowVars, handlerVars
  <2> QED
    BY <1>1, <2>1 DEF FecInv, Hung
<1>10. CASE SeqComplete \/ RecoveredDone
  <2>1. /\ pc \in {"seq", "recovered"} /\ pc' \in {"freeing", "idle"}
        /\ UNCHANGED <<no_fec, has_session_key, fec_k, used, to_send>>
        /\ index'[blk] = BLOCK_INVAL
        /\ \A t \in Slots : t # blk => index'[t] = index[t]
    BY <1>1, <1>10 DEF SeqComplete, RecoveredDone, FreeBlock, Goto, Return,
       sessionVars, blockVars
  <2> QED
    BY <1>1, <2>1 DEF FecInv, Hung
<1>11. CASE PurgeFree
  <2>1. /\ pc = "purge" /\ pc' \in {"freeing", "purge"} /\ blk' = blk
        /\ UNCHANGED <<no_fec, has_session_key, fec_k, used, to_send>>
        /\ index'[front] = BLOCK_INVAL
        /\ \A t \in Slots : t # front => index'[t] = index[t]
    BY <1>1, <1>11 DEF PurgeFree, FreeBlock, Goto, sessionVars, blockVars
  <2> QED
    BY <1>1, <2>1 DEF FecInv, Hung
<1>12. CASE SeqBlocked \/ PurgeDone
  <2>1. /\ pc' = "fec" /\ blk' = blk
        /\ UNCHANGED <<no_fec, has_session_key, fec_k, index, used, to_send>>
        /\ \/ pc = "seq" /\ to_send[blk] < fec_k
           \/ pc = "purge" /\ front = blk
    BY <1>12 DEF SeqBlocked, PurgeDone, Missing, IsFront, Goto, sessionVars,
       ringVars, windowVars, blockVars
  <2> QED
    BY <1>1, <2>1 DEF FecInv, Hung
<1>13. CASE Recover
  <2>1. /\ pc = "fec" /\ pc' = "recovered" /\ blk' = blk
        /\ UNCHANGED <<no_fec, has_session_key, fec_k, index, used, to_send>>
    BY <1>13 DEF Recover, Goto, sessionVars, windowVars
  <2> QED
    BY <1>1, <2>1 DEF FecInv, Hung
<1>14. CASE WaitForMore
  <2>1. /\ pc = "fec" /\ pc' = "idle"
        /\ UNCHANGED <<no_fec, has_session_key, fec_k, index, used, to_send>>
        /\ ~(to_send[blk] < fec_k /\ used[blk] = fec_k)
    BY <1>14 DEF WaitForMore, Return, Recoverable, sessionVars, ringVars,
       windowVars, blockVars, FecInv
  <2> QED
    BY <1>1, <2>1 DEF FecInv, Hung
<1>15. CASE UNCHANGED vars \/ Spin
  <2>1. UNCHANGED <<no_fec, has_session_key, fec_k, index, used, to_send, blk,
                    front, pc>>
    BY <1>15 DEF Spin, vars, sessionVars, ringVars, windowVars, blockVars,
       handlerVars
  <2> QED
    BY <2>1 DEF FecInv
<1> QED
  BY <1>2, <1>3, <1>4, <1>5, <1>6, <1>7, <1>8, <1>9, <1>10, <1>11, <1>12,
     <1>13, <1>14, <1>15 DEF Next, Work, Hang, FecToggle

(* While no client toggles FEC off, no block of the ring waits with fec_k  *)
(* fragments between two frames, whatever is lost, duplicated or           *)
(* reordered: data_add has rebuilt, delivered and freed it.                *)
THEOREM RebuiltInTime ==
  ASSUME FecToggles = FALSE
  PROVE  Spec => []RecoveredInTime
<1>1. Init => GenuineInv /\ FecInv
  <2>1. Init => FecInv
    BY DEF Init, FecInv
  <2> QED
    BY <2>1, InitType, SessionInit, StoredInit DEF GenuineInv
<1>2. GenuineInv /\ FecInv /\ [Next]_vars => (GenuineInv /\ FecInv)'
  BY GenuineStep, FecStep
<1>3. GenuineInv /\ FecInv => RecoveredInTime
  <2> SUFFICES ASSUME GenuineInv, FecInv, pc = "idle", has_session_key,
                      NEW s \in Slots, index[s] # BLOCK_INVAL
               PROVE  used[s] < fec_k
    BY DEF RecoveredInTime
  <2>1. used[s] \in Nat /\ fec_k \in Nat
    BY DEF GenuineInv, TypeInv, TypeOK, RingTypes, SessionTypes
  <2> QED
    BY <2>1 DEF FecInv, Hung
<1> QED
  BY <1>1, <1>2, <1>3, PTL DEF Spec

-----------------------------------------------------------------------------
(* A stream of which no block is lost as a whole                           *)

(* rbuf_get_block moved the window for a frame that does not authenticate: *)
(* until the session is given up, the window may be out of order.          *)
Moved == pc \in {"alloc", "store"} /\ turn > 0 /\ wfb.key # crypto_key

WindowInOrder == has_session_key /\ ~Moved => Window(front, alloc, index)

(* The loops that allocate and free meet slots in use, or a count of one.  *)
Alive ==
  pc = "alloc" /\ turn > 0 =>
    /\ alloc \in 1 .. RingSize + turn
    /\ InRing(index) # {}
    /\ alloc = 1 \/ \E s, t \in InRing(index) : s # t

(* Nothing newer than a block of the ring was delivered.                   *)
SentInOrder ==
  has_session_key =>
    \A s \in Slots : index[s] # BLOCK_INVAL =>
      \A i \in 1 .. Len(out) : out[i].block <= index[s]

(* The block a handler works on.                                           *)
Working == {"seq", "purge", "fec", "recovered"}

AtWork ==
  /\ pc \notin Hung
  /\ pc = "idle" => turn = 0
  /\ pc = "alloc" /\ wfb.key = crypto_key => new_blocks = 1
  /\ pc \in {"alloc", "store"} /\ turn > 0 => len[blk] = {}
  /\ pc = "store" /\ turn > 0 => last_block = wfb.block
  /\ pc \in Working => index[blk] # BLOCK_INVAL
  /\ pc \in Working \ {"purge"} => blk = front

InOrderInv == WindowInOrder /\ Alive /\ SentInOrder /\ AtWork

(* The newest block was seen: it has a fragment in the ring or was sent.   *)
Seen(b) ==
  \/ \E s \in Slots : index[s] = b /\ used[s] > 0
  \/ \E i \in 1 .. Len(out) : out[i].block = b
  \/ \E w \in Withheld : w[1] = b

NewestSeen ==
  has_session_key /\ last_block \in 0 .. IntMod - 1
    /\ pc # "alloc" /\ ~(pc = "store" /\ turn > 0) => Seen(last_block)

(* The types these proofs use.                                             *)
LEMMA WindowTypes ==
  ASSUME GenuineInv
  PROVE  /\ front \in Slots /\ blk \in Slots /\ index \in [Slots -> Int]
         /\ alloc \in 0 .. SizeMod - 1 /\ turn \in Nat
         /\ new_blocks \in 0 .. RingSize
         /\ len \in [Slots -> SUBSET Frags]
BY OnceTypes DEF GenuineInv, TypeInv, TypeOK, RingTypes, HandlerTypes

(* A step that leaves the window and the stream alone.                     *)
LEMMA InOrderKept ==
  ASSUME WindowInOrder, SentInOrder, ~Moved, UNCHANGED <<front, alloc, index, out>>,
         has_session_key' => has_session_key, pc' # "alloc" \/ ~(turn' > 0)
  PROVE  WindowInOrder' /\ Alive' /\ SentInOrder'
BY DEF WindowInOrder, SentInOrder, Alive, Window, At

LEMMA InOrderInit == Init => InOrderInv
<1> SUFFICES ASSUME Init PROVE InOrderInv
  OBVIOUS
<1>1. has_session_key = FALSE /\ pc = "idle" /\ turn = 0
  BY DEF Init
<1> QED
  BY <1>1 DEF InOrderInv, WindowInOrder, Alive, SentInOrder, AtWork, Hung, Working

(* rx_session: a fresh ring is an empty window.                            *)
LEMMA InOrderRekeyed ==
  ASSUME InOrderInv, RxSession
  PROVE  InOrderInv'
<1>1. pc = "idle" /\ UNCHANGED handlerVars
  BY DEF RxSession, SessionRejected, SessionNoCoder, SessionNoRing,
     SessionAccepted, Announced
<1>2. AtWork' /\ Alive'
  BY <1>1 DEF InOrderInv, AtWork, Alive, handlerVars, Hung, Working
<1>3. \/ has_session_key' = FALSE
      \/ /\ front' = 0 /\ alloc' = 0 /\ index' = [s \in Slots |-> BLOCK_INVAL]
  BY DEF RxSession, SessionRejected, SessionNoCoder, SessionNoRing,
     SessionAccepted, StartRekeying, RbufAlloc
<1>4. CASE has_session_key' = FALSE
  BY <1>2, <1>4 DEF InOrderInv, WindowInOrder, SentInOrder
<1>5. CASE front' = 0 /\ alloc' = 0 /\ index' = [s \in Slots |-> BLOCK_INVAL]
  <2>1. \A s \in Slots : index'[s] = BLOCK_INVAL
    BY <1>5
  <2>2. 0 \in 0 .. RingSize /\ \A d \in Slots : ~(d < 0) /\ At(0, d) \in Slots
    BY SlotsType
  <2>3. Window(front', alloc', index')
    BY <1>5, <2>1, <2>2 DEF Window
  <2>4. WindowInOrder'
    BY <2>3 DEF WindowInOrder
  <2> QED
    BY <1>2, <2>1, <2>4 DEF InOrderInv, SentInOrder
<1> QED
  BY <1>3, <1>4, <1>5

(* rbuf_get_block up to the allocation.                                    *)
LEMMA InOrderFrame ==
  ASSUME MaxGap = 1, GenuineInv, InOrderInv, RxFrame
  PROVE  InOrderInv'
<1> PICK f \in Frame : RxFound(f) \/ RxNew(f) \/ RxSearchSpins(f)
  BY DEF RxFrame
<1>1. /\ pc = "idle" /\ has_session_key /\ turn = 0 /\ RxData(f) /\ f.block \in Nat
      /\ UNCHANGED <<front, alloc, index, out, has_session_key, crypto_key>>
      /\ wfb' = f
  BY DEF RxFound, RxNew, RxSearchSpins, RxData, sessionVars, ringVars, windowVars,
     Frame, InOrderInv, AtWork
<1>2. ~Moved /\ Window(front, alloc, index) /\ WindowInOrder /\ SentInOrder
  BY <1>1 DEF Moved, InOrderInv, WindowInOrder
<1>3. CASE RxFound(f)
  <2>1. pc' = "store" /\ turn' = 0
    BY <1>1, <1>3 DEF RxFound
  <2>2. AtWork'
    BY <2>1 DEF AtWork, Hung, Working
  <2> QED
    BY <1>1, <1>2, <2>1, <2>2, InOrderKept DEF InOrderInv
<1>4. CASE RxNew(f)
  <2>1. pc' = "alloc" /\ turn' = 0 /\ new_blocks' = NewBlocks(last_block, f.block)
        /\ ~OutOfWindow(f.block)
    BY <1>4 DEF RxNew
  <2>2. last_block \in Nat \cup {BLOCK_INVAL}
    BY OnceTypes DEF BLOCK_INVAL
  <2>3. last_block # BLOCK_INVAL => f.block > last_block
    BY <1>1, <2>1, <2>2 DEF OutOfWindow, BLOCK_INVAL
  <2>4. /\ new_blocks' \in 0 .. RingSize
        /\ last_block = BLOCK_INVAL => new_blocks' = 1
        /\ last_block # BLOCK_INVAL => new_blocks' <= f.block - last_block
        /\ last_block # BLOCK_INVAL /\ f.block - last_block < IntMod =>
             new_blocks' >= 1
    BY <1>1, <2>1, <2>2, <2>3, NewBlocksBounds
  <2>5. f.key = crypto_key => new_blocks' = 1
    <3>1. f.key = crypto_key /\ last_block # BLOCK_INVAL => f.block = last_block + 1
      BY <1>1, <2>2, <2>3 DEF RxData, Plausible, BLOCK_INVAL
    <3>2. 1 < IntMod /\ RingSize \in Nat /\ IntMod \in Nat
      BY RingAssumption
    <3> QED
      BY <1>1, <2>2, <2>4, <3>1, <3>2
  <2>6. AtWork'
    BY <1>1, <2>1, <2>5 DEF AtWork, Hung, Working
  <2> QED
    BY <1>1, <1>2, <2>1, <2>6, InOrderKept DEF InOrderInv
<1>5. CASE RxSearchSpins(f)
  <2>1. alloc \in 0 .. RingSize /\ RingSize < IntMod \div 2 /\ IntMod \div 2 \in Nat
    BY <1>2, RingAssumption DEF Window
  <2>2. alloc >= IntMod \div 2
    BY <1>5 DEF RxSearchSpins, SearchOverflows
  <2> QED
    BY <2>1, <2>2, SlotsType
<1> QED
  BY <1>3, <1>4, <1>5

(* The block an allocation turn numbers is newer than all there is.        *)
LEMMA AllocNewest ==
  ASSUME GenuineInv, OnceInv, pc = "alloc", turn < new_blocks
  PROVE  /\ wfb.block - new_blocks + 1 + turn \in Nat
         /\ \A s \in Slots : index[s] < wfb.block - new_blocks + 1 + turn
         /\ \A i \in 1 .. Len(out) : out[i].block <= wfb.block - new_blocks + 1 + turn
<1> DEFINE b == wfb.block - new_blocks + 1 + turn
           a == wfb.block - new_blocks + turn
<1>1. b \in 0 .. MaxBlockIdx /\ (last_block # BLOCK_INVAL => b > last_block)
  BY AllocNumbers DEF GenuineInv
<1>2. a \in Int /\ b = a + 1 /\ last_block \in Int /\ index \in [Slots -> Int]
      /\ \A i \in 1 .. Len(out) : out[i].block \in Int
  BY OnceTypes
<1>3. Newest = a \/ Newest = last_block
  BY DEF Newest
<1>4. /\ \A s \in Slots : index[s] <= Newest
      /\ \A i \in 1 .. Len(out) : out[i].block <= last_block
  BY DEF OnceInv, OneSlotEach, SentBefore, GenuineInv, SessionInv, Hung
<1> HIDE DEF a, b
<1>5. b \in Nat /\ last_block < b
  BY <1>1, <1>2 DEF BLOCK_INVAL
<1>6. Newest \in Int /\ Newest < b
  BY <1>2, <1>3, <1>5
<1>7. /\ \A s \in Slots : index[s] < b
      /\ \A i \in 1 .. Len(out) : out[i].block <= b
  BY <1>2, <1>4, <1>5, <1>6
<1> QED
  BY <1>5, <1>7 DEF b

(* The first turn of the allocation keeps the window in order and ends.    *)
LEMMA AllocInWindow ==
  ASSUME GenuineInv, OnceInv, Window(front, alloc, index), pc = "alloc",
         turn = 0, turn < new_blocks, AllocBlock \/ AllocSpins
  PROVE  AllocBlock /\ Window(front', alloc', index') /\ alloc' >= 1
<1> DEFINE s == AllocSlot(front, alloc, turn)
           w == [index EXCEPT ![s] = BLOCK_INVAL]
           b == wfb.block - new_blocks + 1 + turn
<1>1. /\ front \in Slots /\ index \in [Slots -> Int] /\ alloc \in 0 .. RingSize
      /\ b \in Nat /\ \A t \in Slots : index[t] < b
  BY WindowTypes, AllocNewest DEF Window
<1>2. s = At(front, alloc)
  BY <1>1, AllocSlotFirst
<1>3. RingSize \in Nat /\ RingSize >= 2 /\ SizeMod \in Nat /\ RingSize < SizeMod
  BY RingAssumption
<1>4. CASE alloc < RingSize
  <2>1. index[s] = BLOCK_INVAL /\ Window(front, alloc + 1, [index EXCEPT ![s] = b])
    BY <1>1, <1>2, <1>4, WindowAppend
  <2>2. AllocBlock
    BY <2>1 DEF AllocSpins
  <2>3. (alloc + 1) % SizeMod = alloc + 1
    BY <1>1, <1>3, <1>4
  <2>4. front' = front /\ alloc' = alloc + 1 /\ index' = [index EXCEPT ![s] = b]
    BY <2>1, <2>2, <2>3 DEF AllocBlock
  <2> QED
    BY <1>1, <2>1, <2>2, <2>4
<1>5. CASE alloc = RingSize
  <2>1. s = front
    BY <1>1, <1>2, <1>5, AtLast
  <2>2. /\ ~FreeSpins(front, alloc, w)
        /\ FreedAlloc(front, alloc, w) = RingSize - 1
        /\ Window(FreedFront(front, alloc, w), RingSize, [index EXCEPT ![s] = b])
    BY <1>1, <1>5, <2>1, WindowReplace
  <2>3. index[s] # BLOCK_INVAL
    BY <1>1, <1>3, <1>5, <2>1, AtLast, SlotsType DEF Window
  <2>4. AllocBlock
    BY <2>2 DEF AllocSpins
  <2>5. (RingSize - 1 + 1) % SizeMod = RingSize
    BY <1>3
  <2>6. /\ front' = FreedFront(front, alloc, w)
        /\ alloc' = RingSize
        /\ index' = [index EXCEPT ![s] = b]
    BY <2>2, <2>3, <2>4, <2>5 DEF AllocBlock
  <2> QED
    BY <1>3, <2>2, <2>4, <2>6
<1> QED
  BY <1>1, <1>3, <1>4, <1>5

(* A later turn, which only a frame of another key can have: the loops end *)
(* although the window is out of order.                                    *)
LEMMA AllocOutOfOrder ==
  ASSUME GenuineInv, Alive, pc = "alloc", turn > 0, turn < new_blocks,
         AllocBlock \/ AllocSpins
  PROVE  AllocBlock /\ Alive'
<1> DEFINE s == AllocSlot(front, alloc, turn)
           w == [index EXCEPT ![s] = BLOCK_INVAL]
           b == wfb.block - new_blocks + 1 + turn
<1>1. /\ front \in Slots /\ index \in [Slots -> Int] /\ turn \in Nat
      /\ new_blocks \in 0 .. RingSize /\ s \in Slots
  BY WindowTypes, AllocSlotType
<1>2. /\ alloc \in 1 .. RingSize + turn /\ InRing(index) # {}
      /\ alloc = 1 \/ \E t, u \in InRing(index) : t # u
  BY DEF Alive
<1>3. /\ RingSize \in Nat /\ SizeMod \in Nat /\ alloc \in Nat
      /\ alloc >= 1 /\ alloc <= RingSize + turn /\ alloc + 1 < SizeMod
  BY <1>1, <1>2, RingAssumption
<1>4. alloc \in 1 .. SizeMod - 1
  BY <1>3
<1>5. index[s] # BLOCK_INVAL =>
        /\ ~FreeSpins(front, alloc, w)
        /\ FreedAlloc(front, alloc, w) \in 0 .. alloc
        /\ InRing(index) = {s} => FreedAlloc(front, alloc, w) = 0
  <2> SUFFICES ASSUME index[s] # BLOCK_INVAL
               PROVE  /\ ~FreeSpins(front, alloc, w)
                      /\ FreedAlloc(front, alloc, w) \in 0 .. alloc
                      /\ InRing(index) = {s} => FreedAlloc(front, alloc, w) = 0
    OBVIOUS
  <2>1. s \in InRing(index)
    BY <1>1 DEF InRing
  <2> HIDE DEF s
  <2> QED
    BY <1>1, <1>2, <1>4, <2>1, DropEnds
<1>6. AllocBlock
  BY <1>5 DEF AllocSpins
<1> DEFINE r == IF index[s] # BLOCK_INVAL THEN FreedAlloc(front, alloc, w) ELSE alloc
<1>7. /\ alloc' = (r + 1) % SizeMod /\ index' = [index EXCEPT ![s] = b]
      /\ turn' = turn + 1
  BY <1>6 DEF AllocBlock
<1>8. b \in 0 .. MaxBlockIdx
  BY AllocNumbers DEF GenuineInv
<1>9. b # BLOCK_INVAL
  BY <1>8 DEF BLOCK_INVAL
<1> HIDE DEF s, w, b
<1>10. r \in 0 .. alloc /\ (InRing(index) = {s} => r = 0)
  <2>1. CASE index[s] # BLOCK_INVAL
    BY <1>5, <2>1
  <2>2. CASE index[s] = BLOCK_INVAL
    <3>1. InRing(index) # {s}
      BY <2>2 DEF InRing
    <3> QED
      BY <1>3, <2>2, <3>1
  <2> QED
    BY <2>1, <2>2
<1> HIDE DEF r
<1>11. alloc' = r + 1 /\ alloc' \in 1 .. RingSize + turn'
  <2>1. r \in Nat /\ r + 1 < SizeMod /\ r + 1 <= RingSize + (turn + 1)
    BY <1>1, <1>3, <1>10
  <2>2. (r + 1) % SizeMod = r + 1
    BY <1>3, <2>1
  <2> QED
    BY <1>1, <1>3, <1>7, <2>1, <2>2
<1>12. InRing(index') = InRing(index) \cup {s}
  BY <1>1, <1>7, <1>9 DEF InRing
<1>13. alloc' = 1 \/ \E t, u \in InRing(index') : t # u
  <2>1. CASE InRing(index) = {s}
    BY <1>10, <1>11, <2>1
  <2>2. CASE InRing(index) # {s}
    <3>1. PICK t \in InRing(index) : t # s
      BY <1>2, <2>2
    <3> QED
      BY <1>12, <3>1
  <2> QED
    BY <2>1, <2>2
<1> QED
  BY <1>6, <1>11, <1>12, <1>13 DEF Alive

(* rbuf_get_block, the allocation.                                         *)
LEMMA InOrderAlloc ==
  ASSUME GenuineInv, OnceInv, InOrderInv, AllocBlock \/ AllocSpins
  PROVE  InOrderInv'
<1>1. /\ pc = "alloc" /\ turn < new_blocks /\ turn \in Nat
      /\ new_blocks \in Nat /\ has_session_key
      /\ WindowInOrder /\ Alive /\ SentInOrder /\ AtWork
  BY WindowTypes, SlotsType
  DEF AllocBlock, AllocSpins, InOrderInv, GenuineInv, SessionInv, Hung
<1>2. turn = 0 => /\ AllocBlock /\ Window(front', alloc', index') /\ alloc' >= 1
  <2>1. turn = 0 => Window(front, alloc, index)
    BY <1>1 DEF WindowInOrder, Moved
  <2> QED
    BY <1>1, <2>1, AllocInWindow
<1>3. turn > 0 => AllocBlock /\ Alive' /\ wfb.key # crypto_key
  <2>1. turn > 0 => wfb.key # crypto_key
    BY <1>1 DEF AtWork
  <2> QED
    BY <1>1, <2>1, AllocOutOfOrder
<1> DEFINE s == AllocSlot(front, alloc, turn)
           b == wfb.block - new_blocks + 1 + turn
<1>4. s \in Slots /\ index \in [Slots -> Int] /\ len \in [Slots -> SUBSET Frags]
  BY WindowTypes, AllocSlotType
<1>5. /\ index' = [index EXCEPT ![s] = b] /\ len' = [len EXCEPT ![s] = {}]
      /\ blk' = s /\ turn' = turn + 1 /\ pc' = "alloc"
      /\ UNCHANGED <<wfb, new_blocks, crypto_key, has_session_key, out>>
  <2>1. AllocBlock
    BY <1>1, <1>2, <1>3
  <2> QED
    BY <1>1, <2>1 DEF AllocBlock, ResetBlock, sessionVars
<1>6. b \in Nat /\ \A i \in 1 .. Len(out) : out[i].block <= b
  BY <1>1, AllocNewest
<1> HIDE DEF s, b
<1>7. AtWork'
  BY <1>1, <1>4, <1>5 DEF AtWork, Hung, Working
<1>8. SentInOrder'
  BY <1>1, <1>4, <1>5, <1>6 DEF SentInOrder
<1>9. CASE turn = 0
  <2>1. WindowInOrder'
    BY <1>2, <1>9 DEF WindowInOrder
  <2>2. front' \in Slots /\ index' \in [Slots -> Int] /\ turn' = 1
    <3>1. TypeInv'
      BY WorkType DEF GenuineInv, Work
    <3>2. index' \in [Slots -> Int]
      BY <1>4, <1>5, <1>6
    <3> QED
      BY <1>5, <1>9, <3>1, <3>2 DEF TypeInv, TypeOK, RingTypes
  <2>3. alloc' \in 1 .. RingSize + turn'
    BY <1>2, <1>9, <2>2, SlotsType DEF Window
  <2>4. s \in InRing(index')
    BY <1>4, <1>5, <1>6 DEF InRing, BLOCK_INVAL
  <2>5. alloc' = 1 \/ \E t, u \in InRing(index') : t # u
    <3>1. alloc' = 1 \/ alloc' >= 2
      BY <2>2, <2>3, SlotsType
    <3> QED
      BY <1>2, <1>9, <2>2, <3>1, WindowTwo
  <2>6. Alive'
    BY <2>3, <2>4, <2>5 DEF Alive
  <2> QED
    BY <1>7, <1>8, <2>1, <2>6 DEF InOrderInv
<1>10. CASE turn > 0
  <2>1. Moved'
    BY <1>1, <1>3, <1>5, <1>10 DEF Moved
  <2>2. WindowInOrder'
    BY <2>1 DEF WindowInOrder
  <2> QED
    BY <1>3, <1>7, <1>8, <1>10, <2>2 DEF InOrderInv
<1> QED
  BY <1>1, <1>9, <1>10

LEMMA InOrderAllocDone ==
  ASSUME InOrderInv, AllocDone
  PROVE  InOrderInv'
<1>1. /\ pc = "alloc" /\ pc' = "store" /\ last_block' = wfb.block
      /\ UNCHANGED <<front, alloc, index, len, out, wfb, blk, turn, crypto_key,
                     has_session_key>>
  BY DEF AllocDone, Goto, windowVars, blockVars, sessionVars
<1>2. Moved' <=> Moved
  BY <1>1 DEF Moved
<1>3. WindowInOrder' /\ SentInOrder' /\ Alive'
  BY <1>1, <1>2 DEF InOrderInv, WindowInOrder, SentInOrder, Alive, Window, At
<1>4. AtWork'
  BY <1>1 DEF InOrderInv, AtWork, Hung, Working
<1> QED
  BY <1>3, <1>4 DEF InOrderInv

(* rx_data from the block on: a window that an unauthenticated frame moved *)
(* has a fresh block, where no duplicate is found, and is given up.        *)
LEMMA InOrderStore ==
  ASSUME GenuineInv, InOrderInv, StoreDuplicate \/ StoreRefused \/ Store
  PROVE  InOrderInv'
<1>1. pc = "store" /\ turn \in Nat /\ UNCHANGED <<front, alloc, index, out>>
  BY WindowTypes DEF StoreDuplicate, StoreRefused, Store, ringVars, windowVars
<1>2. WindowInOrder /\ SentInOrder /\ AtWork
  BY DEF InOrderInv
<1>3. CASE StoreRefused
  <2>1. has_session_key' = FALSE /\ pc' = "idle" /\ turn' = 0
    BY <1>3 DEF StoreRefused, Return
  <2> QED
    BY <2>1 DEF InOrderInv, WindowInOrder, Alive, SentInOrder, AtWork, Hung, Working
<1>4. CASE StoreDuplicate
  <2>1. /\ has_session_key' = has_session_key /\ pc' = "idle" /\ turn' = 0
        /\ wfb.frag \in len[blk]
    BY <1>4 DEF StoreDuplicate, Return, Duplicate, sessionVars
  <2>2. ~Moved
    BY <1>1, <1>2, <2>1 DEF Moved, AtWork
  <2>3. AtWork'
    BY <2>1 DEF AtWork, Hung, Working
  <2> QED
    BY <1>1, <1>2, <2>1, <2>2, <2>3, InOrderKept DEF InOrderInv
<1>5. CASE Store
  <2>1. /\ wfb.key = crypto_key /\ blk' = blk
        /\ has_session_key' = has_session_key
        /\ pc' = IF blk = front THEN "seq" ELSE "purge"
    BY <1>5 DEF Store, Authentic, DataAdd, IsFront, Goto, sessionVars
  <2>2. index[blk] = wfb.block /\ wfb.block # BLOCK_INVAL
    BY <1>1, <2>1, OnceTypes DEF GenuineInv, StoredInv, BlockFound, BLOCK_INVAL
  <2>3. AtWork'
    BY <1>1, <2>1, <2>2 DEF AtWork, Hung, Working
  <2>4. ~Moved
    BY <2>1 DEF Moved
  <2> QED
    BY <1>1, <1>2, <2>1, <2>3, <2>4, InOrderKept DEF InOrderInv
<1> QED
  BY <1>3, <1>4, <1>5

(* A handler at work has a window in order, whose front it sends and frees.*)
LEMMA WorkOnFront ==
  ASSUME GenuineInv, InOrderInv, pc \in Working
  PROVE  /\ has_session_key /\ ~Moved /\ Window(front, alloc, index)
         /\ alloc >= 1 /\ index[front] # BLOCK_INVAL
         /\ \A s \in Slots : index[s] # BLOCK_INVAL => index[front] <= index[s]
<1>1. has_session_key /\ ~Moved /\ index[blk] # BLOCK_INVAL
  BY DEF GenuineInv, SessionInv, InOrderInv, AtWork, Working, Moved, Hung
<1>2. Window(front, alloc, index) /\ blk \in InRing(index)
  BY <1>1, WindowTypes DEF InOrderInv, WindowInOrder, InRing
<1>3. front \in Slots /\ index \in [Slots -> Int]
  BY WindowTypes
<1>4. alloc >= 1 /\ index[front] # BLOCK_INVAL
  BY <1>2, <1>3, WindowOldest
<1>5. ASSUME NEW s \in Slots, index[s] # BLOCK_INVAL
      PROVE  index[front] <= index[s]
  <2>1. s \in InRing(index)
    BY <1>5 DEF InRing
  <2>2. s # front => index[front] < index[s]
    BY <1>2, <1>3, <2>1, WindowOldest
  <2> QED
    BY <1>3, <2>2
<1> QED
  BY <1>1, <1>2, <1>4, <1>5

(* The turns of send_data_any, and the steps between the loops.            *)
LEMMA InOrderWork ==
  ASSUME GenuineInv, InOrderInv,
         \/ SendSeq \/ PurgeSend \/ SendRecovered \/ PurgeSkip
         \/ SeqBlocked \/ PurgeDone \/ Recover \/ WaitForMore
  PROVE  InOrderInv'
<1>1. /\ pc \in Working
      /\ UNCHANGED <<front, alloc, index, has_session_key>>
  BY DEF SendSeq, PurgeSend, SendRecovered, PurgeSkip, SeqBlocked, PurgeDone,
     Recover, WaitForMore, Working, sessionVars, ringVars, windowVars
<1>2. /\ has_session_key /\ ~Moved /\ index \in [Slots -> Int] /\ front \in Slots
      /\ \A s \in Slots : index[s] # BLOCK_INVAL => index[front] <= index[s]
  BY <1>1, WorkOnFront, WindowTypes
<1>3. WindowInOrder /\ SentInOrder /\ AtWork
  BY DEF InOrderInv
<1>4. AtWork' /\ pc' # "alloc"
  <2>1. CASE SendSeq \/ PurgeSend \/ SendRecovered \/ PurgeSkip
    <3>1. UNCHANGED <<pc, blk>>
      BY <2>1 DEF SendSeq, PurgeSend, SendRecovered, PurgeSkip, handlerVars
    <3> QED
      BY <1>1, <1>3, <3>1 DEF AtWork, Working, Hung
  <2>2. CASE SeqBlocked \/ PurgeDone \/ Recover
    <3>1. /\ pc' \in {"fec", "recovered"} /\ blk' = blk
          /\ pc = "purge" => blk = front
      BY <2>2 DEF SeqBlocked, PurgeDone, Recover, IsFront, Goto
    <3> QED
      BY <1>1, <1>3, <3>1 DEF AtWork, Working, Hung
  <2>3. CASE WaitForMore
    <3>1. pc' = "idle" /\ turn' = 0
      BY <2>3 DEF WaitForMore, Return
    <3> QED
      BY <3>1 DEF AtWork, Working, Hung
  <2> QED
    BY <2>1, <2>2, <2>3
<1>5. CASE out' = out
  BY <1>1, <1>2, <1>3, <1>4, <1>5, InOrderKept DEF InOrderInv
<1>6. CASE out' # out
  <2>1. /\ SendDataOne(front)
    BY <1>3, <1>6 DEF SendSeq, PurgeSend, SendRecovered, PurgeSkip, SeqBlocked,
       PurgeDone, Recover, WaitForMore, AtWork, Working
  <2> DEFINE x == [block |-> index[front], frag |-> to_send[front],
                   data |-> data[front][to_send[front]]]
  <2>2. out' = Append(out, x) /\ x.block = index[front]
    BY <1>6, <2>1 DEF SendDataOne
  <2> HIDE DEF x
  <2>3. \A i \in 1 .. Len(out') : out'[i] = x \/ (i \in 1 .. Len(out) /\ out'[i] = out[i])
    BY <2>2, OnceTypes
  <2>4. SentInOrder'
    BY <1>1, <1>2, <1>3, <2>2, <2>3 DEF SentInOrder
  <2>5. WindowInOrder' /\ Alive'
    BY <1>1, <1>2, <1>3, <1>4 DEF WindowInOrder, Alive, Window, At
  <2> QED
    BY <1>4, <2>4, <2>5 DEF InOrderInv
<1> QED
  BY <1>5, <1>6

(* rbuf_free_block frees the front, and comes back.                        *)
LEMMA InOrderFreed ==
  ASSUME GenuineInv, InOrderInv, SeqComplete \/ PurgeFree \/ RecoveredDone
  PROVE  InOrderInv'
<1>1. pc \in Working /\ AtWork /\ SentInOrder
  BY DEF SeqComplete, PurgeFree, RecoveredDone, Working, InOrderInv
<1>2. PICK l \in {"idle", "purge"} :
        /\ FreeBlock(front, l) /\ (l = "purge" => pc = "purge" /\ blk # front)
        /\ UNCHANGED <<has_session_key, out>>
  BY <1>1 DEF SeqComplete, PurgeFree, RecoveredDone, IsFront, AtWork, Working,
     sessionVars
<1> DEFINE w == [index EXCEPT ![front] = BLOCK_INVAL]
<1>3. /\ Window(front, alloc, index) /\ alloc >= 1
      /\ front \in Slots /\ blk \in Slots /\ index \in [Slots -> Int]
  BY <1>1, WorkOnFront, WindowTypes
<1>4. /\ ~FreeSpins(front, alloc, w)
      /\ Window(FreedFront(front, alloc, w), FreedAlloc(front, alloc, w), w)
  BY <1>3, WindowFree
<1>5. /\ index' = w /\ front' = FreedFront(front, alloc, w)
      /\ alloc' = FreedAlloc(front, alloc, w)
      /\ IF l = "idle" THEN Return ELSE Goto(l)
  BY <1>2, <1>4 DEF FreeBlock
<1>6. WindowInOrder'
  BY <1>4, <1>5 DEF WindowInOrder
<1>7. SentInOrder'
  BY <1>1, <1>2, <1>3, <1>5 DEF SentInOrder
<1>8. AtWork' /\ Alive'
  <2>1. CASE l = "idle"
    BY <1>5, <2>1 DEF Return, AtWork, Alive, Working, Hung
  <2>2. CASE l = "purge"
    <3>1. pc' = "purge" /\ blk' = blk /\ index'[blk] = index[blk]
      BY <1>2, <1>3, <1>5, <2>2 DEF Goto
    <3> QED
      BY <1>1, <3>1 DEF AtWork, Alive, Working, Hung
  <2> QED
    BY <2>1, <2>2
<1> QED
  BY <1>6, <1>7, <1>8 DEF InOrderInv

LEMMA InOrderStep ==
  ASSUME MaxGap = 1, GenuineInv, OnceInv, InOrderInv, [Next]_vars
  PROVE  InOrderInv'
<1>1. CASE UNCHANGED vars \/ FecToggle \/ Spin
  <2>1. UNCHANGED <<has_session_key, crypto_key, front, alloc, index, len,
                    last_block, out, handlerVars>>
    BY <1>1 DEF FecToggle, Spin, vars, sessionVars, ringVars, windowVars,
                blockVars
  <2> QED
    BY <2>1 DEF InOrderInv, WindowInOrder, Moved, Alive, SentInOrder, AtWork,
       handlerVars
<1> QED
  BY <1>1, InOrderRekeyed, InOrderFrame, InOrderAlloc, InOrderAllocDone,
     InOrderStore, InOrderWork, InOrderFreed DEF Next, Work, Hang

LEMMA InOrderAlways ==
  ASSUME MaxGap = 1
  PROVE  Spec => [](GenuineInv /\ OnceInv /\ InOrderInv)
<1>1. Init => GenuineInv /\ OnceInv /\ InOrderInv
  BY InitType, SessionInit, StoredInit, OnceInit, InOrderInit DEF GenuineInv
<1>2. GenuineInv /\ OnceInv /\ InOrderInv /\ [Next]_vars
        => (GenuineInv /\ OnceInv /\ InOrderInv)'
  BY GenuineStep, OnceStep, InOrderStep
<1> QED
  BY <1>1, <1>2, PTL DEF Spec

(* While no block is lost as a whole, data_add is left with no older block *)
(* when its purge is over, for every ring size and code.                   *)
THEOREM OldForgotten ==
  ASSUME MaxGap = 1
  PROVE  Spec => []OldBlocksForgotten
<1>1. GenuineInv /\ InOrderInv => OldBlocksForgotten
  <2> SUFFICES ASSUME GenuineInv, InOrderInv, pc = "fec",
                      NEW s \in Slots, index[s] # BLOCK_INVAL
               PROVE  index[s] >= index[blk]
    BY DEF OldBlocksForgotten
  <2>1. blk = front /\ index[front] <= index[s]
    BY WorkOnFront DEF InOrderInv, AtWork, Working
  <2>2. index \in [Slots -> Int] /\ blk \in Slots
    BY WindowTypes
  <2> QED
    BY <2>1, <2>2
<1> QED
  BY <1>1, InOrderAlways, PTL

(* While no block is lost as a whole, every loop of rbuf_get_block and     *)
(* rbuf_free_block comes to its end, also in a window that a damaged or    *)
(* foreign frame has put out of order: the listener never hangs in them.   *)
THEOREM LoopsEnd ==
  ASSUME MaxGap = 1
  PROVE  Spec => [](CompletedBlockFreed /\ pc # "searching")
<1>1. InOrderInv => CompletedBlockFreed /\ pc # "searching"
  BY DEF InOrderInv, AtWork, Hung, CompletedBlockFreed
<1> QED
  BY <1>1, InOrderAlways, PTL

-----------------------------------------------------------------------------
(* The refinement of Delivery                                              *)

(* A fragment is handed on behind all that were.                           *)
LEMMA SendDelivers ==
  ASSUME GenuineInv, OnceInv, InOrderInv, SendSeq \/ PurgeSend \/ SendRecovered
  PROVE  D!Deliver \/ UNCHANGED D!dvars
<1>1. pc \in Working /\ crypto_key' = crypto_key
  BY DEF SendSeq, PurgeSend, SendRecovered, Working, sessionVars
<1>2. /\ SendDataOne(front)
      /\ Present(front) \/ (pc = "recovered" /\ front = blk /\ to_send[front] < fec_k)
  BY DEF SendSeq, PurgeSend, SendRecovered, InOrderInv, AtWork, Working
<1>3. front \in Slots /\ has_session_key /\ index[front] # BLOCK_INVAL
  BY <1>1, WorkOnFront, WindowTypes
<1>4. data[front][to_send[front]] =
        [key |-> crypto_key, block |-> index[front], frag |-> to_send[front]]
  BY <1>1, <1>2, <1>3, SentGenuine DEF Working, Hung
<1>5. crypto_key \in Keys
  BY <1>3 DEF GenuineInv, SessionInv, SessionCoherent
<1>6. index[front] \in 0 .. MaxBlockIdx /\ to_send[front] \in Frags
      /\ index[front] \in Int /\ to_send[front] \in Nat
  <2>1. /\ index[front] \in 0 .. MaxBlockIdx \cup {BLOCK_INVAL}
        /\ to_send[front] \in Nat /\ fec_k \in 0 .. MaxFecN
    BY <1>3 DEF GenuineInv, TypeInv, TypeOK, RingTypes, SessionTypes
  <2>2. to_send[front] < fec_k
    BY <1>2 DEF Present
  <2> QED
    BY <1>3, <2>1, <2>2, ReceiverAssumption DEF Frags
<1> DEFINE x == [block |-> index[front], frag |-> to_send[front],
                 data |-> [key |-> crypto_key, block |-> index[front],
                           frag |-> to_send[front]]]
<1>7. out' = out \/ out' = Append(out, x)
  BY <1>2, <1>4 DEF SendDataOne
<1>8. \A i \in 1 .. Len(out) : D!Before(out[i], x)
  <2> SUFFICES ASSUME NEW i \in 1 .. Len(out) PROVE D!Before(out[i], x)
    OBVIOUS
  <2>1. out[i].block \in Int /\ out[i].block <= index[front]
    BY <1>3, OnceTypes DEF InOrderInv, SentInOrder
  <2>2. out[i].block = index[front] => out[i].frag < to_send[front]
    BY <1>3 DEF OnceInv, SentUpTo
  <2> QED
    BY <1>6, <2>1, <2>2 DEF D!Before
<1>9. CASE out' = Append(out, x)
  <2>1. D!Deliver
    BY <1>1, <1>5, <1>6, <1>8, <1>9 DEF D!Deliver
  <2> QED
    BY <2>1
<1>10. CASE out' = out
  BY <1>1, <1>10 DEF D!dvars
<1> QED
  BY <1>7, <1>9, <1>10

(* Every step of the receive path is one of Delivery, or none.             *)
LEMMA StepDelivers ==
  ASSUME GenuineInv, OnceInv, InOrderInv, [Next]_vars
  PROVE  [D!DNext]_(D!dvars)
<1>1. CASE RxSession
  <2> PICK s \in Sessions : \/ SessionRejected(s) \/ SessionNoCoder(s)
                            \/ SessionNoRing(s) \/ SessionAccepted(s)
    BY <1>1 DEF RxSession
  <2>1. CASE SessionAccepted(s)
    <3>1. s.key \in Keys
      BY ReceiverAssumption DEF SessionHeader
    <3>2. D!NewSession
      BY <2>1, <3>1 DEF SessionAccepted, D!NewSession
    <3> QED
      BY <3>2 DEF D!DNext
  <2>2. CASE SessionRejected(s) \/ SessionNoCoder(s) \/ SessionNoRing(s)
    BY <2>2 DEF SessionRejected, SessionNoCoder, SessionNoRing, D!dvars
  <2> QED
    BY <2>1, <2>2
<1>2. CASE SendSeq \/ PurgeSend \/ SendRecovered
  BY <1>2, SendDelivers DEF D!DNext
<1>3. CASE RxFrame
  BY <1>3 DEF RxFrame, RxFound, RxNew, RxSearchSpins, sessionVars, D!dvars
<1>4. CASE AllocBlock \/ AllocSpins \/ AllocDone \/ StoreDuplicate \/ StoreRefused
           \/ Store \/ SeqComplete \/ SeqBlocked
  BY <1>4 DEF AllocBlock, AllocSpins, AllocDone, StoreDuplicate, StoreRefused,
     Store, SeqComplete, SeqBlocked, sessionVars, D!dvars
<1>5. CASE PurgeSkip \/ PurgeFree \/ PurgeDone \/ Recover \/ WaitForMore
           \/ RecoveredDone
  BY <1>5 DEF PurgeSkip, PurgeFree, PurgeDone, Recover, WaitForMore,
     RecoveredDone, sessionVars, D!dvars
<1>6. CASE FecToggle \/ Spin \/ UNCHANGED vars
  BY <1>6 DEF FecToggle, Spin, vars, sessionVars, D!dvars
<1> QED
  BY <1>1, <1>2, <1>3, <1>4, <1>5, <1>6 DEF Next, Work, Hang

(* While no block is lost as a whole, the receive path implements the      *)
(* stream promised to the decoder and the log, for every ring size, code   *)
(* and number of sessions: in the transmitter's order, each fragment at    *)
(* most once, each genuine; a session starts the stream afresh.            *)
THEOREM DeliveryImplemented ==
  ASSUME MaxGap = 1
  PROVE  Spec => ImplementsDelivery
<1>1. Init => D!DInit
  BY DEF Init, D!DInit
<1>2. GenuineInv /\ OnceInv /\ InOrderInv /\ [Next]_vars => [D!DNext]_(D!dvars)
  BY StepDelivers
<1> QED
  BY <1>1, <1>2, InOrderAlways, PTL DEF Spec, ImplementsDelivery, D!DSpec

-----------------------------------------------------------------------------
(* The newest block is authentic                                           *)

SeenInv == AskedInv /\ SkipInv /\ NewestSeen

(* A step that does not forget.                                            *)
LEMMA SeenKept ==
  ASSUME NEW b, Seen(b), GenuineInv, index' = index,
         \A s \in Slots : used'[s] >= used[s] /\ used'[s] \in Nat,
         \/ out' = out
         \/ \E x : out' = Append(out, x)
  PROVE  Seen(b)'
<1>1. used \in [Slots -> Nat] /\ out \in Seq(Delivered)
  BY OnceTypes DEF GenuineInv, TypeInv, TypeOK, RingTypes
<1>2. \A i \in 1 .. Len(out) : i \in 1 .. Len(out') /\ out'[i] = out[i]
  <2>1. CASE out' = out
    BY <2>1
  <2>2. ASSUME NEW x, out' = Append(out, x)
        PROVE  \A i \in 1 .. Len(out) : i \in 1 .. Len(out') /\ out'[i] = out[i]
    <3>1. Len(out) \in Nat /\ Len(out') = Len(out) + 1
          /\ \A i \in 1 .. Len(out) : out'[i] = out[i]
      BY <1>1, <2>2
    <3> QED
      BY <3>1
  <2> QED
    BY <2>1, <2>2
<1> QED
  BY <1>1, <1>2 DEF Seen

(* rbuf_free_block takes the newest block only when its data was sent: a   *)
(* purge ends at the handler's own block, which is newer than the front.   *)
LEMMA SeenFreed ==
  ASSUME GenuineInv, OnceInv, InOrderInv, SkipInv,
         SeqComplete \/ PurgeFree \/ RecoveredDone, Seen(last_block)
  PROVE  Seen(last_block)' /\ last_block' = last_block
<1>1. /\ pc \in Working /\ UNCHANGED <<used, out, last_block>>
      /\ index' = [index EXCEPT ![front] = BLOCK_INVAL]
  <2>1. pc \in Working
    BY DEF SeqComplete, PurgeFree, RecoveredDone, Working
  <2>2. pc # "purge" => blk = front
    BY <2>1 DEF InOrderInv, AtWork
  <2> QED
    BY <2>1, <2>2 DEF SeqComplete, PurgeFree, RecoveredDone, FreeBlock, blockVars
<1>2. /\ index \in [Slots -> Int] /\ front \in Slots /\ blk \in Slots
      /\ to_send[front] \in Nat /\ fec_k \in Nat /\ last_block \in Int
  BY OnceTypes
<1>3. /\ has_session_key /\ index[front] # BLOCK_INVAL
      /\ Window(front, alloc, index)
  BY <1>1, WorkOnFront
<1>4. CASE index[front] # last_block
  BY <1>1, <1>2, <1>4 DEF Seen
<1>5. CASE index[front] = last_block
  <2>1. blk = front
    <3> SUFFICES ASSUME blk # front PROVE FALSE
      OBVIOUS
    <3>1. blk \in InRing(index)
      BY <1>1, <1>2 DEF InOrderInv, AtWork, InRing
    <3>2. index[front] < index[blk]
      BY <1>2, <1>3, <3>1, WindowOldest
    <3>3. index[blk] <= last_block
      BY <1>1, <1>2 DEF OnceInv, OneSlotEach, Newest, Working, Hung
    <3> QED
      BY <1>2, <1>5, <3>2, <3>3
  <2>2. PassedOn(front)
    BY <1>2, <1>3, <2>1 DEF SkipInv
  <2>3. 0 < to_send[front] /\ 0 \in Frags
    <3>1. fec_k >= 1
      BY <1>2, <1>3 DEF GenuineInv, SessionInv, SessionCoherent
    <3>2. to_send[front] >= fec_k
      BY <2>1 DEF SeqComplete, PurgeFree, RecoveredDone
    <3> QED
      BY <1>2, <3>1, <3>2, ReceiverAssumption DEF Frags
  <2>4. \/ <<index[front], 0>> \in Withheld
        \/ \E i \in 1 .. Len(out) : out[i].block = index[front] /\ out[i].frag = 0
    BY <2>2, <2>3 DEF PassedOn
  <2>5. <<index[front], 0>>[1] = index[front]
    OBVIOUS
  <2> QED
    BY <1>1, <1>5, <2>4, <2>5 DEF Seen
<1> QED
  BY <1>1, <1>4, <1>5

(* rx_data from the block on: the newest block gets its first fragment.    *)
LEMMA SeenStore ==
  ASSUME GenuineInv, InOrderInv, NewestSeen, StoreDuplicate \/ StoreRefused \/ Store
  PROVE  NewestSeen'
<1>1. pc = "store" /\ UNCHANGED <<index, last_block, out>> /\ turn \in Nat
  BY WindowTypes
  DEF StoreDuplicate, StoreRefused, Store, ringVars, windowVars
<1>2. used \in [Slots -> Nat] /\ blk \in Slots
  BY OnceTypes DEF GenuineInv, TypeInv, TypeOK, RingTypes
<1>3. CASE StoreRefused
  BY <1>3 DEF StoreRefused, NewestSeen
<1>4. CASE StoreDuplicate
  <2>1. UNCHANGED <<used, has_session_key>> /\ wfb.frag \in len[blk]
    BY <1>4 DEF StoreDuplicate, Duplicate, sessionVars, ringVars, blockVars
  <2>2. ~(turn > 0)
    BY <1>1, <2>1 DEF InOrderInv, AtWork
  <2> QED
    BY <1>1, <2>1, <2>2 DEF NewestSeen, Seen
<1>5. CASE Store
  <2>1. /\ wfb.key = crypto_key /\ has_session_key' = has_session_key
        /\ used' = [used EXCEPT ![blk] = @ + 1]
    BY <1>5 DEF Store, Authentic, sessionVars
  <2>2. \A s \in Slots : used'[s] >= used[s] /\ used'[s] \in Nat
    BY <1>2, <2>1
  <2>3. CASE turn > 0
    <3>1. index[blk] = last_block
      BY <1>1, <2>1, <2>3
      DEF InOrderInv, AtWork, GenuineInv, StoredInv, BlockFound
    <3>2. used'[blk] > 0
      BY <1>2, <2>1
    <3> QED
      BY <1>1, <1>2, <3>1, <3>2 DEF NewestSeen, Seen
  <2>4. CASE ~(turn > 0)
    <3>1. has_session_key /\ last_block \in 0 .. IntMod - 1 => Seen(last_block)
      BY <1>1, <2>4 DEF NewestSeen
    <3>2. Seen(last_block) => Seen(last_block)'
      BY <1>1, <2>2, <1>2 DEF Seen
    <3> QED
      BY <1>1, <2>1, <3>1, <3>2 DEF NewestSeen
  <2> QED
    BY <2>3, <2>4
<1> QED
  BY <1>3, <1>4, <1>5

LEMMA SeenStep ==
  ASSUME MaxGap = 1, GenuineInv, OnceInv, InOrderInv, SeenInv, [Next]_vars
  PROVE  NewestSeen'
<1>1. /\ AskedInv /\ SkipInv /\ NewestSeen /\ pc' \notin Hung
      /\ used \in [Slots -> Nat]
  <2>1. InOrderInv'
    BY InOrderStep
  <2> QED
    BY <2>1 DEF SeenInv, InOrderInv, AtWork, GenuineInv, TypeInv, TypeOK, RingTypes
<1>2. CASE RxSession
  <2>1. has_session_key' = FALSE \/ last_block' = BLOCK_INVAL
    BY <1>2 DEF RxSession, SessionRejected, SessionNoCoder, SessionNoRing,
       SessionAccepted, StartRekeying, RbufAlloc
  <2>2. BLOCK_INVAL \notin 0 .. IntMod - 1
    BY RingAssumption DEF BLOCK_INVAL
  <2> QED
    BY <2>1, <2>2 DEF NewestSeen
<1>3. CASE RxFrame \/ FecToggle \/ Spin \/ UNCHANGED vars
  <2>1. /\ UNCHANGED <<index, used, out, last_block, has_session_key>>
        /\ pc = "idle" \/ UNCHANGED <<pc, turn>>
    BY <1>3 DEF RxFrame, RxFound, RxNew, RxSearchSpins, RxData, FecToggle, Spin,
       vars, sessionVars, ringVars, windowVars, blockVars, handlerVars
  <2> QED
    BY <1>1, <2>1 DEF NewestSeen, Seen
<1>4. CASE AllocBlock \/ AllocSpins
  <2>1. pc' = "alloc"
    BY <1>1, <1>4 DEF AllocBlock, AllocSpins, Goto, Hung
  <2> QED
    BY <2>1 DEF NewestSeen
<1>5. CASE AllocDone
  <2>1. /\ pc = "alloc" /\ pc' = "store" /\ turn' = turn /\ last_block' = wfb.block
        /\ turn >= new_blocks
    BY <1>5 DEF AllocDone, Goto
  <2>2. turn > 0 \/ wfb.block >= IntMod
    BY <1>1, <2>1, OnceTypes DEF AskedInv, Aliased
  <2>3. wfb.block >= IntMod => wfb.block \notin 0 .. IntMod - 1
    BY OnceTypes, RingAssumption
  <2> QED
    BY <2>1, <2>2, <2>3 DEF NewestSeen
<1>6. CASE SendSeq \/ PurgeSend \/ SendRecovered \/ PurgeSkip \/ SeqBlocked
           \/ PurgeDone \/ Recover \/ WaitForMore
  <2>1. /\ pc \in Working /\ UNCHANGED <<index, used, last_block, has_session_key>>
        /\ out' = out \/ \E x : out' = Append(out, x)
    BY <1>6 DEF SendSeq, PurgeSend, SendRecovered, PurgeSkip, SeqBlocked,
       PurgeDone, Recover, WaitForMore, SendDataOne, Working, sessionVars,
       ringVars, windowVars, blockVars
  <2>2. \A s \in Slots : used'[s] >= used[s] /\ used'[s] \in Nat
    BY <1>1, <2>1
  <2>3. Seen(last_block) => Seen(last_block)'
    BY <2>1, <2>2, SeenKept
  <2> QED
    BY <1>1, <2>1, <2>3 DEF NewestSeen, Working
<1>7. CASE SeqComplete \/ PurgeFree \/ RecoveredDone
  <2>1. pc \in Working /\ UNCHANGED <<last_block, has_session_key>>
    BY <1>7 DEF SeqComplete, PurgeFree, RecoveredDone, Working, sessionVars
  <2>2. Seen(last_block) => Seen(last_block)'
    BY <1>1, <1>7, SeenFreed
  <2> QED
    BY <1>1, <2>1, <2>2 DEF NewestSeen, Working
<1> QED
  BY <1>1, <1>2, <1>3, <1>4, <1>5, <1>6, <1>7, SeenStore DEF Next, Work, Hang

(* While no block is lost as a whole and blocks are numbered below 2^32,   *)
(* the newest block of the window has an authentic fragment whenever       *)
(* rx_data looks at the window: a header that was not authenticated may    *)
(* move the window, but then the session is given up.                      *)
THEOREM NewestAuthentic ==
  ASSUME MaxGap = 1
  PROVE  Spec => []WindowAuthentic
<1>1. Init => SeenInv
  BY DEF Init, SeenInv, AskedInv, BlockAskedFor, SkipInv, NewestSeen
<1>2. GenuineInv /\ OnceInv /\ InOrderInv /\ SeenInv /\ [Next]_vars => SeenInv'
  BY AskedStep, SkipStep, SeenStep DEF SeenInv
<1>3. SeenInv => WindowAuthentic
  BY DEF SeenInv, NewestSeen, Seen, WindowAuthentic
<1> QED
  BY <1>1, <1>2, <1>3, InOrderAlways, PTL DEF Spec
=============================================================================
