--------------------------- MODULE ReceiverProofs ---------------------------
(***************************************************************************)
(* Proofs about the receive path, for every ring size and integer width,   *)
(* code, number of sessions, block range and gap between blocks: what the  *)
(* operators of RingBuffer return, the types, that the session in use is   *)
(* coherent, and that what is delivered is genuine, whatever frames        *)
(* arrive, in whatever order, whether or not FEC is toggled on the way.    *)
(* At the end, that the loops of util_rbuf.c compute what RingBuffer says. *)
(***************************************************************************)
EXTENDS ReceiverProps, RingLoops, WellFoundedInduction, FiniteSetTheorems, TLAPS

-----------------------------------------------------------------------------
(* The window: fst, cnt and idx stand for any ring_front, ring_alloc and   *)
(* indexes of the slots.                                                   *)

(* The least element of a set of naturals exists and is what Min chooses.  *)
LEMMA MinNat ==
  ASSUME NEW S, S \subseteq Nat, S # {}
  PROVE  Min(S) \in S /\ \A y \in S : Min(S) <= y
<1> DEFINE R == OpToRel(<, Nat)
<1>1. IsWellFoundedOn(R, Nat)
  BY NatLessThanWellFounded
<1>2. \A x, y \in Nat : <<x, y>> \in R <=> x < y
  BY DEF R, OpToRel
<1> HIDE DEF R
<1>3. PICK x \in S : \A y \in S : ~ (<<y, x>> \in R)
  BY <1>1, WFMin
<1>4. \A y \in S : ~ (y < x)
  BY <1>2, <1>3
<1>5. \A y \in S : x <= y
  BY <1>4
<1> QED
  BY <1>5 DEF Min

(* Slots of the ring: the code's index arithmetic stays inside blocks[].   *)
LEMMA AtType ==
  ASSUME NEW fst \in Slots, NEW d \in Int
  PROVE  At(fst, d) \in Slots
BY RingAssumption DEF At, Slots

LEMMA AllocSlotType ==
  ASSUME NEW fst \in Slots, NEW cnt \in 0 .. SizeMod - 1, NEW i \in Nat
  PROVE  AllocSlot(fst, cnt, i) \in Slots
<1>1. (fst + cnt + i) % SizeMod \in Int
  BY RingAssumption DEF Slots
<1> QED
  BY <1>1, RingAssumption DEF AllocSlot, Slots

(* The search of rbuf_get_block returns a slot that holds the block.       *)
LEMMA FirstHitType ==
  ASSUME NEW fst \in Slots, NEW cnt, NEW idx, NEW b,
         Hits(fst, cnt, idx, b) # {}
  PROVE  /\ FirstHit(fst, cnt, idx, b) \in Slots
         /\ idx[FirstHit(fst, cnt, idx, b)] = b
<1> DEFINE H == Hits(fst, cnt, idx, b)
<1>1. H \subseteq Nat
  BY RingAssumption DEF Hits, Slots
<1>2. Min(H) \in H
  BY <1>1, MinNat
<1>3. Min(H) \in Slots /\ idx[At(fst, Min(H))] = b
  BY <1>2 DEF Hits
<1>4. Min(H) \in Int
  BY <1>3, RingAssumption DEF Slots
<1> QED
  BY <1>3, <1>4, AtType DEF FirstHit

(* rbuf_free_block leaves ring_front a slot and ring_alloc a size_t.       *)
LEMMA FreedType ==
  ASSUME NEW fst \in Slots, NEW cnt \in 0 .. SizeMod - 1, NEW idx
  PROVE  /\ FreedFront(fst, cnt, idx) \in Slots
         /\ FreedAlloc(fst, cnt, idx) \in 0 .. SizeMod - 1
<1> DEFINE U == InUse(fst, idx)
<1>1. U \subseteq Nat
  BY RingAssumption DEF InUse, Slots
<1>2. U # {} => Min(U) \in Nat
  BY <1>1, MinNat
<1>3. Turns(cnt) \in Nat
  BY RingAssumption DEF Turns
<1>4. FreedFront(fst, cnt, idx) \in Slots
  BY <1>2, <1>3, AtType DEF FreedFront, FrontMeets
<1>5. FreedAlloc(fst, cnt, idx) \in 0 .. SizeMod - 1
  BY <1>2, <1>3, RingAssumption DEF FreedAlloc, FrontMeets
<1> QED
  BY <1>4, <1>5

(* rbuf_get_block never allocates more blocks than the ring has, nor more  *)
(* than lie between the last block and the new one; it allocates at least  *)
(* one unless the difference is a multiple of 2^32.                        *)
LEMMA NewBlocksBounds ==
  ASSUME NEW last \in Nat \cup {BLOCK_INVAL}, NEW b \in Nat,
         last # BLOCK_INVAL => b > last
  PROVE  /\ NewBlocks(last, b) \in 0 .. RingSize
         /\ last = BLOCK_INVAL => NewBlocks(last, b) = 1
         /\ last # BLOCK_INVAL => NewBlocks(last, b) <= b - last
         /\ last # BLOCK_INVAL /\ b - last < IntMod => NewBlocks(last, b) >= 1
<1>1. CASE last = BLOCK_INVAL
  BY <1>1, RingAssumption DEF NewBlocks
<1>2. CASE last # BLOCK_INVAL
  <2> DEFINE x == b - last
             m == x % IntMod
  <2>1. x \in Nat /\ x >= 1
    BY <1>2 DEF BLOCK_INVAL
  <2>2. IntMod \in Nat /\ IntMod > 0 /\ RingSize \in Nat /\ RingSize >= 1
    BY RingAssumption
  <2>3. m \in 0 .. IntMod - 1 /\ m <= x /\ (x < IntMod => m = x)
    BY <2>1, <2>2
  <2>4. IntMod \div 2 \in Nat /\ IntMod \div 2 >= RingSize
    BY RingAssumption
  <2>5. NewBlocks(last, b) =
          IF m < IntMod \div 2 /\ m <= RingSize THEN m ELSE RingSize
    BY <1>2 DEF NewBlocks
  <2> HIDE DEF m, x
  <2>6. /\ NewBlocks(last, b) \in 0 .. RingSize
        /\ NewBlocks(last, b) <= x
        /\ x < IntMod => NewBlocks(last, b) >= 1
    BY <2>1, <2>2, <2>3, <2>4, <2>5
  <2> QED
    BY <2>6, <1>2 DEF x
<1> QED
  BY <1>1, <1>2

-----------------------------------------------------------------------------
(* A window in order: alloc slots in use from the front on, as the loops   *)
(* of util_rbuf.c keep it while no block is lost as a whole.               *)

(* One lap of the ring.                                                    *)
LEMMA ModLap ==
  ASSUME NEW n \in Nat \ {0}, NEW x \in 0 .. n - 1
  PROVE  x % n = x /\ (x + n) % n = x
OBVIOUS

LEMMA AtValue ==
  ASSUME NEW fst \in Slots, NEW d \in Slots
  PROVE  At(fst, d) = IF fst + d < RingSize THEN fst + d
                        ELSE fst + d - RingSize
<1>1. RingSize \in Nat \ {0} /\ fst \in Nat /\ d \in Nat
      /\ fst < RingSize /\ d < RingSize
  BY RingAssumption DEF Slots
<1>2. CASE fst + d < RingSize
  <2>1. fst + d \in 0 .. RingSize - 1
    BY <1>1, <1>2
  <2> QED
    BY <1>1, <1>2, <2>1, ModLap DEF At
<1>3. CASE ~(fst + d < RingSize)
  <2> DEFINE x == fst + d - RingSize
  <2>1. x \in 0 .. RingSize - 1 /\ fst + d = x + RingSize
    BY <1>1, <1>3
  <2> HIDE DEF x
  <2>2. (x + RingSize) % RingSize = x
    BY <1>1, <2>1, ModLap
  <2> QED
    BY <1>3, <2>1, <2>2 DEF At, x
<1> QED
  BY <1>2, <1>3

(* Every slot is one turn from the front, and only one.                    *)
LEMMA AtBijective ==
  ASSUME NEW fst \in Slots
  PROVE  /\ \A s \in Slots : \E d \in Slots : At(fst, d) = s
         /\ \A d, e \in Slots : At(fst, d) = At(fst, e) => d = e
<1>1. RingSize \in Nat \ {0} /\ fst \in Nat /\ fst < RingSize
      /\ \A d \in Slots : d \in Nat /\ d < RingSize
  BY RingAssumption DEF Slots
<1>2. ASSUME NEW s \in Slots PROVE \E d \in Slots : At(fst, d) = s
  <2> DEFINE d == IF s >= fst THEN s - fst ELSE s - fst + RingSize
  <2>1. d \in Slots
    BY <1>1 DEF Slots
  <2>2. At(fst, d) = s
    BY <1>1, <2>1, AtValue
  <2> QED
    BY <2>1, <2>2
<1>3. ASSUME NEW d \in Slots, NEW e \in Slots, At(fst, d) = At(fst, e)
      PROVE  d = e
  BY <1>1, <1>3, AtValue
<1> QED
  BY <1>2, <1>3

(* A front that moved on by one slot.                                      *)
LEMMA AtNext ==
  ASSUME NEW fst \in Slots, NEW d \in Slots, d + 1 \in Slots
  PROVE  At(At(fst, 1), d) = At(fst, d + 1)
<1>1. /\ RingSize \in Nat /\ fst \in Nat /\ fst < RingSize
      /\ d \in Nat /\ d + 1 < RingSize
  BY RingAssumption DEF Slots
<1>2. 1 \in Slots
  BY <1>1 DEF Slots
<1>3. /\ At(fst, 1) \in Slots
      /\ At(fst, 1) = IF fst + 1 < RingSize THEN fst + 1
                        ELSE fst + 1 - RingSize
  BY <1>1, <1>2, AtType, AtValue
<1> QED
  BY <1>1, <1>3, AtValue

LEMMA SlotsType ==
  /\ RingSize \in Nat /\ RingSize >= 2 /\ 0 \in Slots /\ 1 \in Slots
  /\ \A d \in Slots : d \in Nat /\ d < RingSize
  /\ \A d \in Nat : d < RingSize => d \in Slots
  /\ \A fst, d \in Slots : At(fst, d) \in Slots
<1>1. /\ RingSize \in Nat /\ RingSize >= 2 /\ 0 \in Slots /\ 1 \in Slots
      /\ \A d \in Slots : d \in Nat /\ d < RingSize
      /\ \A d \in Nat : d < RingSize => d \in Slots
  BY RingAssumption DEF Slots
<1>2. ASSUME NEW fst \in Slots, NEW d \in Slots PROVE At(fst, d) \in Slots
  <2>1. d \in Int
    BY <1>1
  <2> QED
    BY <2>1, AtType
<1> QED
  BY <1>1, <1>2

(* A lap later the front comes last.                                       *)
LEMMA AtLast ==
  ASSUME NEW fst \in Slots
  PROVE  /\ At(fst, 0) = fst /\ At(fst, RingSize) = fst
         /\ At(At(fst, 1), RingSize - 1) = fst
<1>1. /\ RingSize \in Nat \ {0} /\ RingSize >= 2
      /\ fst \in 0 .. RingSize - 1
      /\ 0 \in Slots /\ 1 \in Slots /\ RingSize - 1 \in Slots
  BY RingAssumption DEF Slots
<1>2. At(fst, 0) = fst
  BY <1>1, AtValue
<1>3. At(fst, RingSize) = fst
  BY <1>1, ModLap DEF At
<1>4. At(fst, 1) \in Slots
  BY AtType
<1>5. At(At(fst, 1), RingSize - 1) = fst
  BY <1>1, <1>4, AtValue
<1> QED
  BY <1>2, <1>3, <1>5

InRing(idx) == {s \in Slots : idx[s] # BLOCK_INVAL}

Window(fst, cnt, idx) ==
  /\ cnt \in 0 .. RingSize
  /\ \A d \in Slots : d < cnt <=> idx[At(fst, d)] # BLOCK_INVAL
  /\ \A d, e \in Slots :
       d < e /\ e < cnt => idx[At(fst, d)] < idx[At(fst, e)]

(* The front of a window holds its oldest block.                           *)
LEMMA WindowOldest ==
  ASSUME NEW fst \in Slots, NEW cnt, NEW idx \in [Slots -> Int],
         Window(fst, cnt, idx), NEW s \in InRing(idx)
  PROVE  /\ cnt >= 1 /\ idx[fst] # BLOCK_INVAL
         /\ s # fst => idx[fst] < idx[s]
<1>1. cnt \in Nat /\ 0 \in Slots /\ At(fst, 0) = fst
      /\ \A d \in Slots : d \in Nat
  BY AtLast, RingAssumption DEF Window, Slots
<1>2. PICK d \in Slots : At(fst, d) = s
  BY AtBijective DEF InRing
<1>3. d < cnt
  BY <1>2 DEF Window, InRing
<1>4. cnt >= 1 /\ idx[fst] # BLOCK_INVAL
  BY <1>1, <1>3 DEF Window
<1>5. s # fst => 0 < d
  BY <1>1, <1>2
<1> QED
  BY <1>1, <1>2, <1>3, <1>4, <1>5 DEF Window

(* rbuf_free_block of the front slot: the window loses its oldest block,   *)
(* and the loop ends.                                                      *)
LEMMA WindowFree ==
  ASSUME NEW fst \in Slots, NEW cnt, NEW idx \in [Slots -> Int],
         Window(fst, cnt, idx), cnt >= 1, NEW w,
         w = [idx EXCEPT ![fst] = BLOCK_INVAL]
  PROVE  /\ ~FreeSpins(fst, cnt, w)
         /\ FreedAlloc(fst, cnt, w) = cnt - 1
         /\ FreedFront(fst, cnt, w) = IF cnt = 1 THEN fst ELSE At(fst, 1)
         /\ Window(FreedFront(fst, cnt, w), FreedAlloc(fst, cnt, w), w)
<1> DEFINE U == InUse(fst, w)
<1>1. /\ cnt \in Nat /\ cnt <= RingSize
      /\ IntMod \div 2 \in Nat /\ IntMod \div 2 > 1 /\ SizeMod \in Nat /\ SizeMod > RingSize
  BY RingAssumption DEF Window, Slots
<1>2. /\ At(fst, 0) = fst /\ At(fst, 1) \in Slots
      /\ At(At(fst, 1), RingSize - 1) = fst
  BY AtLast, AtType
<1>3. /\ w[fst] = BLOCK_INVAL
      /\ \A d \in Slots : At(fst, d) \in Slots
      /\ \A d \in Slots : d # 0 => w[At(fst, d)] = idx[At(fst, d)]
  <2>1. \A d \in Slots : d # 0 => At(fst, d) # fst
    BY <1>2, SlotsType, AtBijective
  <2> QED
    BY <2>1, SlotsType
<1>4. /\ \A d \in Slots : d \in U <=> 0 < d /\ d < cnt
      /\ U \subseteq Slots
  BY SlotsType, <1>1, <1>2, <1>3 DEF Window, InUse
<1> HIDE DEF U
<1>5. Turns(cnt) = cnt
  BY SlotsType, <1>1 DEF Turns
<1>6. CASE cnt = 1
  <2>1. U = {}
    BY SlotsType, <1>1, <1>4, <1>6
  <2>2. ~FrontMeets(fst, cnt, w)
    BY <2>1 DEF FrontMeets, U
  <2>3. /\ ~FreeSpins(fst, cnt, w)
        /\ FreedAlloc(fst, cnt, w) = 0
        /\ FreedFront(fst, cnt, w) = fst
    <3>1. Turns(cnt) = 1 /\ Turns(cnt) - 1 = 0
      BY <1>5, <1>6
    <3>2. ~SearchOverflows(Turns(cnt))
      BY <1>1, <3>1 DEF SearchOverflows
    <3> QED
      BY <1>2, <2>2, <3>1, <3>2 DEF FreeSpins, FreedAlloc, FreedFront
  <2>4. \A d \in Slots : w[At(fst, d)] = BLOCK_INVAL
    BY SlotsType, <1>1, <1>2, <1>3, <1>6 DEF Window
  <2>5. Window(fst, 0, w)
    BY SlotsType, <1>1, <2>4 DEF Window
  <2> QED
    BY SlotsType, <1>1, <1>6, <2>3, <2>5
<1>7. CASE cnt > 1
  <2>1. U # {} /\ U \subseteq Nat /\ 1 \in U
    BY SlotsType, <1>1, <1>4, <1>7
  <2>2. Min(U) = 1
    <3>1. Min(U) \in U /\ Min(U) <= 1
      BY <2>1, MinNat
    <3>2. Min(U) \in Slots /\ 0 < Min(U)
      BY <1>4, <3>1
    <3>3. Min(U) \in Nat
      BY <3>2, SlotsType
    <3> QED
      BY <3>1, <3>2, <3>3
  <2>3. FrontMeets(fst, cnt, w)
    BY <1>5, <1>7, <2>1, <2>2 DEF FrontMeets, U
  <2>4. (cnt - 1) % SizeMod = cnt - 1
    BY SlotsType, <1>1, <1>7
  <2>5. /\ ~FreeSpins(fst, cnt, w)
        /\ FreedAlloc(fst, cnt, w) = cnt - 1
        /\ FreedFront(fst, cnt, w) = At(fst, 1)
    BY <1>5, <2>2, <2>3, <2>4 DEF FreeSpins, FreedAlloc, FreedFront, U
  <2>6. \A d \in Slots :
          /\ d + 1 \in Slots =>
               w[At(At(fst, 1), d)] = idx[At(fst, d + 1)]
          /\ d + 1 \notin Slots => w[At(At(fst, 1), d)] = BLOCK_INVAL
    <3> SUFFICES ASSUME NEW d \in Slots
                 PROVE  /\ d + 1 \in Slots =>
                             w[At(At(fst, 1), d)] = idx[At(fst, d + 1)]
                        /\ d + 1 \notin Slots => w[At(At(fst, 1), d)] = BLOCK_INVAL
      OBVIOUS
    <3>1. CASE d + 1 \in Slots
      BY SlotsType, <1>1, <1>3, <3>1, AtNext
    <3>2. CASE d + 1 \notin Slots
      <4>1. d = RingSize - 1
        BY SlotsType, <1>1, <3>2
      <4> QED
        BY <1>2, <1>3, <3>2, <4>1
    <3> QED
      BY <3>1, <3>2
  <2>7. \A d \in Slots :
          d < cnt - 1 <=> w[At(At(fst, 1), d)] # BLOCK_INVAL
    BY SlotsType, <1>1, <1>7, <2>6 DEF Window
  <2>8. \A d, e \in Slots :
          d < e /\ e < cnt - 1 =>
            w[At(At(fst, 1), d)] < w[At(At(fst, 1), e)]
    BY SlotsType, <1>1, <1>7, <2>6 DEF Window
  <2>9. Window(At(fst, 1), cnt - 1, w)
    BY SlotsType, <1>1, <1>7, <2>7, <2>8 DEF Window
  <2> QED
    BY <1>7, <2>5, <2>9
<1> QED
  BY SlotsType, <1>1, <1>6, <1>7

(* The slot the allocation loop takes first.                               *)
LEMMA AllocSlotFirst ==
  ASSUME NEW fst \in Slots, NEW cnt \in 0 .. RingSize
  PROVE  AllocSlot(fst, cnt, 0) = At(fst, cnt)
<1>1. fst + cnt \in 0 .. SizeMod - 1 /\ SizeMod \in Nat \ {0}
      /\ fst + cnt + 0 = fst + cnt
  BY RingAssumption DEF Slots
<1>2. (fst + cnt) % SizeMod = fst + cnt
  BY <1>1, ModLap
<1> QED
  BY <1>1, <1>2 DEF AllocSlot, At

(* rbuf_get_block with room left: the newest block goes behind the others. *)
LEMMA WindowAppend ==
  ASSUME NEW fst \in Slots, NEW cnt, NEW idx \in [Slots -> Int],
         Window(fst, cnt, idx), cnt < RingSize,
         NEW b \in Nat, \A s \in Slots : idx[s] < b
  PROVE  /\ idx[At(fst, cnt)] = BLOCK_INVAL
         /\ Window(fst, cnt + 1, [idx EXCEPT ![At(fst, cnt)] = b])
<1> DEFINE a == At(fst, cnt)
           w == [idx EXCEPT ![a] = b]
<1>1. /\ cnt \in Slots /\ cnt \in Nat /\ a \in Slots
      /\ \A d \in Slots : d \in Nat /\ d < RingSize /\ At(fst, d) \in Slots
  BY SlotsType DEF Window
<1>2. idx[a] = BLOCK_INVAL
  BY <1>1 DEF Window
<1>3. \A d \in Slots : w[At(fst, d)] = IF d = cnt THEN b ELSE idx[At(fst, d)]
  BY <1>1, AtBijective
<1> HIDE DEF w, a
<1>4. \A d \in Slots : d < cnt + 1 <=> w[At(fst, d)] # BLOCK_INVAL
  <2>1. b # BLOCK_INVAL
    BY DEF BLOCK_INVAL
  <2>2. \A d \in Slots : d < cnt <=> idx[At(fst, d)] # BLOCK_INVAL
    BY DEF Window
  <2>3. \A d \in Slots : d < cnt + 1 <=> d < cnt \/ d = cnt
    BY <1>1
  <2> QED
    BY <1>3, <2>1, <2>2, <2>3
<1>5. \A d, e \in Slots :
        d < e /\ e < cnt + 1 => w[At(fst, d)] < w[At(fst, e)]
  <2> SUFFICES ASSUME NEW d \in Slots, NEW e \in Slots, d < e, e < cnt + 1
               PROVE  w[At(fst, d)] < w[At(fst, e)]
    OBVIOUS
  <2>1. w[At(fst, d)] = idx[At(fst, d)] /\ idx[At(fst, d)] < b
    <3>1. d # cnt /\ At(fst, d) \in Slots
      BY <1>1
    <3> QED
      BY <1>3, <3>1
  <2>2. CASE e = cnt
    BY <1>3, <2>1, <2>2
  <2>3. CASE e < cnt
    <3>1. w[At(fst, e)] = idx[At(fst, e)]
      BY <1>1, <1>3, <2>3
    <3> QED
      BY <2>1, <2>3, <3>1 DEF Window
  <2> QED
    BY <1>1, <2>2, <2>3
<1>6. Window(fst, cnt + 1, w)
  <2>1. cnt + 1 \in 0 .. RingSize
    BY <1>1, SlotsType
  <2> QED
    BY <1>4, <1>5, <2>1 DEF Window
<1> QED
  BY <1>2, <1>6 DEF w, a

(* rbuf_get_block in a full ring: the oldest block makes room.             *)
LEMMA WindowReplace ==
  ASSUME NEW fst \in Slots, NEW idx \in [Slots -> Int],
         Window(fst, RingSize, idx),
         NEW b \in Nat, \A s \in Slots : idx[s] < b,
         NEW w, w = [idx EXCEPT ![fst] = BLOCK_INVAL]
  PROVE  /\ ~FreeSpins(fst, RingSize, w)
         /\ FreedAlloc(fst, RingSize, w) = RingSize - 1
         /\ Window(FreedFront(fst, RingSize, w), RingSize,
                   [idx EXCEPT ![fst] = b])
<1>1. RingSize \in Nat /\ RingSize >= 2 /\ BLOCK_INVAL \in Int
  BY RingAssumption DEF BLOCK_INVAL
<1>2. /\ ~FreeSpins(fst, RingSize, w)
      /\ FreedAlloc(fst, RingSize, w) = RingSize - 1
      /\ FreedFront(fst, RingSize, w) = At(fst, 1)
      /\ Window(At(fst, 1), RingSize - 1, w)
  <2>1. RingSize >= 1 /\ RingSize # 1
    BY <1>1
  <2>2. /\ ~FreeSpins(fst, RingSize, w)
        /\ FreedAlloc(fst, RingSize, w) = RingSize - 1
        /\ FreedFront(fst, RingSize, w) = IF RingSize = 1 THEN fst ELSE At(fst, 1)
        /\ Window(FreedFront(fst, RingSize, w), FreedAlloc(fst, RingSize, w), w)
    BY <2>1, WindowFree
  <2> QED
    BY <2>1, <2>2
<1>3. At(fst, 1) \in Slots /\ At(At(fst, 1), RingSize - 1) = fst
  BY AtType, AtLast
<1>4. w \in [Slots -> Int] /\ \A s \in Slots : w[s] < b
  <2>1. w \in [Slots -> Int]
    BY <1>1
  <2>2. BLOCK_INVAL < b
    BY DEF BLOCK_INVAL
  <2> QED
    BY <2>1, <2>2
<1>5. Window(At(fst, 1), RingSize - 1 + 1, [w EXCEPT ![fst] = b])
  BY <1>1, <1>2, <1>3, <1>4, WindowAppend
<1>6. [w EXCEPT ![fst] = b] = [idx EXCEPT ![fst] = b]
  OBVIOUS
<1> QED
  BY <1>1, <1>2, <1>5, <1>6

(* Two blocks or more are two slots or more.                               *)
LEMMA WindowTwo ==
  ASSUME NEW fst \in Slots, NEW cnt, NEW idx \in [Slots -> Int],
         Window(fst, cnt, idx), cnt >= 2
  PROVE  \E s, t \in InRing(idx) : s # t
<1>1. cnt \in Nat /\ At(fst, 0) \in Slots /\ At(fst, 1) \in Slots
  BY SlotsType DEF Window
<1>2. At(fst, 0) # At(fst, 1)
  BY SlotsType, AtBijective
<1>3. At(fst, 0) \in InRing(idx) /\ At(fst, 1) \in InRing(idx)
  BY <1>1, SlotsType DEF Window, InRing
<1> QED
  BY <1>2, <1>3

(* Dropping a block in a ring that is out of order: the loop ends as long  *)
(* as another slot is in use, or the counter is small.                     *)
LEMMA DropEnds ==
  ASSUME NEW fst \in Slots, NEW cnt \in 1 .. SizeMod - 1,
         NEW idx \in [Slots -> Int], NEW s \in InRing(idx),
         cnt = 1 \/ \E t, u \in InRing(idx) : t # u,
         NEW w, w = [idx EXCEPT ![s] = BLOCK_INVAL]
  PROVE  /\ ~FreeSpins(fst, cnt, w)
         /\ FreedAlloc(fst, cnt, w) \in 0 .. cnt
         /\ InRing(idx) = {s} => FreedAlloc(fst, cnt, w) = 0
<1> DEFINE U == InUse(fst, w)
<1>1. /\ Turns(cnt) = cnt /\ cnt \in Nat /\ cnt >= 1
      /\ IntMod \div 2 \in Nat /\ IntMod \div 2 > 1 /\ RingSize < IntMod \div 2
      /\ SizeMod \in Nat /\ cnt < SizeMod
  BY RingAssumption DEF Turns
<1>2. ASSUME NEW t \in InRing(idx), t # s PROVE U # {}
  <2>1. t \in Slots /\ w[t] # BLOCK_INVAL
    BY <1>2 DEF InRing
  <2>2. PICK d \in Slots : At(fst, d) = t
    BY <2>1, AtBijective
  <2> QED
    BY <2>1, <2>2 DEF InUse
<1>3. InRing(idx) = {s} => U = {}
  <2> SUFFICES ASSUME InRing(idx) = {s}, NEW d \in U PROVE FALSE
    OBVIOUS
  <2>1. d \in Slots /\ At(fst, d) \in Slots /\ w[At(fst, d)] # BLOCK_INVAL
    BY SlotsType DEF InUse
  <2>2. At(fst, d) \in InRing(idx) /\ At(fst, d) # s
    BY <2>1 DEF InRing
  <2> QED
    BY <2>2
<1>4. CASE U = {}
  <2>1. ~FrontMeets(fst, cnt, w)
    BY <1>4 DEF FrontMeets
  <2>2. cnt = 1
    BY <1>2, <1>4
  <2>3. ~SearchOverflows(Turns(cnt))
    BY <1>1, <2>2 DEF SearchOverflows
  <2> QED
    BY <1>1, <2>1, <2>3 DEF FreeSpins, FreedAlloc
<1>5. CASE U # {}
  <2>1. U \subseteq Slots /\ U \subseteq Nat
    BY SlotsType DEF InUse
  <2> HIDE DEF U
  <2>2. Min(U) \in U
    BY <1>5, <2>1, MinNat
  <2>3. Min(U) \in Nat /\ Min(U) < RingSize
    BY <2>1, <2>2, SlotsType
  <2>4. CASE Min(U) < cnt
    <3>1. FrontMeets(fst, cnt, w)
      BY <1>1, <1>5, <2>4 DEF FrontMeets, U
    <3>2. FreedAlloc(fst, cnt, w) = (cnt - Min(U)) % SizeMod
      BY <1>1, <3>1 DEF FreedAlloc, U
    <3>3. (cnt - Min(U)) % SizeMod \in 0 .. cnt
      BY <1>1, <2>3, <2>4
    <3> QED
      BY <1>3, <1>5, <3>1, <3>2, <3>3 DEF FreeSpins
  <2>5. CASE ~(Min(U) < cnt)
    <3>1. ~FrontMeets(fst, cnt, w)
      BY <1>1, <2>5 DEF FrontMeets, U
    <3>2. ~SearchOverflows(Turns(cnt))
      BY <1>1, <2>3, <2>5, SlotsType DEF SearchOverflows
    <3> QED
      BY <1>1, <3>1, <3>2 DEF FreeSpins, FreedAlloc
  <2> QED
    BY <2>4, <2>5
<1> QED
  BY <1>4, <1>5

-----------------------------------------------------------------------------
(* Types and the session                                                   *)

(* What rbuf_get_block has established while it allocates.                 *)
AllocInv ==
  pc = "alloc" =>
    /\ ~OutOfWindow(wfb.block)
    /\ new_blocks = NewBlocks(last_block, wfb.block)
    /\ turn <= new_blocks

TypeInv == TypeOK /\ AllocInv

-----------------------------------------------------------------------------
(* Types                                                                   *)

LEMMA PayloadFacts ==
  /\ Garbage \in Payload
  /\ Frame \subseteq Payload
  /\ NoFrame \in Frame
  /\ \A f \in Frame : f \in Payload
BY ReceiverAssumption DEF Garbage, Payload, Frame, NoFrame, Frags, BLOCK_INVAL

LEMMA InitType == Init => TypeInv
<1> SUFFICES ASSUME Init PROVE TypeInv
  OBVIOUS
<1>1. SessionTypes
  BY ReceiverAssumption DEF Init, SessionTypes, NoCoder, NoLog
<1>2. RingTypes
  BY ReceiverAssumption, RingAssumption, PayloadFacts
  DEF Init, RingTypes, Slots, BLOCK_INVAL
<1>3. HandlerTypes
  BY PayloadFacts, RingAssumption DEF Init, HandlerTypes, Labels, Slots
<1>4. FlagTypes
  <2>1. FecToggles \in BOOLEAN
    BY ReceiverAssumption
  <2> QED
    BY <2>1, Zenon DEF Init, FlagTypes
<1>6. out \in Seq(Delivered)
  BY DEF Init
<1>5. AllocInv
  BY DEF Init, AllocInv
<1> QED
  BY <1>1, <1>2, <1>3, <1>4, <1>5, <1>6 DEF TypeInv, TypeOK

(* A fresh ring is a ring.                                                 *)
LEMMA RbufAllocType ==
  ASSUME NEW nof \in 0 .. MaxFecN, RbufAlloc(nof)
  PROVE  RingTypes'
BY RingAssumption, PayloadFacts DEF RbufAlloc, RingTypes, Slots, BLOCK_INVAL

(* Returning to the event loop keeps the handler's types.                  *)
LEMMA ReturnType == Return => HandlerTypes' /\ pc' = "idle"
BY PayloadFacts, RingAssumption DEF Return, HandlerTypes, Labels, Slots

LEMMA GotoType ==
  ASSUME NEW l \in Labels, HandlerTypes, Goto(l)
  PROVE  HandlerTypes' /\ pc' = l
BY DEF Goto, HandlerTypes

(* rbuf_free_block changes only the window, within its types.              *)
LEMMA FreeBlockType ==
  ASSUME RingTypes, HandlerTypes, NEW s \in Slots,
         NEW l \in {"idle", "purge"}, FreeBlock(s, l)
  PROVE  /\ front' \in Slots
         /\ alloc' \in 0 .. SizeMod - 1
         /\ index' = [index EXCEPT ![s] = BLOCK_INVAL]
         /\ index' \in [Slots -> 0 .. MaxBlockIdx \cup {BLOCK_INVAL}]
         /\ HandlerTypes'
         /\ pc' \in {"freeing", l}
<1> DEFINE w == [index EXCEPT ![s] = BLOCK_INVAL]
<1>1. index' = w /\ w \in [Slots -> 0 .. MaxBlockIdx \cup {BLOCK_INVAL}]
  BY DEF FreeBlock, RingTypes
<1>2. front \in Slots /\ alloc \in 0 .. SizeMod - 1
  BY DEF RingTypes
<1>3. /\ FreedFront(front, alloc, w) \in Slots
      /\ FreedAlloc(front, alloc, w) \in 0 .. SizeMod - 1
  BY <1>2, FreedType
<1> HIDE DEF w
<1>4. \/ Goto("freeing") /\ UNCHANGED <<front, alloc>>
      \/ /\ front' = FreedFront(front, alloc, w)
         /\ alloc' = FreedAlloc(front, alloc, w)
         /\ IF l = "idle" THEN Return ELSE Goto(l)
  BY DEF FreeBlock, w
<1>5. front' \in Slots /\ alloc' \in 0 .. SizeMod - 1
  BY <1>2, <1>3, <1>4
<1>6. HandlerTypes' /\ pc' \in {"freeing", l}
  <2>1. "freeing" \in Labels /\ "purge" \in Labels
    BY DEF Labels, Hung
  <2> QED
    BY <1>4, <2>1, ReturnType, GotoType
<1> QED
  BY <1>1, <1>5, <1>6 DEF w

(* What is delivered has its type.                                         *)
LEMMA SendDataOneType ==
  ASSUME TypeOK, NEW s \in Slots, to_send[s] < fec_k, SendDataOne(s)
  PROVE  out' \in Seq(Delivered)
<1>1. to_send[s] \in Frags /\ to_send[s] \in Nat
  BY ReceiverAssumption DEF TypeOK, RingTypes, SessionTypes, Frags
<1>2. data[s][to_send[s]] \in Payload
  BY <1>1 DEF TypeOK, RingTypes
<1>3. index[s] \in Int
  BY ReceiverAssumption DEF TypeOK, RingTypes, BLOCK_INVAL
<1>4. [block |-> index[s], frag |-> to_send[s], data |-> data[s][to_send[s]]]
        \in Delivered
  BY <1>1, <1>2, <1>3 DEF Delivered
<1> QED
  BY <1>4 DEF SendDataOne, TypeOK

(* What a step leaves alone keeps its types.                               *)
LEMMA SessionTypesKept ==
  ASSUME FlagTypes, SessionTypes, UNCHANGED <<sessionVars, no_fec>>
  PROVE  FlagTypes' /\ SessionTypes'
<1>1. FlagTypes'
  BY Zenon DEF FlagTypes, sessionVars
<1>2. SessionTypes'
  BY DEF SessionTypes, sessionVars
<1> QED
  BY <1>1, <1>2

LEMMA RingTypesKept ==
  ASSUME RingTypes, UNCHANGED ringVars
  PROVE  RingTypes'
BY DEF RingTypes, ringVars, windowVars, blockVars

LEMMA HandlerTypesKept ==
  ASSUME HandlerTypes, UNCHANGED handlerVars
  PROVE  HandlerTypes'
BY DEF HandlerTypes, handlerVars

(* Fragments of a FEC block handed to fec_decode, and what comes back.     *)
LEMMA DecodedType ==
  ASSUME TypeOK, NEW s \in Slots, NEW i \in Frags, fec_k > 0
  PROVE  Decoded(s, i) \in Payload
<1> DEFINE c == CHOOSE j \in Inputs(s) : TRUE
           p == data[s][c]
<1>1. CASE Cardinality(Inputs(s)) # fec_k
  BY <1>1, PayloadFacts DEF Decoded
<1>2. CASE Cardinality(Inputs(s)) = fec_k
  <2>1. Inputs(s) # {}
    BY <1>2, FS_EmptySet
  <2>2. c \in Inputs(s)
    BY <2>1
  <2>3. Inputs(s) \subseteq Frags
    BY DEF Inputs, Parity, TypeOK, RingTypes
  <2>4. p \in Payload
    BY <2>2, <2>3 DEF TypeOK, RingTypes
  <2>5. p.key \in Keys \cup {NoKey} /\ p.block \in Int
    BY <2>4 DEF Payload
  <2>6. i \in Int
    BY ReceiverAssumption DEF Frags
  <2>7. [key |-> p.key, block |-> p.block, frag |-> i] \in Payload
    BY <2>5, <2>6 DEF Payload
  <2> QED
    BY <2>7, PayloadFacts DEF Decoded
<1> QED
  BY <1>1, <1>2

(* The steps of rx_session.                                                *)
LEMMA SessionType ==
  ASSUME TypeInv, RxSession
  PROVE  TypeInv'
<1> PICK s \in Sessions : \/ SessionRejected(s) \/ SessionNoCoder(s)
                          \/ SessionNoRing(s) \/ SessionAccepted(s)
  BY DEF RxSession
<1>1. /\ s.key \in Keys /\ s.epoch \in Nat
      /\ s.k \in 0 .. MaxFecN /\ s.n \in 0 .. MaxFecN
  BY ReceiverAssumption DEF SessionHeader
<1>2. FlagTypes /\ SessionTypes /\ RingTypes /\ HandlerTypes /\ out \in Seq(Delivered)
  BY DEF TypeInv, TypeOK
<1>3. NoCoder \in (0 .. MaxFecN) \X (0 .. MaxFecN)
  BY ReceiverAssumption DEF NoCoder
<1>4. UNCHANGED handlerVars /\ UNCHANGED no_fec /\ pc = "idle"
  BY DEF SessionRejected, SessionNoCoder, SessionNoRing, SessionAccepted, Announced
<1>5. HandlerTypes' /\ pc' # "alloc"
  BY <1>2, <1>4, HandlerTypesKept DEF handlerVars
<1>6. AllocInv'
  BY <1>5 DEF AllocInv
<1>7. FlagTypes'
  <2>1. has_session_key' = FALSE \/ has_session_key' = TRUE
    BY DEF SessionRejected, SessionNoCoder, SessionNoRing, SessionAccepted,
           StartRekeying
  <2> QED
    BY <2>1, <1>2, <1>4, Zenon DEF FlagTypes
<1>8. out' \in Seq(Delivered)
  <2>1. out' = out \/ out' = <<>>
    BY DEF SessionRejected, SessionNoCoder, SessionNoRing, SessionAccepted
  <2>2. <<>> \in Seq(Delivered)
    OBVIOUS
  <2>3. out \in Seq(Delivered)
    BY <1>2
  <2> QED
    BY <2>1, <2>2, <2>3
<1>9. RingTypes'
  <2>1. CASE SessionRejected(s) \/ SessionNoCoder(s)
    BY <2>1, <1>2, RingTypesKept DEF SessionRejected, SessionNoCoder
  <2>2. CASE SessionNoRing(s)
    <3>1. RbufAlloc(0) /\ 0 \in 0 .. MaxFecN
      BY <2>2, ReceiverAssumption DEF SessionNoRing
    <3> QED
      BY <3>1, RbufAllocType
  <2>3. CASE SessionAccepted(s)
    BY <2>3, <1>1, RbufAllocType DEF SessionAccepted
  <2> QED
    BY <2>1, <2>2, <2>3
<1>10. SessionTypes'
  <2>1. CASE SessionRejected(s)
    BY <2>1, <1>2 DEF SessionRejected, SessionTypes
  <2>2. CASE SessionNoCoder(s)
    BY <2>2, <1>2, <1>3 DEF SessionNoCoder, SessionTypes
  <2>3. CASE SessionNoRing(s)
    BY <2>3, <1>2, <1>1 DEF SessionNoRing, SessionTypes
  <2>4. CASE SessionAccepted(s)
    <3>1. log' \in (0 .. MaxFecN) \X (0 .. MaxFecN)
      BY <2>4, <1>1, <1>2, <1>3
      DEF SessionAccepted, RxLogCreate, SessionTypes, NoLog, NoCoder
    <3> QED
      BY <2>4, <3>1, <1>1 DEF SessionAccepted, SessionTypes
  <2> QED
    BY <2>1, <2>2, <2>3, <2>4
<1> QED
  BY <1>5, <1>6, <1>7, <1>8, <1>9, <1>10 DEF TypeInv, TypeOK

(* rx_data up to the block.                                                *)
LEMMA FrameType ==
  ASSUME TypeInv, RxFrame
  PROVE  TypeInv'
<1> PICK f \in Frame : RxFound(f) \/ RxNew(f) \/ RxSearchSpins(f)
  BY DEF RxFrame
<1>1. FlagTypes /\ SessionTypes /\ RingTypes /\ HandlerTypes
  BY DEF TypeInv, TypeOK
<1>2. UNCHANGED <<sessionVars, no_fec>> /\ UNCHANGED ringVars /\ out' = out
  BY DEF RxFound, RxNew, RxSearchSpins
<1>3. FlagTypes' /\ SessionTypes' /\ RingTypes' /\ out' \in Seq(Delivered)
  BY <1>1, <1>2, SessionTypesKept, RingTypesKept DEF TypeInv, TypeOK
<1>4. f.block \in Nat /\ front \in Slots /\ alloc \in Nat
  BY <1>1 DEF Frame, RingTypes
<1>5. HandlerTypes' /\ AllocInv'
  <2>1. CASE RxFound(f)
    <3>1. FirstHit(front, alloc, index, f.block) \in Slots
      BY <2>1, <1>4, FirstHitType DEF RxFound, Searched
    <3> QED
      BY <2>1, <3>1, <1>1 DEF RxFound, HandlerTypes, Labels, AllocInv
  <2>2. CASE RxNew(f)
    <3>1. blk' \in Slots
      <4>1. 0 \in Slots
        BY RingAssumption DEF Slots
      <4>2. At(front, alloc - 1) \in Slots
        BY <1>4, AtType
      <4> QED
        BY <2>2, <4>1, <4>2 DEF RxNew
    <3>2. last_block \in Nat \cup {BLOCK_INVAL}
      BY <1>1 DEF RingTypes
    <3>3. ~OutOfWindow(f.block) /\ new_blocks' = NewBlocks(last_block, f.block)
      BY <2>2 DEF RxNew
    <3>4. last_block # BLOCK_INVAL => f.block > last_block
      BY <3>2, <3>3, <1>4 DEF OutOfWindow, BLOCK_INVAL
    <3>5. new_blocks' \in 0 .. RingSize
      BY <3>2, <3>3, <3>4, <1>4, NewBlocksBounds
    <3>6. HandlerTypes'
      BY <2>2, <3>1, <3>5 DEF RxNew, HandlerTypes, Labels
    <3>7. last_block' = last_block /\ wfb' = f /\ turn' = 0
      BY <2>2, <1>2 DEF RxNew, ringVars
    <3>8. AllocInv'
      BY <3>3, <3>5, <3>7, RingAssumption DEF AllocInv, OutOfWindow
    <3> QED
      BY <3>6, <3>8
  <2>3. CASE RxSearchSpins(f)
    BY <2>3, <1>1 DEF RxSearchSpins, HandlerTypes, Labels, Hung, AllocInv
  <2> QED
    BY <2>1, <2>2, <2>3
<1> QED
  BY <1>3, <1>5 DEF TypeInv, TypeOK

(* The allocation loop of rbuf_get_block numbers its blocks within range.  *)
LEMMA AllocNumbers ==
  ASSUME TypeInv, pc = "alloc", turn < new_blocks
  PROVE  /\ wfb.block - new_blocks + 1 + turn \in 0 .. MaxBlockIdx
         /\ last_block # BLOCK_INVAL =>
              wfb.block - new_blocks + 1 + turn > last_block
<1>1. wfb.block \in 0 .. MaxBlockIdx
  BY DEF TypeInv, TypeOK, HandlerTypes, Frame
<1>2. last_block \in Nat \cup {BLOCK_INVAL} /\ turn \in Nat /\ new_blocks \in Nat
  BY ReceiverAssumption, RingAssumption DEF TypeInv, TypeOK, HandlerTypes, RingTypes
<1>3. ~OutOfWindow(wfb.block) /\ new_blocks = NewBlocks(last_block, wfb.block)
  BY DEF TypeInv, AllocInv
<1>4. last_block # BLOCK_INVAL => wfb.block > last_block
  BY <1>1, <1>2, <1>3 DEF OutOfWindow, BLOCK_INVAL
<1>5. /\ last_block = BLOCK_INVAL => new_blocks = 1
      /\ last_block # BLOCK_INVAL => new_blocks <= wfb.block - last_block
  BY <1>1, <1>2, <1>3, <1>4, NewBlocksBounds
<1> QED
  BY <1>1, <1>2, <1>5, ReceiverAssumption DEF BLOCK_INVAL

(* rx_data from the block on, and the loops that cannot end.               *)
LEMMA WorkType ==
  ASSUME TypeInv, Work \/ AllocSpins
  PROVE  TypeInv'
<1>1. /\ FlagTypes /\ SessionTypes /\ RingTypes /\ HandlerTypes
      /\ out \in Seq(Delivered) /\ TypeOK
  BY DEF TypeInv, TypeOK
<1>2. blk \in Slots /\ wfb \in Frame /\ front \in Slots
  BY <1>1 DEF HandlerTypes, RingTypes
<1>3. wfb.frag \in Frags /\ wfb \in Payload
  BY <1>2, PayloadFacts DEF Frame
<1>4. {"idle", "store", "seq", "purge", "fec", "recovered", "freeing"} \subseteq Labels
  BY DEF Labels, Hung
<1> USE DEF ringVars, windowVars, blockVars
<1>5. CASE AllocBlock
  <2> DEFINE s == AllocSlot(front, alloc, turn)
             w == [index EXCEPT ![s] = BLOCK_INVAL]
             b == wfb.block - new_blocks + 1 + turn
             r == IF index[s] # BLOCK_INVAL THEN FreedAlloc(front, alloc, w) ELSE alloc
  <2>1. s \in Slots
    BY <1>1, AllocSlotType DEF RingTypes, HandlerTypes
  <2>2. /\ FreedFront(front, alloc, w) \in Slots
        /\ FreedAlloc(front, alloc, w) \in 0 .. SizeMod - 1
    BY <1>1, FreedType DEF RingTypes
  <2>3. b \in 0 .. MaxBlockIdx
    BY <1>5, AllocNumbers DEF AllocBlock
  <2> HIDE DEF s, w
  <2>4. /\ front' = IF index[s] # BLOCK_INVAL THEN FreedFront(front, alloc, w) ELSE front
        /\ alloc' = (r + 1) % SizeMod
        /\ index' = [index EXCEPT ![s] = b]
        /\ used' = [used EXCEPT ![s] = 0]
        /\ to_send' = [to_send EXCEPT ![s] = 0]
        /\ len' = [len EXCEPT ![s] = {}]
        /\ blk' = s
        /\ turn' = turn + 1
        /\ UNCHANGED <<pc, wfb, new_blocks, ring_nof, last_block, data>>
        /\ UNCHANGED <<sessionVars, no_fec>> /\ out' = out
        /\ pc = "alloc" /\ turn < new_blocks
    BY <1>5 DEF AllocBlock, ResetBlock, s, w
  <2> HIDE DEF b
  <2>5. front' \in Slots
    BY <2>2, <2>4, <1>2
  <2>6. alloc' \in 0 .. SizeMod - 1
    <3>1. r \in Nat
      BY <2>2, <1>1, RingAssumption DEF RingTypes
    <3> HIDE DEF r
    <3> QED
      BY <3>1, <2>4, RingAssumption
  <2>7. RingTypes'
    BY <2>1, <2>3, <2>4, <2>5, <2>6, <1>1 DEF RingTypes
  <2>8. HandlerTypes'
    BY <2>1, <2>4, <1>1 DEF HandlerTypes
  <2>9. AllocInv'
    BY <2>4, <1>1, RingAssumption DEF AllocInv, TypeInv, OutOfWindow, HandlerTypes
  <2> QED
    BY <2>4, <2>7, <2>8, <2>9, <1>1, SessionTypesKept DEF TypeInv, TypeOK
<1>6. CASE AllocSpins
  <2> DEFINE s == AllocSlot(front, alloc, turn)
  <2>1. s \in Slots
    BY <1>1, AllocSlotType DEF RingTypes, HandlerTypes
  <2> HIDE DEF s
  <2>2. /\ index' = [index EXCEPT ![s] = BLOCK_INVAL]
        /\ UNCHANGED <<ring_nof, last_block, front, alloc, used, to_send, len, data>>
        /\ UNCHANGED <<sessionVars, no_fec>> /\ out' = out
        /\ Goto("freeing")
    BY <1>6 DEF AllocSpins, s
  <2>3. RingTypes'
    BY <2>1, <2>2, <1>1 DEF RingTypes
  <2>4. HandlerTypes' /\ AllocInv'
    BY <2>2, <1>1, <1>4, GotoType DEF AllocInv
  <2> QED
    BY <2>2, <2>3, <2>4, <1>1, SessionTypesKept DEF TypeInv, TypeOK
<1>7. CASE AllocDone
  <2>1. RingTypes'
    BY <1>7, <1>1, <1>2 DEF AllocDone, RingTypes, Frame
  <2>2. HandlerTypes' /\ AllocInv'
    BY <1>7, <1>1, <1>4, GotoType DEF AllocDone, AllocInv
  <2> QED
    BY <1>7, <2>1, <2>2, <1>1, SessionTypesKept DEF AllocDone, TypeInv, TypeOK
<1>8. CASE StoreDuplicate
  BY <1>8, <1>1, ReturnType, RingTypesKept, SessionTypesKept
  DEF StoreDuplicate, TypeInv, TypeOK, AllocInv
<1>9. CASE StoreRefused
  <2>1. RingTypes'
    BY <1>9, <1>1, <1>2, <1>3, PayloadFacts DEF StoreRefused, RingTypes
  <2>2. HandlerTypes' /\ AllocInv'
    BY <1>9, ReturnType DEF StoreRefused, AllocInv
  <2>3. SessionTypes' /\ out' = out
    BY <1>9, <1>1 DEF StoreRefused, SessionTypes
  <2>4. FlagTypes'
    <3>1. has_session_key' = FALSE /\ no_fec' = no_fec
      BY <1>9 DEF StoreRefused
    <3> QED
      BY <3>1, <1>1, Zenon DEF FlagTypes
  <2> QED
    BY <2>1, <2>2, <2>3, <2>4, <1>1 DEF TypeInv, TypeOK
<1>10. CASE Store
  <2>1. RingTypes'
    BY <1>10, <1>1, <1>2, <1>3 DEF Store, RingTypes
  <2>2. DataAdd \in Labels /\ DataAdd # "alloc"
    BY <1>4 DEF DataAdd
  <2>3. HandlerTypes' /\ AllocInv'
    BY <1>10, <1>1, <2>2, GotoType DEF Store, AllocInv
  <2> QED
    BY <1>10, <2>1, <2>3, <1>1, SessionTypesKept DEF Store, TypeInv, TypeOK
<1>11. CASE SendSeq \/ PurgeSend \/ SendRecovered
  <2>1. PICK s \in Slots :
          /\ to_send[s] < fec_k /\ SendDataOne(s) /\ Advance(s)
          /\ UNCHANGED <<handlerVars, sessionVars, no_fec>>
          /\ UNCHANGED <<ring_nof, last_block, front, alloc, index, used, len, data>>
          /\ pc # "alloc"
    BY <1>11, <1>2 DEF SendSeq, PurgeSend, SendRecovered, Present
  <2>2. RingTypes'
    BY <2>1, <1>1 DEF Advance, RingTypes
  <2>3. out' \in Seq(Delivered)
    BY <2>1, <1>1, SendDataOneType
  <2>4. HandlerTypes' /\ AllocInv'
    BY <2>1, <1>1, HandlerTypesKept DEF AllocInv, handlerVars
  <2> QED
    BY <2>1, <2>2, <2>3, <2>4, <1>1, SessionTypesKept DEF TypeInv, TypeOK
<1>12. CASE PurgeSkip
  <2>1. RingTypes'
    BY <1>12, <1>1, <1>2 DEF PurgeSkip, Advance, RingTypes
  <2>2. HandlerTypes' /\ AllocInv'
    BY <1>12, <1>1, HandlerTypesKept DEF PurgeSkip, AllocInv, handlerVars
  <2> QED
    BY <1>12, <2>1, <2>2, <1>1, SessionTypesKept DEF PurgeSkip, TypeInv, TypeOK
<1>13. CASE SeqComplete \/ PurgeFree \/ RecoveredDone
  <2>1. PICK s \in Slots, l \in {"idle", "purge"} :
          /\ FreeBlock(s, l)
          /\ UNCHANGED <<sessionVars, no_fec>> /\ out' = out
          /\ UNCHANGED <<ring_nof, last_block, used, to_send, len, data>>
    BY <1>13, <1>2 DEF SeqComplete, PurgeFree, RecoveredDone
  <2>2. /\ front' \in Slots /\ alloc' \in 0 .. SizeMod - 1
        /\ index' \in [Slots -> 0 .. MaxBlockIdx \cup {BLOCK_INVAL}]
        /\ HandlerTypes' /\ pc' # "alloc"
    BY <2>1, <1>1, FreeBlockType
  <2>3. RingTypes'
    BY <2>1, <2>2, <1>1 DEF RingTypes
  <2> QED
    BY <2>1, <2>2, <2>3, <1>1, SessionTypesKept DEF TypeInv, TypeOK, AllocInv
<1>14. CASE SeqBlocked \/ PurgeDone
  <2>1. UNCHANGED <<sessionVars, no_fec>> /\ UNCHANGED ringVars /\ Goto("fec") /\ out' = out
    BY <1>14 DEF SeqBlocked, PurgeDone
  <2> QED
    BY <2>1, <1>1, <1>4, GotoType, RingTypesKept, SessionTypesKept
    DEF TypeInv, TypeOK, AllocInv
<1>15. CASE Recover
  <2>1. fec_k > 0
    BY <1>15, <1>1, <1>2 DEF Recover, Recoverable, RingTypes, SessionTypes
  <2>2. \A i \in Frags : Decoded(blk, i) \in Payload
    BY <2>1, <1>1, <1>2, DecodedType
  <2>3. data' \in [Slots -> [Frags -> Payload]]
    BY <1>15, <2>2, <1>1, <1>2 DEF Recover, RingTypes
  <2>4. RingTypes'
    BY <1>15, <2>3, <1>1 DEF Recover, RingTypes
  <2>5. HandlerTypes' /\ AllocInv'
    BY <1>15, <1>1, <1>4, GotoType DEF Recover, AllocInv
  <2> QED
    BY <1>15, <2>4, <2>5, <1>1, SessionTypesKept DEF Recover, TypeInv, TypeOK
<1>16. CASE WaitForMore
  BY <1>16, <1>1, ReturnType, RingTypesKept, SessionTypesKept
  DEF WaitForMore, TypeInv, TypeOK, AllocInv
<1> QED
  BY <1>5, <1>6, <1>7, <1>8, <1>9, <1>10, <1>11, <1>12, <1>13, <1>14, <1>15,
     <1>16 DEF Work

LEMMA TypeStep == TypeInv /\ [Next]_vars => TypeInv'
<1> SUFFICES ASSUME TypeInv, [Next]_vars PROVE TypeInv'
  OBVIOUS
<1>1. FlagTypes /\ SessionTypes /\ RingTypes /\ HandlerTypes /\ out \in Seq(Delivered)
  BY DEF TypeInv, TypeOK
<1>2. CASE UNCHANGED vars
  <2>1. UNCHANGED <<sessionVars, no_fec>> /\ UNCHANGED ringVars
        /\ UNCHANGED handlerVars /\ out' = out
    BY <1>2 DEF vars
  <2>2. AllocInv'
    BY <2>1 DEF TypeInv, AllocInv, OutOfWindow, handlerVars, ringVars
  <2> QED
    BY <2>1, <2>2, <1>1, SessionTypesKept, RingTypesKept, HandlerTypesKept
    DEF TypeInv, TypeOK
<1>3. CASE FecToggle
  <2>1. UNCHANGED sessionVars /\ UNCHANGED ringVars /\ UNCHANGED handlerVars
        /\ out' = out /\ no_fec' = ~no_fec
    BY <1>3 DEF FecToggle
  <2>2. FlagTypes'
    BY <2>1, <1>1, Zenon DEF FlagTypes, sessionVars
  <2>3. SessionTypes'
    BY <2>1, <1>1 DEF SessionTypes, sessionVars
  <2>4. AllocInv'
    BY <2>1 DEF TypeInv, AllocInv, OutOfWindow, handlerVars, ringVars
  <2> QED
    BY <2>1, <2>2, <2>3, <2>4, <1>1, RingTypesKept, HandlerTypesKept
    DEF TypeInv, TypeOK
<1> QED
  BY <1>2, <1>3, SessionType, FrameType, WorkType DEF Next, Hang, Spin

(* The types of the receive path are invariant: in particular every slot   *)
(* and fragment index the code computes stays inside its array.            *)
THEOREM TypeCorrect == Spec => []TypeOK
<1>1. TypeInv => TypeOK
  BY DEF TypeInv
<1> QED
  BY <1>1, InitType, TypeStep, PTL DEF Spec

-----------------------------------------------------------------------------
(* Delivered data are genuine                                              *)

(* A handler that is past its checks runs in a session that was announced. *)
SessionInv ==
  /\ pc \notin Hung \cup {"idle"} => has_session_key
  /\ has_session_key =>
       \E t \in Sessions : t.key = session_key /\ t.k = fec_k /\ t.n = fec_n
  /\ SessionCoherent

(* A fragment of non-zero length is the frame its place stands for.        *)
StoredGenuine ==
  \A s \in Slots : index[s] # BLOCK_INVAL =>
    \A f \in len[s] :
      data[s][f] = [key |-> crypto_key, block |-> index[s], frag |-> f]

(* fragment_used counts the fragments of non-zero length.                  *)
UsedCounts == \A s \in Slots : used[s] = Cardinality(len[s])

(* A slot is freed when everything in it was sent or skipped.              *)
FreedSent ==
  pc \notin Hung =>
    \A s \in Slots : index[s] = BLOCK_INVAL => len[s] = {} \/ to_send[s] >= fec_k

(* rbuf_get_block leads an authentic frame to its block.                   *)
BlockFound ==
  /\ pc = "alloc" =>
       /\ turn > 0 => index[blk] = wfb.block - new_blocks + turn
       /\ wfb.key = crypto_key => new_blocks >= 1
  /\ pc = "store" /\ wfb.key = crypto_key => index[blk] = wfb.block

(* After data_recovery, what is still to be sent is in the buffers.        *)
RecoveredGenuine ==
  pc = "recovered" =>
    \A f \in Frags : f >= to_send[blk] /\ f < fec_k =>
      data[blk][f] = [key |-> crypto_key, block |-> index[blk], frag |-> f]

StoredInv ==
  /\ StoredGenuine
  /\ UsedCounts
  /\ FreedSent
  /\ BlockFound
  /\ RecoveredGenuine

GenuineInv == TypeInv /\ SessionInv /\ StoredInv /\ Genuine

-----------------------------------------------------------------------------
(* The session                                                             *)

LEMMA SessionInit == Init => SessionInv
BY DEF Init, SessionInv, SessionCoherent

(* A step that leaves the session alone and stays in it.                   *)
LEMMA SessionInvKept ==
  ASSUME SessionInv, UNCHANGED <<sessionVars, ring_nof>>,
         pc' \notin Hung \cup {"idle"} => has_session_key
  PROVE  SessionInv'
BY DEF SessionInv, SessionCoherent, sessionVars

(* An announcement either gives up the session or completes a new one.     *)
LEMMA SessionRekeyed ==
  ASSUME TypeInv, SessionInv, RxSession
  PROVE  SessionInv'
<1> PICK s \in Sessions : \/ SessionRejected(s) \/ SessionNoCoder(s)
                          \/ SessionNoRing(s) \/ SessionAccepted(s)
  BY DEF RxSession
<1>1. pc' = "idle"
  BY DEF SessionRejected, SessionNoCoder, SessionNoRing, SessionAccepted,
         Announced, handlerVars
<1>2. CASE SessionAccepted(s)
  <2>1. s.key \in Keys /\ s.k \in Nat /\ s.n \in Nat
    BY ReceiverAssumption DEF SessionHeader
  <2>2. /\ session_key' = s.key /\ crypto_key' = s.key
        /\ fec_k' = s.k /\ fec_n' = s.n /\ coder' = <<s.k, s.n>>
        /\ ring_nof' = s.n /\ s.k >= 1 /\ s.k <= s.n
    BY <1>2 DEF SessionAccepted, RbufAlloc, Acceptable
  <2>3. SessionCoherent'
    BY <2>1, <2>2 DEF SessionCoherent
  <2> QED
    BY <1>1, <2>2, <2>3 DEF SessionInv
<1>3. CASE ~SessionAccepted(s)
  <2>1. has_session_key' = FALSE
    BY <1>3 DEF SessionRejected, SessionNoCoder, SessionNoRing, StartRekeying
  <2> QED
    BY <1>1, <2>1 DEF SessionInv, SessionCoherent
<1> QED
  BY <1>2, <1>3

LEMMA SessionStep == TypeInv /\ SessionInv /\ [Next]_vars => SessionInv'
<1> SUFFICES ASSUME TypeInv, SessionInv, [Next]_vars PROVE SessionInv'
  OBVIOUS
<1>1. CASE RxSession
  BY <1>1, SessionRekeyed
<1>2. CASE StoreRefused
  <2>1. has_session_key' = FALSE /\ pc' = "idle"
    BY <1>2 DEF StoreRefused, Return
  <2> QED
    BY <2>1 DEF SessionInv, SessionCoherent
<1>3. CASE UNCHANGED vars \/ FecToggle \/ Spin
  <2>1. UNCHANGED <<sessionVars, ring_nof, pc>>
    BY <1>3 DEF vars, FecToggle, Spin, ringVars, handlerVars
  <2> QED
    BY <2>1, SessionInvKept DEF SessionInv
<1>4. CASE RxFrame
  <2>1. UNCHANGED <<sessionVars, ring_nof>> /\ has_session_key
    BY <1>4 DEF RxFrame, RxFound, RxNew, RxSearchSpins, RxData, ringVars
  <2> QED
    BY <2>1, SessionInvKept
<1>5. CASE (Work \/ AllocSpins) /\ ~StoreRefused
  <2>1. UNCHANGED <<sessionVars, ring_nof>>
    BY <1>5 DEF Work, AllocBlock, AllocSpins, AllocDone, StoreDuplicate, Store,
       SendSeq, SeqComplete, SeqBlocked, PurgeSend, PurgeSkip, PurgeFree,
       PurgeDone, Recover, WaitForMore, SendRecovered, RecoveredDone, ringVars
  <2>2. pc \notin Hung \cup {"idle"}
    BY <1>5 DEF Work, AllocBlock, AllocSpins, AllocDone, StoreDuplicate, Store,
       SendSeq, SeqComplete, SeqBlocked, PurgeSend, PurgeSkip, PurgeFree,
       PurgeDone, Recover, WaitForMore, SendRecovered, RecoveredDone, Hung
  <2> QED
    BY <2>1, <2>2, SessionInvKept DEF SessionInv
<1> QED
  BY <1>1, <1>2, <1>3, <1>4, <1>5 DEF Next, Hang

(* A session in use is coherent: the key in the crypto module, the code,   *)
(* the coder and the ring are those of one accepted announcement, however  *)
(* many announcements failed half-way through rx_session before it.        *)
THEOREM CoherentSession == Spec => []SessionCoherent
<1>1. Init => TypeInv /\ SessionInv
  BY InitType, SessionInit
<1>2. TypeInv /\ SessionInv /\ [Next]_vars => (TypeInv /\ SessionInv)'
  BY TypeStep, SessionStep
<1>3. SessionInv => SessionCoherent
  BY DEF SessionInv
<1> QED
  BY <1>1, <1>2, <1>3, PTL DEF Spec

-----------------------------------------------------------------------------
(* FEC                                                                     *)

(* With fec_k fragments at hand, as many data fragments are lost as parity *)
(* fragments arrived, so that data_recovery uses all it has.               *)
LEMMA AllUsed ==
  ASSUME TypeOK, NEW s \in Slots, Cardinality(len[s]) = fec_k
  PROVE  Inputs(s) = len[s]
<1> DEFINE L == len[s]
           K == 0 .. fec_k - 1
           P == Parity(s)
<1>1. fec_k \in Nat /\ L \subseteq Nat /\ L \subseteq 0 .. MaxFecN - 1
  <2>1. fec_k \in Nat /\ L \subseteq Frags
    BY DEF TypeOK, SessionTypes, RingTypes
  <2>2. Frags = 0 .. MaxFecN - 1 /\ Frags \subseteq Nat
    BY ReceiverAssumption DEF Frags
  <2> HIDE DEF L
  <2> QED
    BY <2>1, <2>2
<1>2. IsFiniteSet(L)
  <2>1. IsFiniteSet(0 .. MaxFecN - 1)
    BY FS_Interval, ReceiverAssumption
  <2> QED
    BY <2>1, <1>1, FS_Subset
<1>3. IsFiniteSet(K) /\ Cardinality(K) = fec_k
  BY <1>1, FS_Interval
<1>4. P = L \ K /\ Lost(s) = K \ L /\ K \cap L = L \cap K
  BY <1>1 DEF Parity, Lost
<1>5. /\ IsFiniteSet(L \ K) /\ Cardinality(L \ K) = Cardinality(L) - Cardinality(L \cap K)
      /\ Cardinality(K \ L) = Cardinality(K) - Cardinality(K \cap L)
  BY <1>2, <1>3, FS_Difference
<1>6. IsFiniteSet(P) /\ Cardinality(P) = Cardinality(Lost(s))
  BY <1>3, <1>4, <1>5
<1>7. ASSUME NEW j \in P
      PROVE  Cardinality({i \in P : i < j}) < Cardinality(Lost(s))
  <2> DEFINE B == {i \in P : i < j}
  <2>1. P \subseteq Nat
    BY <1>1 DEF Parity
  <2>2. B \in SUBSET P /\ j \notin B
    BY <2>1
  <2>3. B # P
    BY <2>2
  <2> HIDE DEF B, P
  <2>4. IsFiniteSet(B) /\ Cardinality(B) <= Cardinality(P) /\ Cardinality(P) # Cardinality(B)
    BY <2>2, <2>3, <1>6, FS_Subset
  <2>5. Cardinality(B) \in Nat /\ Cardinality(P) \in Nat
    BY <2>4, <1>6, FS_CardinalityType
  <2>6. Cardinality(B) < Cardinality(Lost(s))
    BY <2>4, <2>5, <1>6
  <2> QED
    BY <2>6 DEF B
<1>8. Inputs(s) = {i \in L : i < fec_k} \cup P
  BY <1>7 DEF Inputs
<1> QED
  BY <1>1, <1>8 DEF Parity

(* What data_recovery puts in the place of a lost fragment is that         *)
(* fragment.                                                               *)
LEMMA Recovery ==
  ASSUME GenuineInv, NEW s \in Slots, NEW f \in Frags, has_session_key,
         index[s] # BLOCK_INVAL, used[s] = fec_k
  PROVE  Decoded(s, f) = [key |-> crypto_key, block |-> index[s], frag |-> f]
<1> DEFINE c == CHOOSE j \in Inputs(s) : TRUE
           g(j) == [key |-> crypto_key, block |-> index[s], frag |-> j]
<1>1. Cardinality(len[s]) = fec_k
  BY DEF GenuineInv, StoredInv, UsedCounts
<1>2. Inputs(s) = len[s]
  BY <1>1, AllUsed DEF GenuineInv, TypeInv
<1>3. fec_k >= 1 /\ fec_k \in Nat /\ crypto_key = session_key /\ coder = <<fec_k, fec_n>>
  BY DEF GenuineInv, TypeInv, TypeOK, SessionTypes, SessionInv, SessionCoherent
<1>4. len[s] # {}
  BY <1>1, <1>3, FS_EmptySet
<1>5. c \in len[s]
  BY <1>2, <1>4
<1>6. \A j \in len[s] : data[s][j] = g(j)
  BY DEF GenuineInv, StoredInv, StoredGenuine
<1> HIDE DEF c
<1>7. data[s][c].key = crypto_key /\ data[s][c].block = index[s]
  <2>1. data[s][c] = [key |-> crypto_key, block |-> index[s], frag |-> c]
    BY <1>5, <1>6
  <2> QED
    BY <2>1
<1>8. \E t \in Sessions : t.key = crypto_key /\ coder = <<t.k, t.n>>
  BY <1>3 DEF GenuineInv, SessionInv
<1>9. \A j \in Inputs(s) :
        data[s][j] = [key |-> data[s][c].key, block |-> data[s][c].block, frag |-> j]
  BY <1>2, <1>6, <1>7
<1> QED
  BY <1>1, <1>2, <1>7, <1>8, <1>9 DEF Decoded, c

-----------------------------------------------------------------------------
(* The fragments                                                           *)

LEMMA StoredInit == Init => StoredInv /\ Genuine
<1> SUFFICES ASSUME Init PROVE StoredInv /\ Genuine
  OBVIOUS
<1>1. StoredGenuine /\ FreedSent /\ BlockFound /\ RecoveredGenuine
  BY DEF Init, StoredGenuine, FreedSent, BlockFound, RecoveredGenuine
<1>2. UsedCounts
  BY FS_EmptySet DEF Init, UsedCounts
<1>3. Genuine
  <2>1. Len(out) = 0
    BY DEF Init
  <2> QED
    BY <2>1 DEF Genuine
<1> QED
  BY <1>1, <1>2, <1>3 DEF StoredInv

(* A step that only moves the handler.                                     *)
LEMMA StoredKept ==
  ASSUME StoredInv, Genuine, pc \notin Hung,
         UNCHANGED <<crypto_key, fec_k, index, used, to_send, len, data, out>>,
         pc' \notin {"alloc", "store", "recovered"}
  PROVE  StoredInv' /\ Genuine'
<1>1. StoredGenuine' /\ UsedCounts' /\ FreedSent'
  BY DEF StoredInv, StoredGenuine, UsedCounts, FreedSent
<1>2. BlockFound' /\ RecoveredGenuine'
  BY DEF BlockFound, RecoveredGenuine
<1>3. Genuine'
  BY DEF Genuine
<1> QED
  BY <1>1, <1>2, <1>3 DEF StoredInv

(* rx_session: the slots stay as they are, or all are fresh.               *)
LEMMA StoredRekeyed ==
  ASSUME GenuineInv, RxSession
  PROVE  StoredInv' /\ Genuine'
<1> PICK s \in Sessions : \/ SessionRejected(s) \/ SessionNoCoder(s)
                          \/ SessionNoRing(s) \/ SessionAccepted(s)
  BY DEF RxSession
<1>1. pc = "idle" /\ pc' = "idle" /\ StoredInv /\ Genuine
  BY DEF SessionRejected, SessionNoCoder, SessionNoRing, SessionAccepted,
         Announced, handlerVars, GenuineInv
<1>2. BlockFound' /\ RecoveredGenuine'
  BY <1>1 DEF BlockFound, RecoveredGenuine
<1>3. CASE SessionRejected(s) \/ SessionNoCoder(s)
  BY <1>1, <1>3, StoredKept
  DEF SessionRejected, SessionNoCoder, Hung, ringVars, windowVars, blockVars
<1>4. ASSUME NEW nof, RbufAlloc(nof)
      PROVE  StoredGenuine' /\ UsedCounts' /\ FreedSent'
  <2>1. StoredGenuine' /\ FreedSent'
    BY <1>4 DEF RbufAlloc, StoredGenuine, FreedSent
  <2>2. UsedCounts'
    BY <1>4, FS_EmptySet DEF RbufAlloc, UsedCounts
  <2> QED
    BY <2>1, <2>2
<1>5. CASE SessionNoRing(s)
  <2>1. RbufAlloc(0) /\ UNCHANGED <<crypto_key, fec_k, out>>
    BY <1>5 DEF SessionNoRing
  <2>2. Genuine'
    BY <2>1, <1>1 DEF Genuine
  <2> QED
    BY <2>1, <2>2, <1>2, <1>4 DEF StoredInv
<1>6. CASE SessionAccepted(s)
  <2>1. RbufAlloc(s.n) /\ out' = <<>>
    BY <1>6 DEF SessionAccepted
  <2>2. Genuine'
    <3>1. Len(out') = 0
      BY <2>1
    <3> QED
      BY <3>1 DEF Genuine
  <2> QED
    BY <2>1, <2>2, <1>2, <1>4 DEF StoredInv
<1> QED
  BY <1>3, <1>5, <1>6

(* rx_data up to the block: the search finds it, or there will be at least *)
(* one block to allocate.                                                  *)
LEMMA StoredFrame ==
  ASSUME GenuineInv, RxFrame
  PROVE  StoredInv' /\ Genuine'
<1> PICK f \in Frame : RxFound(f) \/ RxNew(f) \/ RxSearchSpins(f)
  BY DEF RxFrame
<1>1. /\ pc = "idle" /\ wfb' = f
      /\ UNCHANGED <<crypto_key, fec_k, index, used, to_send, len, data, out>>
      /\ StoredInv /\ Genuine
  BY DEF RxFound, RxNew, RxSearchSpins, RxData, sessionVars, ringVars,
         windowVars, blockVars, GenuineInv
<1>2. StoredGenuine' /\ UsedCounts' /\ FreedSent' /\ Genuine'
  BY <1>1 DEF StoredInv, StoredGenuine, UsedCounts, FreedSent, Genuine, Hung
<1>3. f.block \in Nat /\ front \in Slots
      /\ last_block \in Nat \cup {BLOCK_INVAL}
  BY DEF Frame, GenuineInv, TypeInv, TypeOK, RingTypes
<1>4. CASE RxFound(f)
  <2>1. pc' = "store" /\ index'[blk'] = f.block
    BY <1>1, <1>3, <1>4, FirstHitType DEF RxFound, Searched
  <2> QED
    BY <1>1, <1>2, <2>1 DEF StoredInv, BlockFound, RecoveredGenuine
<1>5. CASE RxNew(f)
  <2>1. /\ pc' = "alloc" /\ turn' = 0
        /\ new_blocks' = NewBlocks(last_block, f.block)
        /\ ~OutOfWindow(f.block) /\ Plausible(f)
    BY <1>5 DEF RxNew, RxData
  <2>2. last_block # BLOCK_INVAL => f.block > last_block
    BY <1>3, <2>1 DEF OutOfWindow, BLOCK_INVAL
  <2>3. last_block = BLOCK_INVAL => new_blocks' >= 1
    BY <1>3, <2>1, <2>2, NewBlocksBounds
  <2>4. last_block # BLOCK_INVAL /\ f.key = crypto_key => new_blocks' >= 1
    <3>1. MaxGap \in Nat /\ MaxGap < IntMod /\ IntMod \in Nat
      BY ReceiverAssumption, RingAssumption
    <3>2. last_block # BLOCK_INVAL /\ f.key = crypto_key =>
            f.block - last_block < IntMod
      BY <1>3, <2>1, <3>1 DEF Plausible, BLOCK_INVAL
    <3> QED
      BY <1>3, <2>1, <2>2, <3>2, NewBlocksBounds
  <2>5. BlockFound' /\ RecoveredGenuine'
    BY <1>1, <2>1, <2>3, <2>4 DEF BlockFound, RecoveredGenuine
  <2> QED
    BY <1>2, <2>5 DEF StoredInv
<1>6. CASE RxSearchSpins(f)
  BY <1>1, <1>6, StoredKept DEF RxSearchSpins, Hung
<1> QED
  BY <1>4, <1>5, <1>6

(* rbuf_get_block, the allocation: the last slot it resets is the block's. *)
LEMMA StoredAlloc ==
  ASSUME GenuineInv, AllocBlock \/ AllocSpins \/ AllocDone
  PROVE  StoredInv' /\ Genuine'
<1>1. pc = "alloc" /\ UNCHANGED <<crypto_key, fec_k, wfb, new_blocks, data, out>>
  BY DEF AllocBlock, AllocSpins, AllocDone, sessionVars, blockVars, Goto
<1>2. StoredGenuine /\ UsedCounts /\ FreedSent /\ BlockFound /\ Genuine'
  BY <1>1 DEF GenuineInv, StoredInv, Genuine
<1>3. /\ index \in [Slots -> 0 .. MaxBlockIdx \cup {BLOCK_INVAL}]
      /\ used \in [Slots -> Nat] /\ to_send \in [Slots -> Nat]
      /\ len \in [Slots -> SUBSET Frags]
      /\ front \in Slots /\ alloc \in 0 .. SizeMod - 1 /\ turn \in Nat
      /\ new_blocks \in Nat /\ wfb.block \in Nat
  BY RingAssumption
  DEF GenuineInv, TypeInv, TypeOK, RingTypes, HandlerTypes, Frame
<1> DEFINE s == AllocSlot(front, alloc, turn)
<1>4. s \in Slots
  BY <1>3, AllocSlotType
<1> HIDE DEF s
<1>5. CASE AllocBlock
  <2> DEFINE b == wfb.block - new_blocks + 1 + turn
  <2>1. b \in 0 .. MaxBlockIdx
    BY <1>5, AllocNumbers DEF AllocBlock, GenuineInv
  <2>2. b # BLOCK_INVAL
    BY <2>1 DEF BLOCK_INVAL
  <2>3. /\ index' = [index EXCEPT ![s] = b]
        /\ used' = [used EXCEPT ![s] = 0]
        /\ to_send' = [to_send EXCEPT ![s] = 0]
        /\ len' = [len EXCEPT ![s] = {}]
        /\ blk' = s /\ turn' = turn + 1 /\ pc' = pc
    BY <1>5 DEF AllocBlock, ResetBlock, s
  <2>4. index'[blk'] = wfb'.block - new_blocks' + turn'
    BY <1>1, <1>3, <1>4, <2>3
  <2>5. BlockFound' /\ RecoveredGenuine'
    BY <1>1, <1>2, <2>3, <2>4 DEF BlockFound, RecoveredGenuine
  <2> HIDE DEF b
  <2>6. StoredGenuine' /\ FreedSent'
    BY <1>1, <1>2, <1>3, <1>4, <2>2, <2>3 DEF StoredGenuine, FreedSent, Hung
  <2>7. UsedCounts'
    BY <1>2, <1>3, <1>4, <2>3, FS_EmptySet DEF UsedCounts
  <2> QED
    BY <1>2, <2>5, <2>6, <2>7 DEF StoredInv
<1>6. CASE AllocSpins
  <2>1. /\ index' = [index EXCEPT ![s] = BLOCK_INVAL]
        /\ UNCHANGED <<used, to_send, len>> /\ pc' = "freeing"
    BY <1>6 DEF AllocSpins, s, Goto, blockVars
  <2>2. StoredGenuine' /\ UsedCounts' /\ FreedSent'
    BY <1>1, <1>2, <1>3, <1>4, <2>1 DEF StoredGenuine, UsedCounts, FreedSent, Hung
  <2>3. BlockFound' /\ RecoveredGenuine'
    BY <2>1 DEF BlockFound, RecoveredGenuine
  <2> QED
    BY <1>2, <2>2, <2>3 DEF StoredInv
<1>7. CASE AllocDone
  <2>1. /\ UNCHANGED <<index, used, to_send, len, blk>> /\ pc' = "store"
        /\ turn >= new_blocks
    BY <1>7 DEF AllocDone, Goto, windowVars, blockVars
  <2>2. StoredGenuine' /\ UsedCounts' /\ FreedSent'
    BY <1>1, <1>2, <2>1 DEF StoredGenuine, UsedCounts, FreedSent, Hung
  <2>3. turn <= new_blocks
    BY <1>1 DEF GenuineInv, TypeInv, AllocInv
  <2>4. BlockFound' /\ RecoveredGenuine'
    BY <1>1, <1>2, <1>3, <2>1, <2>3 DEF BlockFound, RecoveredGenuine
  <2> QED
    BY <1>2, <2>2, <2>4 DEF StoredInv
<1> QED
  BY <1>5, <1>6, <1>7

(* rx_data from the block on: only an authentic frame is given a length,   *)
(* and an authentic frame is in its own block.                             *)
LEMMA StoredStore ==
  ASSUME GenuineInv, Store \/ StoreRefused
  PROVE  StoredInv' /\ Genuine'
<1>1. /\ pc = "store" /\ UNCHANGED <<crypto_key, fec_k, index, to_send, out>>
      /\ wfb.frag \notin len[blk]
  BY DEF Store, StoreRefused, sessionVars, windowVars, Duplicate
<1>2. StoredGenuine /\ UsedCounts /\ FreedSent /\ BlockFound /\ Genuine'
  BY <1>1 DEF GenuineInv, StoredInv, Genuine
<1>3. /\ used \in [Slots -> Nat] /\ len \in [Slots -> SUBSET Frags]
      /\ data \in [Slots -> [Frags -> Payload]]
      /\ blk \in Slots /\ wfb \in Frame /\ wfb.frag \in Frags /\ wfb.block \in Nat
  BY DEF GenuineInv, TypeInv, TypeOK, RingTypes, HandlerTypes, Frame
<1>4. CASE StoreRefused
  <2>1. /\ data' = [data EXCEPT ![blk][wfb.frag] = Garbage]
        /\ UNCHANGED <<used, len>> /\ pc' = "idle"
    BY <1>4 DEF StoreRefused, Return
  <2>2. StoredGenuine'
    BY <1>1, <1>2, <1>3, <2>1 DEF StoredGenuine
  <2>3. UsedCounts' /\ FreedSent'
    BY <1>1, <1>2, <2>1 DEF UsedCounts, FreedSent, Hung
  <2>4. BlockFound' /\ RecoveredGenuine'
    BY <2>1 DEF BlockFound, RecoveredGenuine
  <2> QED
    BY <1>2, <2>2, <2>3, <2>4 DEF StoredInv
<1>5. CASE Store
  <2>1. /\ data' = [data EXCEPT ![blk][wfb.frag] = wfb]
        /\ len' = [len EXCEPT ![blk] = @ \cup {wfb.frag}]
        /\ used' = [used EXCEPT ![blk] = @ + 1]
        /\ pc' \in {"seq", "purge"}
    BY <1>5 DEF Store, DataAdd, Goto
  <2>2. wfb.key = crypto_key /\ index[blk] = wfb.block
    BY <1>1, <1>2, <1>5 DEF Store, Authentic, BlockFound
  <2>3. wfb = [key |-> crypto_key, block |-> index[blk], frag |-> wfb.frag]
    BY <1>3, <2>2 DEF Frame
  <2>4. StoredGenuine'
    BY <1>1, <1>2, <1>3, <2>1, <2>3 DEF StoredGenuine
  <2>5. FreedSent'
    BY <1>1, <1>2, <1>3, <2>1, <2>2 DEF FreedSent, Hung, BLOCK_INVAL
  <2>6. UsedCounts'
    <3>1. IsFiniteSet(len[blk])
      <4>1. IsFiniteSet(Frags)
        BY FS_Interval, ReceiverAssumption DEF Frags
      <4> QED
        BY <4>1, <1>3, FS_Subset
    <3>2. Cardinality(len[blk] \cup {wfb.frag}) = Cardinality(len[blk]) + 1
      BY <3>1, <1>1, FS_AddElement
    <3> QED
      BY <1>2, <1>3, <2>1, <3>2 DEF UsedCounts
  <2>7. BlockFound' /\ RecoveredGenuine'
    BY <2>1 DEF BlockFound, RecoveredGenuine
  <2> QED
    BY <1>2, <2>4, <2>5, <2>6, <2>7 DEF StoredInv
<1> QED
  BY <1>4, <1>5

(* What send_data_any is about to send is genuine.                         *)
LEMMA SentGenuine ==
  ASSUME GenuineInv, NEW s \in Slots,
         \/ pc \notin Hung /\ Present(s)
         \/ pc = "recovered" /\ s = blk /\ to_send[s] < fec_k
  PROVE  data[s][to_send[s]] =
           [key |-> crypto_key, block |-> index[s], frag |-> to_send[s]]
<1>1. /\ to_send[s] \in Nat /\ fec_k \in 0 .. MaxFecN /\ MaxFecN \in Nat
      /\ StoredGenuine /\ FreedSent /\ RecoveredGenuine
  BY ReceiverAssumption
  DEF GenuineInv, TypeInv, TypeOK, RingTypes, SessionTypes, StoredInv
<1>2. CASE pc \notin Hung /\ Present(s)
  <2>1. to_send[s] \in len[s] /\ to_send[s] < fec_k
    BY <1>2 DEF Present
  <2>2. index[s] # BLOCK_INVAL
    BY <1>1, <1>2, <2>1 DEF FreedSent
  <2> QED
    BY <1>1, <2>1, <2>2 DEF StoredGenuine
<1>3. CASE pc = "recovered" /\ s = blk /\ to_send[s] < fec_k
  <2>1. to_send[s] \in Frags
    BY <1>1, <1>3 DEF Frags
  <2> QED
    BY <1>1, <1>3, <2>1 DEF RecoveredGenuine
<1> QED
  BY <1>2, <1>3

(* send_data_any, one turn.                                                *)
LEMMA StoredSend ==
  ASSUME GenuineInv, SendSeq \/ PurgeSend \/ SendRecovered \/ PurgeSkip
  PROVE  StoredInv' /\ Genuine'
<1>1. blk \in Slots /\ front \in Slots /\ to_send \in [Slots -> Nat]
      /\ out \in Seq(Delivered) /\ fec_k \in Nat
  BY DEF GenuineInv, TypeInv, TypeOK, RingTypes, HandlerTypes, SessionTypes
<1>2. PICK s \in Slots :
        /\ Advance(s) /\ pc \in {"seq", "purge", "recovered"}
        /\ UNCHANGED <<crypto_key, fec_k, index, used, len, data, pc, blk, wfb>>
        /\ \/ out' = out
           \/ /\ SendDataOne(s) /\ to_send[s] < fec_k
              /\ Present(s) \/ (pc = "recovered" /\ s = blk)
  <2>1. CASE SendSeq
    BY <1>1, <2>1 DEF SendSeq, sessionVars, windowVars, handlerVars, Present
  <2>2. CASE PurgeSend
    BY <1>1, <2>2 DEF PurgeSend, sessionVars, windowVars, handlerVars, Present
  <2>3. CASE PurgeSkip
    BY <1>1, <2>3 DEF PurgeSkip, sessionVars, windowVars, handlerVars
  <2>4. CASE SendRecovered
    BY <1>1, <2>4 DEF SendRecovered, sessionVars, windowVars, handlerVars
  <2> QED
    BY <2>1, <2>2, <2>3, <2>4
<1>3. \A t \in Slots : to_send'[t] \in Nat /\ to_send'[t] >= to_send[t]
  BY <1>1, <1>2 DEF Advance
<1>4. StoredGenuine /\ UsedCounts /\ FreedSent /\ RecoveredGenuine /\ Genuine
  BY DEF GenuineInv, StoredInv
<1>5. StoredGenuine' /\ UsedCounts'
  BY <1>2, <1>4 DEF StoredGenuine, UsedCounts
<1>6. FreedSent'
  BY <1>1, <1>2, <1>3, <1>4 DEF FreedSent, Hung
<1>7. BlockFound'
  BY <1>2 DEF BlockFound
<1>8. RecoveredGenuine'
  <2>1. \A f \in Frags : f \in Int
    BY ReceiverAssumption DEF Frags
  <2> QED
    BY <1>1, <1>2, <1>3, <1>4, <2>1 DEF RecoveredGenuine
<1>9. Genuine'
  <2>1. CASE out' = out
    BY <2>1, <1>2, <1>4 DEF Genuine
  <2>2. CASE out' # out
    <3> DEFINE x == [block |-> index[s], frag |-> to_send[s],
                     data |-> data[s][to_send[s]]]
    <3>1. out' = Append(out, x)
      BY <1>2, <2>2 DEF SendDataOne
    <3>2. x.data = [key |-> crypto_key, block |-> x.block, frag |-> x.frag]
      BY <1>2, <2>2, SentGenuine DEF Hung
    <3>3. x.frag < fec_k
      BY <1>2, <2>2
    <3> HIDE DEF x
    <3>4. \A i \in 1 .. Len(out') : out'[i] = x \/ (i \in 1 .. Len(out) /\ out'[i] = out[i])
      BY <1>1, <3>1
    <3> QED
      BY <1>2, <1>4, <3>2, <3>3, <3>4 DEF Genuine
  <2> QED
    BY <2>1, <2>2
<1> QED
  BY <1>5, <1>6, <1>7, <1>8, <1>9 DEF StoredInv

(* rbuf_free_block, of a block that has nothing left to send.              *)
LEMMA StoredFreed ==
  ASSUME GenuineInv, SeqComplete \/ PurgeFree \/ RecoveredDone
  PROVE  StoredInv' /\ Genuine'
<1>1. RingTypes /\ HandlerTypes /\ blk \in Slots /\ front \in Slots
  BY DEF GenuineInv, TypeInv, TypeOK, RingTypes, HandlerTypes
<1>2. PICK s \in Slots, l \in {"idle", "purge"} :
        /\ FreeBlock(s, l) /\ to_send[s] >= fec_k
        /\ UNCHANGED <<crypto_key, fec_k, used, to_send, len, data, out>>
        /\ pc \in {"seq", "purge", "recovered"}
  BY <1>1 DEF SeqComplete, PurgeFree, RecoveredDone, sessionVars, blockVars
<1>3. index' = [index EXCEPT ![s] = BLOCK_INVAL] /\ pc' \in {"freeing", l}
  BY <1>1, <1>2, FreeBlockType
<1>4. index \in [Slots -> 0 .. MaxBlockIdx \cup {BLOCK_INVAL}]
  BY <1>1 DEF RingTypes
<1>5. StoredGenuine /\ UsedCounts /\ FreedSent /\ Genuine
  BY DEF GenuineInv, StoredInv
<1>6. StoredGenuine' /\ UsedCounts'
  BY <1>2, <1>3, <1>4, <1>5 DEF StoredGenuine, UsedCounts
<1>7. FreedSent'
  BY <1>2, <1>3, <1>4, <1>5 DEF FreedSent, Hung
<1>8. BlockFound' /\ RecoveredGenuine'
  BY <1>2, <1>3 DEF BlockFound, RecoveredGenuine
<1>9. Genuine'
  BY <1>2, <1>5 DEF Genuine
<1> QED
  BY <1>6, <1>7, <1>8, <1>9 DEF StoredInv

(* data_add recovers a block that is in the ring.                          *)
LEMMA RecoverInRing ==
  ASSUME GenuineInv, Recover
  PROVE  index[blk] # BLOCK_INVAL
<1>1. /\ blk \in Slots /\ to_send[blk] \in Nat /\ fec_k \in Nat
      /\ UsedCounts /\ FreedSent
  BY DEF GenuineInv, TypeInv, TypeOK, RingTypes, HandlerTypes, SessionTypes, StoredInv
<1>2. pc = "fec" /\ to_send[blk] < fec_k /\ used[blk] = fec_k
  BY DEF Recover, Recoverable
<1>3. Cardinality(len[blk]) > 0
  BY <1>1, <1>2 DEF UsedCounts
<1>4. len[blk] # {}
  BY <1>3, FS_EmptySet
<1> QED
  BY <1>1, <1>2, <1>4 DEF FreedSent, Hung

(* data_recovery fills in the lost fragments, and touches no other.        *)
LEMMA StoredRecover ==
  ASSUME GenuineInv, Recover
  PROVE  StoredInv' /\ Genuine'
<1>1. /\ blk \in Slots /\ data \in [Slots -> [Frags -> Payload]]
      /\ len \in [Slots -> SUBSET Frags] /\ to_send[blk] \in Nat
      /\ fec_k \in Nat /\ \A f \in Frags : f \in Int
      /\ StoredGenuine /\ UsedCounts /\ FreedSent /\ Genuine
  <2>1. RingTypes /\ HandlerTypes /\ SessionTypes /\ StoredInv /\ Genuine
    BY DEF GenuineInv, TypeInv, TypeOK
  <2>2. /\ blk \in Slots /\ data \in [Slots -> [Frags -> Payload]]
        /\ len \in [Slots -> SUBSET Frags] /\ to_send[blk] \in Nat
        /\ fec_k \in Nat
    BY <2>1 DEF RingTypes, HandlerTypes, SessionTypes
  <2>3. \A f \in Frags : f \in Int
    BY ReceiverAssumption DEF Frags
  <2> QED
    BY <2>1, <2>2, <2>3 DEF StoredInv
<1>2. /\ pc = "fec" /\ pc' = "recovered"
      /\ to_send[blk] < fec_k /\ used[blk] = fec_k
      /\ UNCHANGED <<crypto_key, fec_k, index, used, to_send, len, out, blk>>
  BY DEF Recover, Recoverable, Goto, sessionVars, windowVars
<1>3. has_session_key
  BY <1>2 DEF GenuineInv, SessionInv, Hung
<1>4. index[blk] # BLOCK_INVAL
  BY RecoverInRing
<1>5. \A f \in Frags :
        Decoded(blk, f) = [key |-> crypto_key, block |-> index[blk], frag |-> f]
  BY <1>1, <1>2, <1>3, <1>4, Recovery
<1>6. \A s \in Slots, f \in Frags :
        /\ s # blk \/ f \notin Lost(blk) => data'[s][f] = data[s][f]
        /\ /\ \E i \in Lost(blk) : i >= to_send[blk]
           /\ s = blk /\ f \in Lost(blk)
           => data'[s][f] = Decoded(blk, f)
  BY <1>1 DEF Recover
<1>7. StoredGenuine'
  <2>1. ASSUME NEW s \in Slots, NEW f \in len[s]
        PROVE  data'[s][f] = data[s][f]
    BY <1>1, <1>6, <2>1 DEF Lost
  <2> QED
    BY <1>1, <1>2, <2>1 DEF StoredGenuine
<1>8. UsedCounts' /\ FreedSent' /\ BlockFound'
  BY <1>1, <1>2 DEF UsedCounts, FreedSent, BlockFound, Hung
<1>9. RecoveredGenuine'
  <2>1. ASSUME NEW f \in Frags, f >= to_send[blk], f < fec_k
        PROVE  data'[blk][f] = [key |-> crypto_key, block |-> index[blk], frag |-> f]
    <3>1. CASE f \in len[blk]
      BY <1>1, <1>4, <1>6, <3>1 DEF StoredGenuine, Lost
    <3>2. CASE f \notin len[blk]
      <4>1. f \in Lost(blk)
        BY <1>1, <2>1, <3>2 DEF Lost, Frags
      <4> QED
        BY <1>1, <1>5, <1>6, <2>1, <4>1
    <3> QED
      BY <3>1, <3>2
  <2> QED
    BY <1>2, <2>1 DEF RecoveredGenuine
<1>10. Genuine'
  BY <1>1, <1>2 DEF Genuine
<1> QED
  BY <1>7, <1>8, <1>9, <1>10 DEF StoredInv

LEMMA GenuineStep == GenuineInv /\ [Next]_vars => GenuineInv'
<1> SUFFICES ASSUME GenuineInv, [Next]_vars PROVE StoredInv' /\ Genuine'
  BY TypeStep, SessionStep DEF GenuineInv
<1>1. StoredInv /\ Genuine
  BY DEF GenuineInv
<1>2. CASE StoreDuplicate \/ SeqBlocked \/ PurgeDone \/ WaitForMore
  <2>1. /\ UNCHANGED <<crypto_key, fec_k, index, used, to_send, len, data, out>>
        /\ pc \notin Hung /\ pc' \in {"idle", "fec"}
    BY <1>2 DEF StoreDuplicate, SeqBlocked, PurgeDone, WaitForMore, Goto, Return,
       sessionVars, ringVars, windowVars, blockVars, Hung
  <2> QED
    BY <1>1, <2>1, StoredKept
<1>3. CASE UNCHANGED vars \/ FecToggle \/ Spin
  <2>1. UNCHANGED <<crypto_key, fec_k, index, used, to_send, len, data, out,
                    pc, wfb, blk, turn, new_blocks>>
    BY <1>3 DEF FecToggle, Spin, vars, sessionVars, ringVars, windowVars,
                blockVars, handlerVars
  <2> QED
    BY <1>1, <2>1 DEF StoredInv, StoredGenuine, UsedCounts, FreedSent,
       BlockFound, RecoveredGenuine, Genuine
<1> QED
  BY <1>2, <1>3, StoredRekeyed, StoredFrame, StoredAlloc, StoredStore,
     StoredSend, StoredFreed, StoredRecover DEF Next, Work, Hang

(* Every fragment handed on, received or rebuilt, is the one the           *)
(* transmitter sent at that block and fragment of the session in use, for  *)
(* every ring size, code and order of arrival, and whether or not the      *)
(* bookkeeping of the ring went wrong on the way.                          *)
THEOREM GenuineDelivery == Spec => []Genuine
<1>1. Init => GenuineInv
  BY InitType, SessionInit, StoredInit DEF GenuineInv
<1>2. GenuineInv => Genuine
  BY DEF GenuineInv
<1> QED
  BY <1>1, <1>2, GenuineStep, PTL DEF Spec

-----------------------------------------------------------------------------
(* The closed forms of RingBuffer are what the loops of util_rbuf.c        *)
(* compute, turn by turn, from any ring.                                   *)

(* Every turn of a loop is at a slot that one of the first RingSize turns  *)
(* is at.                                                                  *)
LEMMA TurnsOfALap ==
  ASSUME NEW fst \in Slots, NEW n \in Nat
  PROVE  \E d \in Slots : At(fst, d) = At(fst, n) /\ d <= n
<1>1. At(fst, n) \in Slots
  BY AtType
<1>2. CASE n < RingSize
  BY <1>2, SlotsType
<1>3. CASE ~(n < RingSize)
  <2>1. PICK d \in Slots : At(fst, d) = At(fst, n)
    BY <1>1, AtBijective
  <2> QED
    BY <1>3, <2>1, SlotsType
<1> QED
  BY <1>2, <1>3

LEMMA ModOfLaps ==
  ASSUME NEW m \in Nat \ {0}, NEW q \in Nat, NEW r \in 0 .. m - 1
  PROVE  (q * m + r) % m = r
<1> DEFINE x == q * m + r
           a == x \div m
           b == x % m
<1>1. x \in Nat
  OBVIOUS
<1>2. a \in Int /\ b \in 0 .. m - 1 /\ x = a * m + b
  BY <1>1
<1>3. x = q * m + r
  OBVIOUS
<1> HIDE DEF a, b, x
<1>4. CASE a < q
  <2>1. (q - a - 1) * m >= 0
    BY <1>2, <1>4
  <2> QED
    BY <1>2, <1>3, <2>1
<1>5. CASE a > q
  <2>1. (a - q - 1) * m >= 0
    BY <1>2, <1>5
  <2> QED
    BY <1>2, <1>3, <2>1
<1>6. CASE a = q
  BY <1>2, <1>3, <1>6 DEF b, x
<1> QED
  BY <1>2, <1>4, <1>5, <1>6

(* The next slot, any number of laps on.                                   *)
LEMMA AtSucc ==
  ASSUME NEW fst \in Slots, NEW n \in Nat
  PROVE  (At(fst, n) + 1) % RingSize = At(fst, n + 1)
<1>1. RingSize \in Nat /\ RingSize >= 2 /\ fst \in Nat
  BY RingAssumption DEF Slots
<1> DEFINE q == (fst + n) \div RingSize
           r == (fst + n) % RingSize
<1>2. q \in Nat /\ r \in 0 .. RingSize - 1 /\ fst + n = q * RingSize + r
  BY <1>1
<1> HIDE DEF q, r
<1>3. CASE r + 1 < RingSize
  <2>1. (r + 1) % RingSize = r + 1
    BY <1>1, <1>2, <1>3
  <2>2. r + 1 \in 0 .. RingSize - 1 /\ fst + n + 1 = q * RingSize + (r + 1)
    BY <1>1, <1>2, <1>3
  <2>3. RingSize \in Nat \ {0}
    BY <1>1
  <2>4. (q * RingSize + (r + 1)) % RingSize = r + 1
    BY <1>2, <2>2, <2>3, ModOfLaps
  <2> QED
    BY <1>1, <1>2, <2>1, <2>2, <2>4 DEF At, r
<1>4. CASE r + 1 = RingSize
  <2>1. (r + 1) % RingSize = 0
    BY <1>1, <1>4
  <2>2. ((q + 1) * RingSize) % RingSize = 0
    BY <1>1, <1>2
  <2>3. fst + n + 1 = (q + 1) * RingSize
    BY <1>1, <1>2, <1>4
  <2> QED
    BY <1>1, <1>2, <2>1, <2>2, <2>3 DEF At, r
<1> QED
  BY <1>1, <1>2, <1>3, <1>4

LoopTypes ==
  /\ loop \in {"search", "free"}
  /\ front0 \in Slots
  /\ alloc0 \in 0 .. SizeMod - 1

(* The turns of the search so far have not met the block.                  *)
SearchedTurns ==
  loop = "search" =>
    /\ ring_front = front0 /\ ring_alloc = alloc0
    /\ counter \in Nat
    /\ result = <<"running">> =>
         \A d \in Nat : d < counter => ring_index[At(front0, d)] # asked

(* After k turns the freeing loop has met k empty slots.                   *)
FreedTurns(k) ==
  /\ k < Turns(alloc0)
  /\ ring_front = At(front0, k)
  /\ ring_alloc = (Turns(alloc0) - k) % SizeMod
  /\ \A d \in Nat : d < k => ring_index[At(front0, d)] = BLOCK_INVAL

FreeTurns ==
  loop = "free" /\ result = <<"running">> => \E k \in Nat : FreedTurns(k)

LoopInv ==
  LoopTypes /\ SearchedTurns /\ FreeTurns /\ SearchAgrees /\ FreeAgrees

LEMMA LoopInit == LoopsInit => LoopInv
<1> SUFFICES ASSUME LoopsInit PROVE LoopInv
  OBVIOUS
<1>1. LoopTypes
  BY DEF LoopsInit, LoopTypes
<1>2. SearchedTurns
  BY DEF LoopsInit, SearchedTurns
<1>3. FreeTurns
  <2>1. /\ alloc0 \in 0 .. SizeMod - 1 /\ SizeMod \in Nat /\ SizeMod > 0
        /\ ring_front = front0 /\ ring_alloc = alloc0
    BY RingAssumption DEF LoopsInit
  <2>2. ring_alloc = (Turns(alloc0) - 0) % SizeMod /\ 0 < Turns(alloc0)
    BY <2>1 DEF Turns
  <2>3. ring_front = At(front0, 0)
    BY <1>1, <2>1, AtLast DEF LoopTypes
  <2>4. FreedTurns(0)
    BY <2>2, <2>3 DEF FreedTurns
  <2> QED
    BY <2>4 DEF FreeTurns
<1>4. result = <<"running">>
  BY DEF LoopsInit
<1> QED
  BY <1>1, <1>2, <1>3, <1>4 DEF LoopInv, SearchAgrees, FreeAgrees

(* A search that ends has met the first slot of the block, or none.        *)
LEMMA SearchKeeps ==
  ASSUME LoopInv, Search
  PROVE  LoopInv'
<1> DEFINE hits == Hits(front0, alloc0, ring_index, asked)
           idx == At(front0, counter)
<1>1. /\ loop = "search" /\ result = <<"running">>
      /\ UNCHANGED <<loop, front0, alloc0, ring_index, asked, ring_front, ring_alloc>>
  BY DEF Search
<1>2. /\ front0 \in Slots /\ alloc0 \in Nat /\ counter \in Nat
      /\ ring_front = front0 /\ ring_alloc = alloc0
      /\ \A d \in Nat : d < counter => ring_index[At(front0, d)] # asked
  BY <1>1, RingAssumption DEF LoopInv, LoopTypes, SearchedTurns
<1>3. LoopTypes' /\ FreeTurns' /\ FreeAgrees'
  BY <1>1 DEF LoopInv, LoopTypes, FreeTurns, FreeAgrees
<1>4. \/ counter < alloc0 /\ ring_index[idx] = asked /\ result' = <<"found", idx>> /\ counter' = counter
      \/ counter < alloc0 /\ ring_index[idx] # asked /\ counter' = counter + 1 /\ result' = result
      \/ counter >= alloc0 /\ result' = <<"ended">> /\ counter' = counter
  BY <1>2 DEF Search, At
<1>5. CASE counter < alloc0 /\ ring_index[idx] = asked /\ result' = <<"found", idx>> /\ counter' = counter
  <2>1. PICK d \in Slots : At(front0, d) = idx /\ d <= counter
    BY <1>2, TurnsOfALap
  <2>2. d = counter
    BY <1>2, <1>5, <2>1, SlotsType
  <2>3. counter \in hits
    BY <1>5, <2>1, <2>2 DEF Hits
  <2>4. \A e \in hits : counter <= e
    BY <1>2, SlotsType DEF Hits
  <2>5. hits \subseteq Nat
    BY SlotsType DEF Hits
  <2>6. Min(hits) = counter
    BY <1>2, <2>3, <2>4, <2>5, MinNat
  <2>7. result' = <<"found", FirstHit(front0, alloc0, ring_index, asked)>>
    BY <1>5, <2>6 DEF FirstHit
  <2>8. SearchAgrees'
    BY <1>1, <2>3, <2>7 DEF SearchAgrees
  <2>9. SearchedTurns'
    BY <1>1, <1>2, <1>5 DEF SearchedTurns
  <2> QED
    BY <1>3, <2>8, <2>9 DEF LoopInv
<1>6. CASE counter < alloc0 /\ ring_index[idx] # asked /\ counter' = counter + 1 /\ result' = result
  <2>1. \A d \in Nat : d < counter + 1 => ring_index[At(front0, d)] # asked
    BY <1>2, <1>6
  <2>2. SearchedTurns'
    BY <1>1, <1>2, <1>6, <2>1 DEF SearchedTurns
  <2> QED
    BY <1>1, <1>3, <1>6, <2>2 DEF LoopInv, SearchAgrees
<1>7. CASE counter >= alloc0 /\ result' = <<"ended">> /\ counter' = counter
  <2>1. hits = {}
    BY <1>2, <1>7, SlotsType DEF Hits
  <2>2. SearchAgrees'
    BY <1>1, <1>7, <2>1 DEF SearchAgrees
  <2>3. SearchedTurns'
    BY <1>1, <1>2, <1>7 DEF SearchedTurns
  <2> QED
    BY <1>3, <2>2, <2>3 DEF LoopInv
<1> QED
  BY <1>4, <1>5, <1>6, <1>7

(* A freeing loop that ends has met the first slot in use, or counted its  *)
(* turns down to zero.                                                     *)
LEMMA FreeKeeps ==
  ASSUME LoopInv, Free
  PROVE  LoopInv'
<1> DEFINE less == (ring_alloc - 1) % SizeMod
           used0 == InUse(front0, ring_index)
           turns == Turns(alloc0)
<1>1. /\ loop = "free" /\ result = <<"running">>
      /\ UNCHANGED <<loop, front0, alloc0, ring_index, asked, counter>>
  BY DEF Free
<1>2. /\ front0 \in Slots /\ alloc0 \in 0 .. SizeMod - 1
  BY <1>1, RingAssumption DEF LoopInv, LoopTypes
<1>3. LoopTypes' /\ SearchedTurns' /\ SearchAgrees'
  BY <1>1 DEF LoopInv, LoopTypes, SearchedTurns, SearchAgrees
<1>4. PICK k \in Nat : FreedTurns(k)
  BY <1>1 DEF LoopInv, FreeTurns
<1>5. turns \in 1 .. SizeMod /\ SizeMod \in Nat
  BY <1>2, RingAssumption DEF Turns
<1> HIDE DEF turns
<1>6. k < turns /\ ring_front = At(front0, k) /\ ring_alloc = (turns - k) % SizeMod
      /\ \A d \in Nat : d < k => ring_index[At(front0, d)] = BLOCK_INVAL
  BY <1>4 DEF FreedTurns, turns
<1>7. less = turns - k - 1
  <2>1. CASE turns - k = SizeMod
    <3>1. ring_alloc = 0
      BY <1>5, <1>6, <2>1
    <3>2. (0 - 1) % SizeMod = SizeMod - 1
      BY <1>5
    <3> QED
      BY <2>1, <3>1, <3>2
  <2>2. CASE turns - k < SizeMod
    <3>1. ring_alloc = turns - k
      BY <1>5, <1>6, <2>2
    <3>2. turns - k - 1 \in 0 .. SizeMod - 1
      BY <1>5, <1>6, <2>2
    <3> QED
      BY <1>5, <3>1, <3>2
  <2> QED
    BY <1>5, <1>6, <2>1, <2>2
<1> HIDE DEF less
<1>8. \/ ring_index[ring_front] # BLOCK_INVAL /\ result' = <<"ended">> /\ ring_front' = ring_front /\ ring_alloc' = ring_alloc
      \/ ring_index[ring_front] = BLOCK_INVAL /\ less = 0 /\ ring_alloc' = 0 /\ result' = <<"ended">> /\ ring_front' = ring_front
      \/ /\ ring_index[ring_front] = BLOCK_INVAL /\ less # 0 /\ ring_alloc' = less
         /\ ring_front' = (ring_front + 1) % RingSize /\ result' = result
  BY DEF Free, less
<1>9. used0 \subseteq Nat
  BY SlotsType DEF InUse
<1>10. CASE ring_index[ring_front] # BLOCK_INVAL /\ result' = <<"ended">> /\ ring_front' = ring_front /\ ring_alloc' = ring_alloc
  <2>1. PICK d \in Slots : At(front0, d) = ring_front /\ d <= k
    BY <1>2, <1>6, TurnsOfALap
  <2>2. d = k
    BY <1>6, <1>10, <2>1, SlotsType
  <2>3. k \in used0
    BY <1>10, <2>1, <2>2 DEF InUse
  <2>4. \A e \in used0 : k <= e
    BY <1>6, SlotsType DEF InUse
  <2>5. Min(used0) = k
    BY <1>9, <2>3, <2>4, MinNat
  <2>6. FrontMeets(front0, alloc0, ring_index)
    BY <1>6, <2>3, <2>5 DEF FrontMeets, turns
  <2>7. FreeAgrees'
    BY <1>1, <1>6, <1>10, <2>5, <2>6 DEF FreeAgrees, FreedFront, FreedAlloc, turns
  <2> QED
    BY <1>3, <1>10, <2>7 DEF LoopInv, FreeTurns
<1>11. CASE ring_index[ring_front] = BLOCK_INVAL /\ less = 0 /\ ring_alloc' = 0 /\ result' = <<"ended">> /\ ring_front' = ring_front
  <2>1. k = turns - 1
    BY <1>5, <1>7, <1>11
  <2>2. \A d \in Nat : d < turns => ring_index[At(front0, d)] = BLOCK_INVAL
    BY <1>5, <1>6, <1>11, <2>1
  <2>3. ~FrontMeets(front0, alloc0, ring_index)
    <3> SUFFICES ASSUME FrontMeets(front0, alloc0, ring_index) PROVE FALSE
      OBVIOUS
    <3>1. Min(used0) \in used0 /\ Min(used0) < turns
      BY <1>9, MinNat DEF FrontMeets, turns
    <3> QED
      BY <2>2, <3>1, SlotsType DEF InUse
  <2>4. FreeAgrees'
    BY <1>1, <1>6, <1>11, <2>1, <2>3 DEF FreeAgrees, FreedFront, FreedAlloc, turns
  <2> QED
    BY <1>3, <1>11, <2>4 DEF LoopInv, FreeTurns
<1>12. CASE /\ ring_index[ring_front] = BLOCK_INVAL /\ less # 0 /\ ring_alloc' = less
            /\ ring_front' = (ring_front + 1) % RingSize /\ result' = result
  <2>1. k + 1 \in Nat /\ k + 1 < turns
    BY <1>5, <1>6, <1>7, <1>12
  <2>2. ring_front' = At(front0, k + 1)
    BY <1>2, <1>6, <1>12, AtSucc
  <2>3. ring_alloc' = (turns - (k + 1)) % SizeMod
    <3>1. turns - (k + 1) \in 0 .. SizeMod - 1
      BY <1>5, <2>1
    <3> QED
      BY <1>5, <1>7, <1>12, <3>1
  <2>4. \A d \in Nat : d < k + 1 => ring_index[At(front0, d)] = BLOCK_INVAL
    BY <1>6, <1>12
  <2>5. FreedTurns(k + 1)'
    BY <1>1, <2>1, <2>2, <2>3, <2>4 DEF FreedTurns, turns
  <2>6. FreeTurns'
    BY <2>1, <2>5 DEF FreeTurns
  <2> QED
    BY <1>1, <1>3, <1>12, <2>6 DEF LoopInv, FreeAgrees
<1> QED
  BY <1>8, <1>10, <1>11, <1>12

LEMMA LoopStep == LoopInv /\ [LoopsNext]_loopVars => LoopInv'
<1> SUFFICES ASSUME LoopInv, [LoopsNext]_loopVars PROVE LoopInv'
  OBVIOUS
<1>1. CASE UNCHANGED loopVars
  BY <1>1 DEF loopVars, LoopInv, LoopTypes, SearchedTurns, FreeTurns, FreedTurns,
              SearchAgrees, FreeAgrees
<1> QED
  BY <1>1, SearchKeeps, FreeKeeps DEF LoopsNext

(* For every ring size, width of the counter and content of the ring, the  *)
(* search of rbuf_get_block, run turn by turn, returns what RingBuffer     *)
(* says: the first slot of the block in the laps it makes, or none.        *)
THEOREM SearchComputed == LoopsSpec => []SearchAgrees
<1>1. LoopInv => SearchAgrees
  BY DEF LoopInv
<1> QED
  BY <1>1, LoopInit, LoopStep, PTL DEF LoopsSpec

(* The same of the loop of rbuf_free_block: where it ends, ring_front and  *)
(* ring_alloc are what RingBuffer says, also when the counter started at   *)
(* zero and wrapped.                                                       *)
THEOREM FreeComputed == LoopsSpec => []FreeAgrees
<1>1. LoopInv => FreeAgrees
  BY DEF LoopInv
<1> QED
  BY <1>1, LoopInit, LoopStep, PTL DEF LoopsSpec

=============================================================================
