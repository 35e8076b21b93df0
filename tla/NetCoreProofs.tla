--------------------------- MODULE NetCoreProofs ---------------------------
(***************************************************************************)
(* Proofs about the event loop, for any number of descriptors, any choice  *)
(* of -e, -E, -w and -l, and whether or not event_new may fail.            *)
(***************************************************************************)
EXTENDS NetCore, WellFoundedInduction, TLAPS

Handles == Fds \cup {None}

NetTypes ==
  /\ main \in MainLabels /\ net \in NetLabels
  /\ error \in BOOLEAN /\ reload \in BOOLEAN
  /\ stopped \in BOOLEAN /\ base \in BOOLEAN
  /\ reload_hooks \in Seq(Hooks) /\ todo \in Seq(Hooks)
  /\ ipc_sock \in Handles /\ rx_sock \in Handles
  /\ tx_sock \in Handles /\ pcap_fd \in Handles
  /\ leaked \in SUBSET Fds

(* A descriptor has one owner, and an event is set on its owner's.         *)
Apart ==
  /\ ipc_ev = ipc_sock
  /\ rx_ev = rx_sock
  /\ pcap_ev = pcap_fd
  /\ ipc_sock # None => ipc_sock \notin leaked \cup {rx_sock, tx_sock, pcap_fd}
  /\ rx_sock # None => rx_sock \notin leaked \cup {tx_sock, pcap_fd}
  /\ tx_sock # None => tx_sock \notin leaked \cup {pcap_fd}
  /\ pcap_fd # None => pcap_fd \notin leaked

Before == {"ipc", "tx", "decoder", "pcap", "rx", "start"}

After == {"player", "rx_down", "tx_down", "pcap_down", "cancel", "free",
          "exited"}

(* Where _main is tells whether the netcore thread may run ...             *)
ThreadPhase ==
  /\ main \in Before => net = "none"
  /\ main \in After => net \in {"dead", "none"}
  /\ stopped => main \in After

(* ... and what has been taken down, which the control socket never is.    *)
Taken ==
  /\ main \notin {"ipc", "failed"} => ipc_sock # None
  /\ main \in After \ {"player", "rx_down"} => rx_sock = None
  /\ main \in {"cancel", "free", "exited"} => pcap_fd = None
  /\ ~base => main = "exited"

(* netinet_rx_initialize is the last to add a hook, so that its hook is    *)
(* the first of every pass: a receiver without a socket has its hook still *)
(* to run, or error set, or, between two passes, reload set.               *)
Retried ==
  RxWired =>
    /\ main \notin {"ipc", "tx", "decoder", "pcap", "rx", "failed"} =>
         reload_hooks # <<>> /\ Head(reload_hooks) = "rx"
    /\ main = "start" => rx_sock # None
    /\ net = "loop" /\ rx_sock = None => reload
    /\ net = "hooks" /\ rx_sock = None => error \/ todo = reload_hooks
    /\ net \in {"loop", "hooks"} => main \in {"join", "check", "wait"}

NetInv == NetTypes /\ Apart /\ ThreadPhase /\ Taken /\ Retried

-----------------------------------------------------------------------------
(* Descriptors                                                             *)

LEMMA NoneNotFd == None \notin Fds
BY NetCoreAssumption DEF None

(* A descriptor that is free belongs to nobody else.                       *)
LEMMA FreeFd ==
  ASSUME NEW own
  PROVE  /\ Free(own) \in SUBSET Fds
         /\ Free(own) \cap leaked = {}
         /\ \A fd \in Free(own) :
              fd \in {ipc_sock, rx_sock, tx_sock, pcap_fd} => fd \in own
BY DEF Free

(* The lowest free descriptor exists and is free.                          *)
LEMMA LowestFree ==
  ASSUME NEW free \in SUBSET Fds, free # {}
  PROVE  Lowest(free) \in free
<1> DEFINE R == OpToRel(<, Nat)
<1>1. IsWellFoundedOn(R, Nat)
  BY NatLessThanWellFounded
<1>2. \A x, y \in Nat : <<x, y>> \in R <=> x < y
  BY DEF R, OpToRel
<1>3. free \subseteq Nat
  BY NetCoreAssumption
<1> HIDE DEF R
<1>4. PICK x \in free : \A y \in free : ~ (<<y, x>> \in R)
  BY <1>1, <1>3, WFMin
<1>5. \A y \in free : ~ (y < x)
  BY <1>2, <1>3, <1>4
<1>6. \A y \in free : x <= y
  BY <1>3, <1>5
<1> QED
  BY <1>6 DEF Lowest, Min

(* A socket is made of a free descriptor, or one is lost, never both.      *)
LEMMA InetSocketFree ==
  ASSUME NEW dev, NEW free \in SUBSET Fds
  PROVE  /\ InetSocket(dev, free).fd \in free \cup {None}
         /\ InetSocket(dev, free).lost \in SUBSET free
         /\ InetSocket(dev, free).fd # None => InetSocket(dev, free).lost = {}
<1>1. CASE free = {}
  BY <1>1 DEF InetSocket
<1>2. CASE free # {} /\ Attaches(dev)
  BY <1>2, LowestFree DEF InetSocket
<1>3. CASE free # {} /\ ~Attaches(dev)
  BY <1>3, LowestFree DEF InetSocket
<1> QED
  BY <1>1, <1>2, <1>3

(* Either hook leaves every descriptor with one owner.                     *)
LEMMA RxOpened ==
  ASSUME NetTypes, Apart, NEW ok, RxSocketOpen(ok),
         UNCHANGED <<ipcVars, tx_sock, pcapVars>>
  PROVE  /\ rx_sock' \in Handles /\ leaked' \in SUBSET Fds
         /\ Apart'
         /\ ok = (rx_sock' # None)
<1> DEFINE free == Free({rx_sock})
           got == InetSocket("rx", free)
<1>0. free \in SUBSET Fds
  BY FreeFd
<1>1. /\ got.fd \in free \cup {None} /\ got.lost \in SUBSET free
      /\ got.fd # None => got.lost = {}
  BY <1>0, InetSocketFree
<1>2. /\ leaked' = leaked \cup got.lost
      /\ rx_sock' = got.fd \/ rx_sock' = None
      /\ rx_ev' = rx_sock'
      /\ ok = (rx_sock' # None)
  BY DEF RxSocketOpen
<1> HIDE DEF got
<1>3. rx_sock' \in Handles /\ leaked' \in SUBSET Fds
  BY <1>0, <1>1, <1>2 DEF NetTypes, Handles
<1>4. Apart'
  BY <1>1, <1>2, FreeFd DEF Apart, ipcVars, pcapVars
<1> QED
  BY <1>2, <1>3, <1>4

LEMMA TxOpened ==
  ASSUME NetTypes, Apart, NEW ok, TxSocketOpen(ok),
         UNCHANGED <<ipcVars, rxVars, pcapVars>>
  PROVE  /\ tx_sock' \in Handles /\ leaked' \in SUBSET Fds
         /\ Apart'
<1> DEFINE free == Free({tx_sock})
           got == InetSocket("tx", free)
<1>0. free \in SUBSET Fds
  BY FreeFd
<1>1. /\ got.fd \in free \cup {None} /\ got.lost \in SUBSET free
      /\ got.fd # None => got.lost = {}
  BY <1>0, InetSocketFree
<1>2. leaked' = leaked \cup got.lost /\ tx_sock' = got.fd
  BY DEF TxSocketOpen
<1> HIDE DEF got
<1>3. tx_sock' \in Handles /\ leaked' \in SUBSET Fds
  BY <1>0, <1>1, <1>2 DEF NetTypes, Handles
<1>4. Apart'
  BY <1>1, <1>2, FreeFd DEF Apart, ipcVars, pcapVars, rxVars
<1> QED
  BY <1>3, <1>4

-----------------------------------------------------------------------------
(* Every step keeps the invariant.                                         *)

LEMMA InitNet == ASSUME Init PROVE NetInv
<1>0. <<>> \in Seq(Hooks)
  OBVIOUS
<1>1. NetTypes
  BY <1>0 DEF Init, NetTypes, Handles, MainLabels, NetLabels
<1>2. Apart /\ ThreadPhase /\ Taken /\ Retried
  BY DEF Init, Apart, ThreadPhase, Taken, Retried, Before, After
<1> QED
  BY <1>1, <1>2 DEF NetInv

(* A hook is added at the head of the list.                                *)
LEMMA HookAdded ==
  ASSUME NEW hooks \in Seq(Hooks), NEW hook \in Hooks
  PROVE  /\ <<hook>> \o hooks \in Seq(Hooks)
         /\ <<hook>> \o hooks # <<>>
         /\ Head(<<hook>> \o hooks) = hook
<1>1. <<hook>> \in Seq(Hooks) /\ Len(<<hook>>) = 1 /\ <<hook>>[1] = hook
  OBVIOUS
<1>2. /\ <<hook>> \o hooks \in Seq(Hooks)
      /\ Len(<<hook>> \o hooks) = 1 + Len(hooks)
      /\ (<<hook>> \o hooks)[1] = hook
  BY <1>1
<1>3. Len(<<hook>> \o hooks) > 0
  BY <1>2
<1> QED
  BY <1>2, <1>3

(* ipc_rx_initialize *)
LEMMA MainIpcNet == ASSUME NetInv, MainIpc PROVE NetInv'
<1> USE DEF NetInv
<1>1. \/ UNCHANGED ipcVars /\ main' = "failed"
      \/ Free({}) # {} /\ ipc_sock' = Lowest(Free({})) /\ ipc_ev' = ipc_sock'
  BY DEF MainIpc
<1>2. Free({}) # {} => Lowest(Free({})) \in Free({})
  BY LowestFree, FreeFd
<1>3. NetTypes'
  BY <1>1, <1>2, FreeFd DEF MainIpc, NetTypes, Handles, MainLabels, coreVars,
                            passVars, ipcVars, rxVars, pcapVars
<1>4. Apart'
  BY <1>1, <1>2, FreeFd DEF MainIpc, NetTypes, Apart, ipcVars, rxVars,
                            pcapVars
<1>5. ThreadPhase' /\ Taken' /\ Retried'
  BY <1>1, <1>2, FreeFd, NoneNotFd
  DEF MainIpc, ThreadPhase, Taken, Retried, Before, After, coreVars
<1> QED
  BY <1>3, <1>4, <1>5

(* netinet_tx_initialize, the first to add a hook.                         *)
LEMMA MainTxNet == ASSUME NetInv, MainTx PROVE NetInv'
<1> USE DEF NetInv
<1>1. NetTypes' /\ Apart'
  <2>1. CASE TxWired
    <3>1. PICK ok \in BOOLEAN : TxSocketOpen(ok)
      BY <2>1 DEF MainTx
    <3>2. tx_sock' \in Handles /\ leaked' \in SUBSET Fds /\ Apart'
      BY <3>1, TxOpened DEF MainTx
    <3>3. reload_hooks' \in Seq(Hooks)
      BY <2>1, HookAdded DEF MainTx, HookAdd, NetTypes, Hooks
    <3> QED
      BY <3>2, <3>3 DEF MainTx, NetTypes, MainLabels, coreVars, passVars,
                        ipcVars, rxVars, pcapVars
  <2>2. CASE ~TxWired
    BY <2>2 DEF MainTx, NetTypes, Apart, MainLabels, coreVars, passVars,
                ipcVars, rxVars, pcapVars
  <2> QED
    BY <2>1, <2>2
<1>2. ThreadPhase' /\ Taken' /\ Retried'
  BY DEF MainTx, ThreadPhase, Taken, Retried, Before, After, coreVars,
         ipcVars
<1> QED
  BY <1>1, <1>2

(* netpcap_initialize *)
LEMMA MainPcapNet == ASSUME NetInv, MainPcap PROVE NetInv'
<1> USE DEF NetInv
<1> DEFINE free == Free({pcap_fd})
<1>1. \/ UNCHANGED pcapVars
      \/ free # {} /\ pcap_fd' = Lowest(free) /\ pcap_ev' = pcap_fd'
  BY DEF MainPcap
<1>2. free # {} => Lowest(free) \in free
  BY LowestFree, FreeFd
<1>3. NetTypes'
  BY <1>1, <1>2, FreeFd DEF MainPcap, NetTypes, Handles, MainLabels, coreVars,
                            passVars, ipcVars, rxVars, pcapVars
<1>4. Apart'
  BY <1>1, <1>2, FreeFd DEF MainPcap, NetTypes, Apart, ipcVars, rxVars,
                            pcapVars
<1>5. ThreadPhase' /\ Taken' /\ Retried'
  BY DEF MainPcap, ThreadPhase, Taken, Retried, Before, After, coreVars,
         ipcVars
<1> QED
  BY <1>3, <1>4, <1>5

(* netinet_rx_initialize: its hook goes to the front, and the program goes *)
(* on only with a socket.                                                  *)
LEMMA MainRxNet == ASSUME NetInv, MainRx PROVE NetInv'
<1> USE DEF NetInv
<1>1. CASE RxWired
  <2>1. PICK ok \in BOOLEAN :
          RxSocketOpen(ok) /\ main' = IF ok THEN "start" ELSE "failed"
    BY <1>1 DEF MainRx
  <2>2. /\ rx_sock' \in Handles /\ leaked' \in SUBSET Fds /\ Apart'
        /\ ok = (rx_sock' # None)
    BY <2>1, RxOpened DEF MainRx
  <2>3. /\ reload_hooks' \in Seq(Hooks) /\ reload_hooks' # <<>>
        /\ Head(reload_hooks') = "rx"
    BY <1>1, HookAdded DEF MainRx, HookAdd, NetTypes, Hooks
  <2>4. NetTypes'
    BY <2>1, <2>2, <2>3 DEF MainRx, NetTypes, MainLabels, coreVars, passVars,
                            ipcVars, pcapVars
  <2>5. ThreadPhase' /\ Taken'
    BY <2>1 DEF MainRx, ThreadPhase, Taken, Before, After, coreVars, ipcVars, pcapVars
  <2>6. Retried'
    BY <2>1, <2>2, <2>3 DEF MainRx, Retried, ThreadPhase, Before
  <2> QED
    BY <2>2, <2>4, <2>5, <2>6
<1>2. CASE ~RxWired
  BY <1>2 DEF MainRx, NetTypes, Apart, ThreadPhase, Taken, Retried, MainLabels,
              Before, After, coreVars, passVars, ipcVars, rxVars, pcapVars
<1> QED
  BY <1>1, <1>2

LEMMA MainStartNet == ASSUME NetInv, MainDecoder \/ MainStart PROVE NetInv'
BY DEF MainDecoder, MainStart, NetInv, NetTypes, Apart, ThreadPhase, Taken,
       Retried, MainLabels, NetLabels, Before, After, coreVars, passVars, sockVars,
       ipcVars, rxVars, pcapVars

(* The handlers of the loop, but for the watchdog's.                       *)
LEMMA HandlersNet ==
  ASSUME NetInv, CatchHup \/ Hup \/ Term \/ RxOrTxFails PROVE NetInv'
<1> USE DEF CatchHup, Hup, Term, RxOrTxFails, coreVars, passVars, sockVars,
            ipcVars, rxVars, pcapVars
<1>1. NetTypes' /\ Apart'
  BY DEF NetInv, NetTypes, Apart
<1>2. ThreadPhase' /\ Taken'
  BY DEF NetInv, ThreadPhase, Taken
<1>3. Retried'
  BY DEF NetInv, Retried
<1> QED
  BY <1>1, <1>2, <1>3 DEF NetInv

(* A pass begins with every hook to run ...                                *)
LEMMA WdtStartNet == ASSUME NetInv, WdtStart PROVE NetInv'
BY DEF WdtStart, Dispatch, NetInv, NetTypes, Apart, ThreadPhase, Taken,
       Retried, NetLabels, Before, After, sockVars, ipcVars, rxVars, pcapVars

(* ... a hook that fails sets error, and no later one clears it ...        *)
LEMMA WdtHookNet == ASSUME NetInv, WdtHook PROVE NetInv'
<1> USE DEF NetInv
<1>1. PICK ok \in BOOLEAN :
        /\ \/ Head(todo) = "rx" /\ RxSocketOpen(ok) /\ UNCHANGED tx_sock
           \/ Head(todo) = "tx" /\ TxSocketOpen(ok) /\ UNCHANGED rxVars
        /\ error' = Failed(ok)
  BY DEF WdtHook
<1>2. todo' \in Seq(Hooks) /\ error' \in BOOLEAN
  BY <1>1 DEF WdtHook, Failed, NetTypes
<1>3. /\ rx_sock' \in Handles /\ tx_sock' \in Handles
      /\ leaked' \in SUBSET Fds /\ Apart'
  <2>1. CASE Head(todo) = "rx"
    BY <1>1, <2>1, RxOpened DEF WdtHook, NetTypes
  <2>2. CASE Head(todo) = "tx"
    BY <1>1, <2>2, TxOpened DEF WdtHook, NetTypes, rxVars
  <2> QED
    BY <1>1, <2>1, <2>2
<1>4. NetTypes'
  BY <1>2, <1>3 DEF WdtHook, NetTypes, coreVars, ipcVars, pcapVars
<1>5. ThreadPhase' /\ Taken'
  BY DEF WdtHook, NetTypes, ThreadPhase, Taken, NetLabels, MainLabels, Before,
         After, coreVars, ipcVars, pcapVars
<1>6. Retried'
  <2>1. CASE RxWired
    <3>1. rx_sock' = None => error'
      <4>1. CASE Head(todo) = "rx"
        BY <1>1, <4>1 DEF RxSocketOpen, Failed
      <4>2. CASE Head(todo) = "tx"
        BY <1>1, <2>1, <4>2 DEF WdtHook, Failed, Retried, rxVars
      <4> QED
        BY <1>1, <4>1, <4>2
    <3> QED
      BY <2>1, <3>1 DEF WdtHook, Retried
  <2> QED
    BY <2>1 DEF Retried
<1> QED
  BY <1>3, <1>4, <1>5, <1>6

(* ... so that reload stays set when a pass ends without the socket.       *)
LEMMA WdtEndNet == ASSUME NetInv, WdtEnd PROVE NetInv'
<1> USE DEF NetInv
<1>1. NetTypes' /\ Apart' /\ ThreadPhase' /\ Taken'
  BY DEF WdtEnd, NetTypes, Apart, ThreadPhase, Taken, NetLabels, Before, After,
         passVars, sockVars, ipcVars, rxVars, pcapVars
<1>2. Retried'
  BY DEF WdtEnd, Retried, sockVars, rxVars
<1> QED
  BY <1>1, <1>2

LEMMA ThreadEndsNet ==
  ASSUME NetInv, LoopEnd \/ ThreadEnd \/ ThreadCleanup PROVE NetInv'
BY DEF LoopEnd, ThreadEnd, ThreadCleanup, Dispatch, Running, NetInv, NetTypes,
       Apart, ThreadPhase, Taken, Retried, NetLabels, Before, After, coreVars,
       passVars, sockVars, ipcVars, rxVars, pcapVars

(* _main waits for the thread before it takes anything down.               *)
LEMMA MainWaitsNet ==
  ASSUME NetInv, MainJoin \/ MainCheck \/ MainWait PROVE NetInv'
<1> USE DEF MainJoin, MainCheck, MainWait, Thereafter, coreVars, passVars,
            sockVars, ipcVars, rxVars, pcapVars
<1>1. NetTypes' /\ Apart'
  BY DEF NetInv, NetTypes, Apart, MainLabels
<1>2. ThreadPhase' /\ Taken'
  BY DEF NetInv, ThreadPhase, Taken, Joined, Before, After
<1>3. Retried'
  BY DEF NetInv, ThreadPhase, Retried, Joined, After
<1> QED
  BY <1>1, <1>2, <1>3 DEF NetInv

LEMMA MainDownNet ==
  ASSUME NetInv, MainPlayer \/ MainRxDown \/ MainTxDown \/ MainPcapDown
  PROVE  NetInv'
<1> USE DEF MainPlayer, MainRxDown, MainTxDown, MainPcapDown, coreVars,
            passVars, sockVars, ipcVars, rxVars, pcapVars
<1>1. NetTypes' /\ Apart'
  BY NoneNotFd DEF NetInv, NetTypes, Apart, Handles, MainLabels
<1>2. ThreadPhase' /\ Taken'
  BY DEF NetInv, ThreadPhase, Taken, Before, After
<1>3. Retried'
  BY DEF NetInv, ThreadPhase, Retried, After
<1> QED
  BY <1>1, <1>2, <1>3 DEF NetInv

LEMMA MainEndsNet == ASSUME NetInv, MainCancel \/ MainFree PROVE NetInv'
BY DEF MainCancel, MainFree, NetInv, NetTypes, Apart, ThreadPhase, Taken,
       Retried, MainLabels, Before, After, coreVars, passVars, sockVars,
       ipcVars, rxVars, pcapVars

LEMMA StutterNet == ASSUME NetInv, Device \/ UNCHANGED vars PROVE NetInv'
BY DEF Device, NetInv, NetTypes, Apart, ThreadPhase, Taken, Retried, vars,
       coreVars, passVars, sockVars, ipcVars, rxVars, pcapVars

LEMMA NextNet == NetInv /\ [Next]_vars => NetInv'
BY MainIpcNet, MainTxNet, MainPcapNet, MainRxNet, MainStartNet, HandlersNet,
   WdtStartNet, WdtHookNet, WdtEndNet, ThreadEndsNet, MainWaitsNet, MainDownNet,
   MainEndsNet, StutterNet
DEF Next, Startup, Shutdown, Thread, Exited

(* The invariant of the two threads, for every set of descriptors.         *)
LEMMA NetInvariant == Spec => []NetInv
BY InitNet, NextNet, PTL DEF Spec

-----------------------------------------------------------------------------
(* Theorems                                                                *)

(* netinet_rx is never called for a descriptor that is not its own socket, *)
(* however the hooks of netcore_wdt close, leak and take descriptors.      *)
THEOREM OwnEvent == Spec => []EventOnOwnSocket
<1>1. NetInv => EventOnOwnSocket
  BY DEF NetInv, Apart, EventOnOwnSocket
<1> QED
  BY <1>1, NetInvariant, PTL

(* Between two passes of netcore_wdt a receiver without a socket always    *)
(* has a reload pending, whichever hooks failed and in which order.        *)
THEOREM RxRetried == Spec => []ClosedRxRetried
<1>1. NetInv => ClosedRxRetried
  BY DEF NetInv, Retried, ClosedRxRetried
<1> QED
  BY <1>1, NetInvariant, PTL

(* netcore_deinitialize frees the event base after the thread has ended,   *)
(* also when it was never created, and after every event but the control   *)
(* socket's was deleted: ipc_rx_initialize put that one on the base, and   *)
(* _main ends without taking it off.                                       *)
THEOREM BaseFreedLast == Spec => []BaseOutlivesEvents
<1>1. NetInv => BaseOutlivesEvents
  BY DEF NetInv, ThreadPhase, Apart, Taken, After, OnBase, BaseOutlivesEvents
<1> QED
  BY <1>1, NetInvariant, PTL
=============================================================================
