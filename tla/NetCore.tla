------------------------------ MODULE NetCore ------------------------------
(***************************************************************************)
(* The event loop of wfb_listener and the sockets it serves: net_core.c,   *)
(* net_inet.c, the start and the end of net_pcap.c, the socket functions   *)
(* of util_inet.c, ipc_rx_initialize, and _main from the first socket to   *)
(* the exit.                                                               *)
(*                                                                         *)
(* Two threads: main initialises, starts the netcore thread, joins it and  *)
(* takes everything down; the netcore thread runs the event loop, whose    *)
(* handlers run to completion one after the other.  Only the pass of       *)
(* netcore_wdt over the reload hooks is cut into steps, because a signal   *)
(* may be caught and a device may come or go in the middle of it.          *)
(*                                                                         *)
(* What the handlers do with a frame they read is module Receiver; here a  *)
(* read or a write matters only when it fails.                             *)
(***************************************************************************)
EXTENDS Integers, Sequences, FiniteSetsExt

CONSTANTS
  Fds,           \* the descriptors the process may open (RLIMIT_NOFILE)
  RxWired,       \* -e: receive from the multicast group
  TxWired,       \* -E: mirror to the multicast group
  RxWireless,    \* -w: capture in monitor mode
  LocalPlay,     \* -l: play with a player of the listener's own
  EventsFail     \* event_new may fail

ASSUME NetCoreAssumption ==
  /\ Fds \in SUBSET Nat /\ Fds # {}
  /\ RxWired \in BOOLEAN /\ TxWired \in BOOLEAN /\ RxWireless \in BOOLEAN
  /\ LocalPlay \in BOOLEAN
  /\ RxWired \/ RxWireless     \* parse_options insists
  /\ EventsFail \in BOOLEAN

None == -1      \* a descriptor that is not open, an event that is not there

Hooks == {"rx", "tx"}

MainLabels == {"ipc", "tx", "decoder", "pcap", "rx", "start", "join", "check",
               "wait", "player", "rx_down", "tx_down", "pcap_down", "cancel",
               "free", "exited", "failed"}

NetLabels == {"none", "loop", "hooks", "ended", "cleanup", "dead"}

VARIABLES
  main,            \* where _main is
  net,             \* where the netcore thread is; "none": not created
  \* struct netcore_context
  lock, reload, cancel, stopped, reload_hooks, base,
  wdt,             \* the watchdog's timer is set
  \* netcore_wdt: the hooks still to run, and error
  todo, error,
  \* libevent: event_base_loopexit was called, SIGHUP was caught
  exiting, sighup,
  \* struct ipc_rx_context, netinet_rx_context, netinet_tx_context,
  \* netpcap_context: descriptors, and the descriptor an event is set on
  ipc_sock, ipc_ev, rx_sock, rx_ev, tx_sock, pcap_fd, pcap_ev,
  \* the kernel: descriptors nothing refers to any more; the devices
  leaked, up

coreVars  == <<lock, reload, cancel, stopped, base, wdt>>
passVars  == <<todo, error>>
eventVars == <<exiting, sighup>>
ipcVars   == <<ipc_sock, ipc_ev>>
rxVars    == <<rx_sock, rx_ev>>
pcapVars  == <<pcap_fd, pcap_ev>>
sockVars  == <<ipcVars, rxVars, tx_sock, pcapVars, leaked>>
vars      == <<main, net, coreVars, reload_hooks, passVars, eventVars,
               sockVars, up>>

Running == main \notin {"exited", "failed"}

-----------------------------------------------------------------------------
(* Descriptors                                                             *)

(* Descriptors that a step closing those in own may get.                   *)
Free(own) ==
  Fds \ (leaked \cup ({ipc_sock, rx_sock, tx_sock, pcap_fd} \ own))

Lowest(free) == Min(free)

(* in6_addr_fixup, with which bind_multicast and connect_multicast begin:  *)
(* the group is link-local, so the device must be there to name its scope. *)
Attaches(dev) == up[dev]

(* inet_rx_socket, inet_tx_socket, when the descriptors in free can be     *)
(* had: a socket, or none when there is no descriptor, or none when it     *)
(* cannot be attached to the device: that socket is not closed.            *)
InetSocket(dev, free) ==
  CASE free = {}                    -> [fd |-> None, lost |-> {}]
    [] free # {} /\ Attaches(dev)   -> [fd |-> Lowest(free), lost |-> {}]
    [] free # {} /\ ~Attaches(dev)  -> [fd |-> None, lost |-> {Lowest(free)}]

(* netinet_rx_socket_open: event and socket are given up, a new socket and *)
(* a new event are made; without the event the socket is closed again.     *)
RxSocketOpen_KeepsEvent(ok) ==
  LET got == InetSocket("rx", Free({rx_sock}))
  IN
  /\ leaked' = leaked \cup got.lost
  /\ rx_sock' = got.fd
  /\ rx_ev' = IF got.fd = None THEN rx_ev ELSE got.fd
  /\ ok = (rx_sock' # None)

RxSocketOpen(ok) ==
  LET got == InetSocket("rx", Free({rx_sock}))
  IN
  /\ leaked' = leaked \cup got.lost
  /\ \/ rx_sock' = got.fd
     \/ EventsFail /\ rx_sock' = None
  /\ rx_ev' = rx_sock'
  /\ ok = (rx_sock' # None)

(* netinet_tx_socket_open                                                  *)
TxSocketOpen(ok) ==
  LET got == InetSocket("tx", Free({tx_sock}))
  IN
  /\ leaked' = leaked \cup got.lost
  /\ tx_sock' = got.fd
  /\ ok = (tx_sock' # None)

-----------------------------------------------------------------------------
(* _main, up to the loop                                                   *)

(* netcore_reload_hook_add *)
HookAdd(hook) == reload_hooks' = <<hook>> \o reload_hooks

(* ipc_rx_initialize: the first of the sockets.  Its event stays on the    *)
(* base until the end.                                                     *)
MainIpc ==
  /\ main = "ipc"
  /\ \/ /\ Free({}) # {}
        /\ main' = "tx"
        /\ ipc_sock' = Lowest(Free({}))
        /\ ipc_ev' = ipc_sock'
     \/ /\ main' = "failed"
        /\ UNCHANGED ipcVars
  /\ UNCHANGED <<net, coreVars, reload_hooks, passVars, eventVars, rxVars,
                 tx_sock, pcapVars, leaked, up>>

(* netinet_tx_initialize: its result is not looked at.                     *)
MainTx ==
  /\ main = "tx"
  /\ main' = "decoder"
  /\ IF TxWired
     THEN /\ HookAdd("tx")
          /\ \E ok \in BOOLEAN : TxSocketOpen(ok)
     ELSE UNCHANGED <<reload_hooks, tx_sock, leaked>>
  /\ UNCHANGED <<net, coreVars, passVars, eventVars, ipcVars, rxVars, pcapVars, up>>

(* The player of -l is started, or cannot be.                              *)
MainDecoder ==
  /\ main = "decoder"
  /\ \/ main' = "pcap"
     \/ LocalPlay /\ main' = "failed"
  /\ UNCHANGED <<net, coreVars, reload_hooks, passVars, eventVars, sockVars, up>>

(* netpcap_initialize registers no reload hook.                            *)
MainPcap ==
  /\ main = "pcap"
  /\ \/ /\ ~RxWireless
        /\ main' = "rx"
        /\ UNCHANGED pcapVars
     \/ /\ RxWireless
        /\ Free({pcap_fd}) # {}
        /\ main' = "rx"
        /\ pcap_fd' = Lowest(Free({pcap_fd}))
        /\ pcap_ev' = pcap_fd'
     \/ /\ RxWireless
        /\ main' = "failed"
        /\ UNCHANGED pcapVars
  /\ UNCHANGED <<net, coreVars, reload_hooks, passVars, eventVars, ipcVars,
                 rxVars, tx_sock, leaked, up>>

(* netinet_rx_initialize: without a socket the program exits.              *)
MainRx ==
  /\ main = "rx"
  /\ IF RxWired
     THEN /\ HookAdd("rx")
          /\ \E ok \in BOOLEAN :
               /\ RxSocketOpen(ok)
               /\ main' = IF ok THEN "start" ELSE "failed"
     ELSE /\ main' = "start"
          /\ UNCHANGED <<reload_hooks, rxVars, leaked>>
  /\ UNCHANGED <<net, coreVars, passVars, eventVars, ipcVars, tx_sock, pcapVars, up>>

(* netcore_thread_start: its result is not looked at.                      *)
MainStart ==
  /\ main = "start"
  /\ main' = "join"
  /\ net' \in {"loop", "none"}
  /\ UNCHANGED <<coreVars, reload_hooks, passVars, eventVars, sockVars, up>>

-----------------------------------------------------------------------------
(* The netcore thread                                                      *)

(* SIGHUP is caught at any time; its handler is an event of the loop.      *)
CatchHup ==
  /\ Running
  /\ ~sighup
  /\ sighup' = TRUE
  /\ UNCHANGED <<main, net, coreVars, reload_hooks, passVars, exiting,
                 sockVars, up>>

Dispatch == Running /\ net = "loop"

(* netcore_hup *)
Hup ==
  /\ Dispatch
  /\ sighup
  /\ sighup' = FALSE
  /\ reload' = TRUE
  /\ UNCHANGED <<main, net, lock, cancel, stopped, base, wdt, reload_hooks,
                 passVars, exiting, sockVars, up>>

(* netcore_term, or netcore_exit for an IPC client.                        *)
Term ==
  /\ Dispatch
  /\ ~exiting
  /\ exiting' = TRUE
  /\ UNCHANGED <<main, net, coreVars, reload_hooks, passVars, sighup,
                 sockVars, up>>

(* netinet_rx, when recvfrom fails, and netinet_tx, called for a captured  *)
(* frame, when writev fails: netcore_reload.                               *)
RxOrTxFails ==
  /\ Dispatch
  /\ rx_ev # None \/ (pcap_ev # None /\ TxWired)
  /\ lock = "nobody"
  /\ ~reload
  /\ reload' = TRUE
  /\ UNCHANGED <<main, net, lock, cancel, stopped, base, wdt, reload_hooks,
                 passVars, eventVars, sockVars, up>>

(* netcore_wdt, when a reload is asked for; otherwise it sets its timer    *)
(* again and nothing else.                                                 *)
WdtStart ==
  /\ Dispatch
  /\ wdt
  /\ reload
  /\ net' = "hooks"
  /\ todo' = reload_hooks
  /\ error' = FALSE
  /\ wdt' = FALSE
  /\ UNCHANGED <<main, lock, reload, cancel, stopped, base, reload_hooks,
                 eventVars, sockVars, up>>

Failed_Last(ok) == ~ok

Failed(ok) == error \/ ~ok

WdtHook ==
  /\ Running
  /\ net = "hooks"
  /\ todo # <<>>
  /\ todo' = Tail(todo)
  /\ \E ok \in BOOLEAN :
       /\ \/ Head(todo) = "rx" /\ RxSocketOpen(ok) /\ UNCHANGED tx_sock
          \/ Head(todo) = "tx" /\ TxSocketOpen(ok) /\ UNCHANGED rxVars
       /\ error' = Failed(ok)
  /\ UNCHANGED <<main, net, coreVars, reload_hooks, eventVars, ipcVars, pcapVars, up>>

SetTimer_NotAgain == wdt' = wdt

SetTimer == wdt' = TRUE

WdtEnd ==
  /\ Running
  /\ net = "hooks"
  /\ todo = <<>>
  /\ lock = "nobody"
  /\ net' = "loop"
  /\ reload' = error
  /\ SetTimer
  /\ UNCHANGED <<main, lock, cancel, stopped, base, reload_hooks, passVars,
                 eventVars, sockVars, up>>

(* event_base_dispatch returns.                                            *)
LoopEnd ==
  /\ Dispatch
  /\ exiting
  /\ net' = "ended"
  /\ UNCHANGED <<main, coreVars, reload_hooks, passVars, eventVars, sockVars, up>>

ThreadEnd ==
  /\ Running
  /\ net = "ended"
  /\ lock = "nobody"
  /\ cancel' = TRUE
  /\ net' = "cleanup"
  /\ UNCHANGED <<main, lock, reload, stopped, base, wdt, reload_hooks,
                 passVars, eventVars, sockVars, up>>

(* thread_cleanup unlocks a mutex the thread does not hold: whoever holds  *)
(* it has lost it.                                                         *)
ThreadCleanup ==
  /\ Running
  /\ net = "cleanup"
  /\ lock' = "nobody"
  /\ net' = "dead"
  /\ UNCHANGED <<main, reload, cancel, stopped, base, wdt, reload_hooks,
                 passVars, eventVars, sockVars, up>>

-----------------------------------------------------------------------------
(* _main, from the loop on                                                 *)

(* netcore_thread_join *)
MainJoin ==
  /\ main = "join"
  /\ lock = "nobody"
  /\ lock' = "main"
  /\ main' = "check"
  /\ UNCHANGED <<net, reload, cancel, stopped, base, wdt, reload_hooks,
                 passVars, eventVars, sockVars, up>>

(* What _main does when netcore_thread_join returns.                       *)
Thereafter == IF LocalPlay THEN "player" ELSE "rx_down"

MainCheck_Holds ==
  /\ main = "check"
  /\ main' = IF stopped THEN Thereafter ELSE "wait"
  /\ UNCHANGED <<net, coreVars, reload_hooks, passVars, eventVars, sockVars, up>>

MainCheck ==
  /\ main = "check"
  /\ lock' = "nobody"
  /\ main' = IF stopped THEN Thereafter ELSE "wait"
  /\ UNCHANGED <<net, reload, cancel, stopped, base, wdt, reload_hooks,
                 passVars, eventVars, sockVars, up>>

(* pthread_join waits for the thread; of a tid that was never set its      *)
(* result is undefined: an error, or a crash.                              *)
Joined_NoWait == TRUE

Joined == net \in {"dead", "none"}

MainWait ==
  /\ main = "wait"
  /\ Joined
  /\ lock = "nobody"
  /\ \/ stopped' = TRUE /\ main' = Thereafter
     \/ net = "none" /\ main' = "failed" /\ UNCHANGED stopped
  /\ UNCHANGED <<net, lock, reload, cancel, base, wdt, reload_hooks,
                 passVars, eventVars, sockVars, up>>

(* wfb_gst_eos and wfb_gst_thread_join return (module GstPlayer).          *)
MainPlayer ==
  /\ main = "player"
  /\ main' = "rx_down"
  /\ UNCHANGED <<net, coreVars, reload_hooks, passVars, eventVars, sockVars, up>>

(* netinet_rx_deinitialize *)
MainRxDown ==
  /\ main = "rx_down"
  /\ lock = "nobody"
  /\ main' = "tx_down"
  /\ rx_sock' = None
  /\ rx_ev' = None
  /\ UNCHANGED <<net, coreVars, reload_hooks, passVars, eventVars, ipcVars,
                 tx_sock, pcapVars, leaked, up>>

(* netinet_tx_deinitialize *)
MainTxDown ==
  /\ main = "tx_down"
  /\ main' = "pcap_down"
  /\ tx_sock' = None
  /\ UNCHANGED <<net, coreVars, reload_hooks, passVars, eventVars, ipcVars,
                 rxVars, pcapVars, leaked, up>>

(* netpcap_deinitialize *)
MainPcapDown ==
  /\ main = "pcap_down"
  /\ lock = "nobody"
  /\ main' = "cancel"
  /\ pcap_fd' = None
  /\ pcap_ev' = None
  /\ UNCHANGED <<net, coreVars, reload_hooks, passVars, eventVars, ipcVars,
                 rxVars, tx_sock, leaked, up>>

(* netcore_thread_cancel: of a thread that set cancel itself, it joins     *)
(* once more, which stopped prevents; pthread_cancel of a thread that was  *)
(* not created fails and it returns.                                       *)
MainCancel ==
  /\ main = "cancel"
  /\ lock = "nobody"
  /\ main' = "free"
  /\ UNCHANGED <<net, coreVars, reload_hooks, passVars, eventVars, sockVars, up>>

(* The rest of netcore_deinitialize, and exit: event_base_free takes what  *)
(* events are left off the base, and does not free them.                   *)
MainFree ==
  /\ main = "free"
  /\ main' = "exited"
  /\ base' = FALSE
  /\ UNCHANGED <<net, lock, reload, cancel, stopped, wdt, reload_hooks,
                 passVars, eventVars, sockVars, up>>

-----------------------------------------------------------------------------
(* A device comes or goes.                                                 *)
Device ==
  /\ Running
  /\ \E dev \in Hooks : up' = [up EXCEPT ![dev] = ~@]
  /\ UNCHANGED <<main, net, coreVars, reload_hooks, passVars, eventVars, sockVars>>

Exited == ~Running /\ UNCHANGED vars

(* netcore_initialize *)
Init ==
  /\ main = "ipc"
  /\ net = "none"
  /\ lock = "nobody"
  /\ reload = FALSE
  /\ cancel = FALSE
  /\ stopped = FALSE
  /\ reload_hooks = <<>>
  /\ base = TRUE
  /\ wdt = TRUE
  /\ todo = <<>>
  /\ error = FALSE
  /\ exiting = FALSE
  /\ sighup = FALSE
  /\ ipc_sock = None
  /\ ipc_ev = None
  /\ rx_sock = None
  /\ rx_ev = None
  /\ tx_sock = None
  /\ pcap_fd = None
  /\ pcap_ev = None
  /\ leaked = {}
  /\ up \in [Hooks -> BOOLEAN]

Startup == \/ MainIpc \/ MainTx \/ MainDecoder \/ MainPcap \/ MainRx
           \/ MainStart

Shutdown == \/ MainJoin \/ MainCheck \/ MainWait \/ MainRxDown \/ MainTxDown
            \/ MainPcapDown \/ MainCancel \/ MainFree

Thread == \/ Hup \/ Term \/ RxOrTxFails \/ WdtStart \/ WdtHook \/ WdtEnd
          \/ LoopEnd \/ ThreadEnd \/ ThreadCleanup

Next == Startup \/ Thread \/ Shutdown \/ MainPlayer \/ CatchHup \/ Device \/ Exited

Spec == Init /\ [][Next]_vars

(* Both threads run; the loop serves a caught signal, a timer that is due  *)
(* and the exit it was told, whatever other events come between (libevent  *)
(* polls timers and signals in every turn).  event_new does not fail for   *)
(* ever: a hook that could open the receiver's socket at last does.  The   *)
(* player may keep _main waiting for ever (GstPlayer!ExitCompletes).       *)
FairSpec ==
  /\ Spec
  /\ WF_vars(Startup) /\ WF_vars(Shutdown)
  /\ WF_vars(WdtHook) /\ WF_vars(WdtEnd)
  /\ WF_vars(ThreadEnd) /\ WF_vars(ThreadCleanup)
  /\ SF_vars(Hup) /\ SF_vars(WdtStart) /\ SF_vars(LoopEnd)
  /\ SF_vars(WdtHook /\ rx_sock' # None)

-----------------------------------------------------------------------------
(* Properties                                                              *)

(* The read event of netinet_rx is never set on a descriptor that is not   *)
(* its own socket: a descriptor closed by one hook may be the next one's.  *)
EventOnOwnSocket ==
  rx_ev # None => rx_ev = rx_sock /\ rx_ev \notin leaked \cup {ipc_sock, tx_sock, pcap_fd}

(* While the loop waits, a receiver without a socket has a reload pending: *)
(* no failed hook is forgotten, though later hooks of the pass succeed.    *)
ClosedRxRetried == net = "loop" /\ RxWired /\ rx_sock = None => reload

(* Whose read events are on the event base.                                *)
OnBase ==
  {owner \in {"ipc", "rx", "pcap"} :
     CASE owner = "ipc"  -> ipc_ev # None
       [] owner = "rx"   -> rx_ev # None
       [] owner = "pcap" -> pcap_ev # None}

(* The event base is freed when the thread that dispatches on it is gone   *)
(* and the events of the receivers were deleted.  The one of the control   *)
(* socket, which nothing deletes ("XXX: more cleanup"), is left on it, and *)
(* it alone: event_base_free takes it off, and no code names it after.     *)
BaseOutlivesEvents == ~base => net \in {"dead", "none"} /\ OnBase = {"ipc"}

(* A caught SIGHUP, even one caught in the middle of a pass, leads to a    *)
(* pass over the hooks that starts after its handler ran, unless the       *)
(* program ends.                                                           *)
HupServed ==
  [](sighup /\ net \in {"loop", "hooks"} =>
       <>(exiting \/ (~sighup /\ reload /\ net = "loop"
                       /\ <>(net = "hooks" \/ exiting))))

(* A program told to stop does, or waits for ever for its player to end.   *)
StopsWhenTold == exiting ~> main = "exited" \/ [](main = "player")

(* A receiver that lost its socket has it again when the device is there   *)
(* and a descriptor is left, unless one of them goes or the program ends.  *)
RxComesBack ==
  net = "loop" /\ RxWired /\ rx_sock = None ~>
    \/ rx_sock # None
    \/ ~up["rx"]
    \/ Fds \subseteq leaked \cup {ipc_sock, tx_sock, pcap_fd}
    \/ exiting

(* README: "redistribute received frames to IP multicasting network."      *)
(* A mirror whose reload is pending has a socket in the end, unless a      *)
(* device is missing or the program ends.                                  *)
Redistributes ==
  net = "loop" /\ TxWired /\ reload ~>
    tx_sock # None \/ (\E dev \in Hooks : ~up[dev]) \/ exiting
=============================================================================
