-------------------------------- MODULE Ipc --------------------------------
(***************************************************************************)
(* The control socket: ipc_rx in the listener's event loop, ipc_tx in any  *)
(* number of clients, and the stream socket between them (wfb_ipc.c).      *)
(*                                                                         *)
(* Client and listener wait at most 100 ms for each other; time is not     *)
(* modelled, so a wait may end at any moment.  A message fits the socket's *)
(* buffer: it arrives whole.  What was written before a close can be read  *)
(* after it.                                                               *)
(***************************************************************************)
EXTENDS Naturals, Sequences

CONSTANTS
  Clients,       \* invocations of wfb_listener -s
  Queries,       \* what they may ask
  Stalled,       \* clients that may never write their request
  Backlog,       \* the argument of listen, 1 in the code
  MaxErrors,     \* bound: ipc_error is not counted beyond
  IgnoresSigpipe \* TRUE after create_daemon, FALSE in the foreground

ASSUME IpcAssumption ==
  /\ Stalled \subseteq Clients
  /\ Backlog \in Nat /\ MaxErrors \in Nat
  /\ IgnoresSigpipe \in BOOLEAN

None == "none"

(* struct ipc_msg as an answer: result, and the part of the union it uses. *)
NoMsg == [result |-> "none", value_b |-> FALSE, ipc_success |-> 0]

Valid == {"ping", "stat", "exit", "fec", "fec_toggle"}

Ended == {"ok", "failed"}

VARIABLES
  \* the listener
  loop,          \* "wait", "recv", "reply", "exit"; "gone" or "killed"
  cur,           \* the client it has accepted
  no_fec, ipc_success, ipc_error,
  answer,        \* msg, once the request is executed, per client
  \* the clients
  client, query, result,
  \* the sockets: who waits to be accepted; what was written, who has closed
  backlog, request, reply, client_closed, server_closed,
  exhausted      \* the listener has no descriptor left to accept with

loopVars   == <<loop, cur, no_fec, ipc_success, ipc_error, answer>>
clientVars == <<client, query, result>>
sockVars   == <<backlog, request, reply, client_closed, server_closed>>
vars       == <<loopVars, clientVars, sockVars, exhausted>>

Listening == loop \notin {"gone", "killed"}

-----------------------------------------------------------------------------
(* The client: ipc_tx                                                      *)

Call(c) ==
  /\ client[c] = "idle"
  /\ client' = [client EXCEPT ![c] = "connect"]
  /\ \E q \in Queries : query' = [query EXCEPT ![c] = q]
  /\ UNCHANGED <<result, loopVars, sockVars, exhausted>>

(* The client exits with a failure; that closes its socket.                *)
GivesUp(c) ==
  /\ client' = [client EXCEPT ![c] = "failed"]
  /\ client_closed' = [client_closed EXCEPT ![c] = TRUE]

(* ipc_tx_socket: connect waits while the backlog is full, and fails when  *)
(* nobody listens.                                                         *)
Connect(c) ==
  /\ client[c] = "connect"
  /\ \/ /\ Listening
        /\ Len(backlog) <= Backlog
        /\ backlog' = Append(backlog, c)
        /\ client' = [client EXCEPT ![c] = "send"]
        /\ UNCHANGED client_closed
     \/ /\ ~Listening
        /\ GivesUp(c)
        /\ UNCHANGED backlog
  /\ UNCHANGED <<query, result, loopVars, request, reply,
                 server_closed, exhausted>>

(* ipc_send_msg: to a socket closed by the listener it fails.              *)
Send(c) ==
  /\ client[c] = "send"
  /\ \/ /\ Listening
        /\ ~server_closed[c]
        /\ request' = [request EXCEPT ![c] = TRUE]
        /\ client' = [client EXCEPT ![c] = "recv"]
        /\ UNCHANGED client_closed
     \/ /\ ~Listening \/ server_closed[c]
        /\ GivesUp(c)
        /\ UNCHANGED request
  /\ UNCHANGED <<query, result, loopVars, backlog, reply, server_closed,
                 exhausted>>

(* ipc_tx_recv_response: an answer, which may be WFB_IPC_ERR; it is shown  *)
(* and the socket closed.                                                  *)
Receive(c) ==
  /\ client[c] = "recv"
  /\ reply[c] # NoMsg
  /\ result' = [result EXCEPT ![c] = reply[c]]
  /\ client' = [client EXCEPT ![c] =
                  IF reply[c].result = "ok" THEN "ok" ELSE "failed"]
  /\ client_closed' = [client_closed EXCEPT ![c] = TRUE]
  /\ UNCHANGED <<query, loopVars, backlog, request, reply, server_closed,
                 exhausted>>

(* Nothing came for 100 ms, or the listener closed without an answer.      *)
NoAnswer(c) ==
  /\ client[c] = "recv"
  /\ reply[c] = NoMsg
  /\ GivesUp(c)
  /\ UNCHANGED <<query, result, loopVars, backlog, request, reply,
                 server_closed, exhausted>>

-----------------------------------------------------------------------------
(* The listener: ipc_rx                                                    *)

CountError ==
  ipc_error' = IF ipc_error < MaxErrors THEN ipc_error + 1 ELSE ipc_error

Accept ==
  /\ loop = "wait"
  /\ backlog # <<>>
  /\ ~exhausted
  /\ loop' = "recv"
  /\ cur' = Head(backlog)
  /\ backlog' = Tail(backlog)
  /\ UNCHANGED <<no_fec, ipc_success, ipc_error, answer, clientVars, request,
                 reply, client_closed, server_closed, exhausted>>

(* accept fails, and the connection stays in the queue: the event comes    *)
(* again in the next turn of the loop.                                     *)
AcceptFails ==
  /\ loop = "wait"
  /\ backlog # <<>>
  /\ exhausted
  /\ CountError
  /\ UNCHANGED <<loop, cur, no_fec, ipc_success, answer, clientVars, sockVars,
                 exhausted>>

Close == server_closed' = [server_closed EXCEPT ![cur] = TRUE]

(* ipc_recv_msg fails: the client has closed without a word, or wrote      *)
(* nothing for 100 ms.                                                     *)
NoRequest_WaitsForever ==
  /\ loop = "recv"
  /\ ~request[cur]
  /\ client_closed[cur]
  /\ CountError
  /\ loop' = "wait"
  /\ Close
  /\ UNCHANGED <<cur, no_fec, ipc_success, answer, clientVars, backlog,
                 request, reply, client_closed, exhausted>>

NoRequest ==
  /\ loop = "recv"
  /\ ~request[cur]
  /\ CountError
  /\ loop' = "wait"
  /\ Close
  /\ UNCHANGED <<cur, no_fec, ipc_success, answer, clientVars, backlog,
                 request, reply, client_closed, exhausted>>

(* The switch over msg.query: what it does to no_fec, and what it answers  *)
(* (FEC_SET and anything else: "Invalid IPC query").                       *)
SetFec(q) == no_fec' = IF q = "fec_toggle" THEN ~no_fec ELSE no_fec

Message_Early(q) ==
  [result      |-> IF q \in Valid THEN "ok" ELSE "error",
   value_b     |-> q \in {"fec", "fec_toggle"} /\ no_fec,
   ipc_success |-> IF q = "stat" THEN ipc_success' ELSE 0]

Message(q) ==
  [result      |-> IF q \in Valid THEN "ok" ELSE "error",
   value_b     |-> q \in {"fec", "fec_toggle"} /\ no_fec',
   ipc_success |-> IF q = "stat" THEN ipc_success' ELSE 0]

Execute ==
  /\ loop = "recv"
  /\ request[cur]
  /\ ipc_success' = ipc_success + 1
  /\ SetFec(query[cur])
  /\ answer' = [answer EXCEPT ![cur] = Message(query[cur])]
  /\ loop' = "reply"
  /\ UNCHANGED <<cur, ipc_error, clientVars, sockVars, exhausted>>

(* ipc_rx_reply, whose failure is not looked at; netcore_exit; close.      *)
(* send to a client that has closed raises SIGPIPE.                        *)
AfterReply_IfSent(q, sent) == IF q = "exit" /\ sent THEN "exit" ELSE "wait"

AfterReply(q, sent) == IF q = "exit" THEN "exit" ELSE "wait"

Reply ==
  /\ loop = "reply"
  /\ \/ /\ ~client_closed[cur]
        /\ reply' = [reply EXCEPT ![cur] = answer[cur]]
        /\ loop' = AfterReply(query[cur], TRUE)
     \/ /\ client_closed[cur]
        /\ loop' = IF IgnoresSigpipe THEN AfterReply(query[cur], FALSE)
                   ELSE "killed"
        /\ UNCHANGED reply
  /\ Close
  /\ UNCHANGED <<cur, no_fec, ipc_success, ipc_error, answer, clientVars,
                 backlog, request, client_closed, exhausted>>

(* The loop ends, and with the process every socket is closed.             *)
Exit ==
  /\ loop = "exit"
  /\ loop' = "gone"
  /\ UNCHANGED <<cur, no_fec, ipc_success, ipc_error, answer, clientVars,
                 sockVars, exhausted>>

(* Descriptors run out (util_inet.c leaks them) or are to be had again:    *)
(* between two handlers of the loop, as one thread runs them all, and      *)
(* noticed only when somebody waits to be accepted.                        *)
Descriptors ==
  /\ loop = "wait"
  /\ backlog # <<>>
  /\ exhausted' = ~exhausted
  /\ UNCHANGED <<loopVars, clientVars, sockVars>>

Init ==
  /\ loop = "wait"
  /\ cur = None
  /\ no_fec \in BOOLEAN
  /\ ipc_success = 0
  /\ ipc_error = 0
  /\ answer = [c \in Clients |-> NoMsg]
  /\ client = [c \in Clients |-> "idle"]
  /\ query = [c \in Clients |-> None]
  /\ result = [c \in Clients |-> NoMsg]
  /\ backlog = <<>>
  /\ request = [c \in Clients |-> FALSE]
  /\ reply = [c \in Clients |-> NoMsg]
  /\ client_closed = [c \in Clients |-> FALSE]
  /\ server_closed = [c \in Clients |-> FALSE]
  /\ exhausted = FALSE

Client(c) == Call(c) \/ Connect(c) \/ Send(c) \/ Receive(c) \/ NoAnswer(c)

Loop == Accept \/ AcceptFails \/ NoRequest \/ Execute \/ Reply \/ Exit

AllEnded == (\A c \in Clients : client[c] \in Ended) /\ UNCHANGED vars

Next == (\E c \in Clients : Client(c)) \/ Loop \/ Descriptors \/ AllEnded

Spec == Init /\ [][Next]_vars

(* The event loop turns, and so does every client, but those that stall    *)
(* before they write.                                                      *)
FairSpec ==
  /\ Spec
  /\ WF_vars(Loop)
  /\ \A c \in Clients : WF_vars(Connect(c)) /\ WF_vars(Receive(c) \/ NoAnswer(c))
  /\ \A c \in Clients \ Stalled : WF_vars(Send(c))

-----------------------------------------------------------------------------
(* Properties                                                              *)

Service == INSTANCE IpcService WITH
  stopped <- ~Listening,
  phase   <- [c \in Clients |->
                IF client[c] \in {"connect", "send", "recv"} THEN "called"
                ELSE client[c]],
  done    <- answer

(* The socket keeps the promise of module IpcService: each request is done *)
(* at one moment or not at all, answers are those of that moment, and only *)
(* an exit request ends the listener, whatever times out in between.       *)
Linearizable == Service!Spec

(* Every client that writes its request returns, even if one that does not *)
(* is in front of it, and although accept fails for a while: if there are  *)
(* descriptors for good at last.  While there are none, a client behind    *)
(* the backlog stays in connect.                                           *)
ClientReturns ==
  <>[]~exhausted =>
    \A c \in Clients \ Stalled : client[c] = "connect" ~> client[c] \in Ended

(* An exit that was carried out ends the listener, also when its reply     *)
(* finds nobody there any more.                                            *)
ExitObeyed ==
  (\E c \in Clients : query[c] = "exit" /\ answer[c] # NoMsg) ~> ~Listening

=============================================================================
