------------------------------ MODULE IpcProofs ------------------------------
(***************************************************************************)
(* The control socket implements the service of module IpcService, for any *)
(* number of clients, any queries and any backlog, whoever gives up when.  *)
(***************************************************************************)
EXTENDS Ipc, FiniteSetTheorems, TLAPS

Answers == [result : {"none", "ok", "error"}, value_b : BOOLEAN, ipc_success : Nat]

IpcTypes ==
  /\ loop \in {"wait", "recv", "reply", "exit", "gone"}
  /\ no_fec \in BOOLEAN
  /\ ipc_success \in Nat
  /\ client \in [Clients -> {"idle", "connect", "send", "recv", "ok", "failed"}]
  /\ query \in [Clients -> Queries \cup {None}]
  /\ backlog \in Seq(Clients)
  /\ answer \in [Clients -> Answers]
  /\ reply \in [Clients -> Answers]
  /\ result \in [Clients -> Answers]

Waiting(c) == \E i \in 1 .. Len(backlog) : backlog[i] = c

Serving(c) == cur = c /\ loop \in {"recv", "reply"}

(* A client that waits for its turn, or has it, is one whose request was   *)
(* not carried out yet, though it may have given up.                       *)
Undone(c) ==
  /\ c \in Clients
  /\ client[c] \in {"send", "recv", "failed"}
  /\ answer[c] = NoMsg

(* Nobody has heard of a client that has not connected.                    *)
Unknown ==
  \A c \in Clients : client[c] \in {"idle", "connect"} =>
    /\ ~Waiting(c) /\ ~Serving(c)
    /\ answer[c] = NoMsg

(* A client is in the queue once, and not while it is served.              *)
Queue ==
  /\ \A i, j \in 1 .. Len(backlog) : backlog[i] = backlog[j] => i = j
  /\ \A i \in 1 .. Len(backlog) : ~Serving(backlog[i]) /\ Undone(backlog[i])

(* Where ipc_rx is in the request of its client.                           *)
InHand ==
  /\ loop = "recv" => Undone(cur)
  /\ loop \in {"reply", "exit"} => cur \in Clients /\ answer[cur] # NoMsg
  /\ loop = "exit" => query[cur] = "exit"

(* What a client may read is the answer its request was given.             *)
Replies == \A c \in Clients : reply[c] # NoMsg => reply[c] = answer[c]

Done == {c \in Clients : answer[c] # NoMsg}

(* ipc_success counts the requests that were carried out.                  *)
Counted == IsFiniteSet(Done) /\ ipc_success = Cardinality(Done)

IpcInv == IpcTypes /\ Unknown /\ Queue /\ InHand /\ Replies /\ Counted

LEMMA IpcInit == Init => IpcInv
<1> SUFFICES ASSUME Init PROVE IpcInv
  OBVIOUS
<1>1. IpcTypes
  BY DEF Init, IpcTypes, Answers, NoMsg
<1>2. Done = {}
  BY DEF Init, Done
<1>3. Counted
  BY <1>2, FS_EmptySet DEF Init, Counted
<1> QED
  BY <1>1, <1>3 DEF Init, IpcInv, Unknown, Waiting, Serving, Queue, InHand, Replies

(* What a step of client c leaves alone: ipc_rx, and the other clients.    *)
LEMMA ClientStep ==
  ASSUME IpcInv, NEW c \in Clients, Client(c)
  PROVE  /\ UNCHANGED loopVars
         /\ UNCHANGED reply
         /\ \A d \in Clients \ {c} : client'[d] = client[d] /\ query'[d] = query[d]
         /\ IpcTypes'
<1>1. UNCHANGED loopVars /\ UNCHANGED reply
  BY DEF Client, Call, Connect, Send, Receive, NoAnswer, GivesUp, sockVars
<1>2. /\ \E p : client' = [client EXCEPT ![c] = p]
      /\ query' = query \/ \E q : query' = [query EXCEPT ![c] = q]
  BY Zenon DEF Client, Call, Connect, Send, Receive, NoAnswer, GivesUp
<1>3. \A d \in Clients \ {c} : client'[d] = client[d] /\ query'[d] = query[d]
  BY <1>2 DEF IpcInv, IpcTypes
<1>4. backlog' = backlog \/ backlog' = Append(backlog, c)
  BY Zenon DEF Client, Call, Connect, Send, Receive, NoAnswer, sockVars
<1>5. backlog' \in Seq(Clients)
  BY <1>4 DEF IpcInv, IpcTypes
<1>6. /\ query' \in [Clients -> Queries \cup {None}]
      /\ result' \in [Clients -> Answers]
  BY DEF Client, Call, Connect, Send, Receive, NoAnswer, IpcInv, IpcTypes
<1>7. client' \in [Clients -> {"idle", "connect", "send", "recv", "ok", "failed"}]
  BY DEF Client, Call, Connect, Send, Receive, NoAnswer, GivesUp, IpcInv, IpcTypes
<1> QED
  BY <1>1, <1>6, <1>7, <1>3, <1>5 DEF IpcInv, IpcTypes, loopVars

(* Only the queue's end and client c itself change, and c is not done.     *)
LEMMA ClientKeeps ==
  ASSUME IpcInv, NEW c \in Clients, Client(c)
  PROVE  IpcInv'
<1>1. /\ UNCHANGED <<loop, cur, answer, ipc_success, reply>>
      /\ \A d \in Clients \ {c} : client'[d] = client[d] /\ query'[d] = query[d]
      /\ IpcTypes'
  BY ClientStep DEF loopVars
<1>2. Replies' /\ Counted'
  BY <1>1 DEF IpcInv, Replies, Counted, Done
<1>3. CASE Call(c) \/ Send(c) \/ Receive(c) \/ NoAnswer(c)
  <2>1. UNCHANGED backlog
    BY <1>3 DEF Call, Send, Receive, NoAnswer, sockVars
  <2>2. \/ client[c] = "idle" /\ client'[c] = "connect"
        \/ client[c] \in {"send", "recv"} /\ client'[c] \in {"recv", "failed"} /\ query' = query
        \/ reply[c] # NoMsg /\ client[c] = "recv" /\ client'[c] \in {"ok", "failed"} /\ query' = query
    BY <1>3 DEF Call, Send, Receive, NoAnswer, GivesUp, IpcInv, IpcTypes
  <2>3. \A d : Undone(d) => Undone(d)' \/ (d = c /\ client[d] = "idle")
    BY <1>1, <2>2 DEF Undone, IpcInv, Replies
  <2>4. Unknown' /\ Queue'
    BY <1>1, <2>1, <2>2, <2>3 DEF IpcInv, Unknown, Queue, Waiting, Serving, Undone
  <2>5. InHand'
    BY <1>1, <2>2, <2>3 DEF IpcInv, InHand, Unknown, Undone
  <2> QED
    BY <1>1, <1>2, <2>4, <2>5 DEF IpcInv
<1>4. CASE Connect(c)
  <2>1. /\ client[c] = "connect" /\ query' = query
        /\ \/ backlog' = Append(backlog, c) /\ client'[c] = "send"
           \/ backlog' = backlog /\ client'[c] = "failed"
    BY <1>4 DEF Connect, GivesUp, IpcInv, IpcTypes
  <2>2. ~Waiting(c) /\ ~Serving(c) /\ answer[c] = NoMsg
    BY <2>1 DEF IpcInv, Unknown
  <2>3. Undone(c)' /\ \A d \in Clients \ {c} : Undone(d) => Undone(d)'
    BY <1>1, <2>1, <2>2 DEF Undone
  <2>4. CASE backlog' = backlog
    BY <1>1, <1>2, <2>1, <2>2, <2>3, <2>4
    DEF IpcInv, Unknown, Queue, InHand, Waiting, Serving, Undone
  <2>5. CASE backlog' = Append(backlog, c) /\ client'[c] = "send"
    <3>1. /\ Len(backlog') = Len(backlog) + 1 /\ Len(backlog) \in Nat
          /\ \A i \in 1 .. Len(backlog) : backlog'[i] = backlog[i] /\ backlog[i] # c
          /\ backlog'[Len(backlog) + 1] = c
      BY <2>5, <2>2 DEF IpcInv, IpcTypes, Waiting
    <3>2. Queue'
      BY <1>1, <2>2, <2>3, <3>1 DEF IpcInv, Queue, Serving, Undone
    <3>3. Unknown'
      BY <1>1, <2>5, <3>1 DEF IpcInv, Unknown, Waiting, Serving
    <3>4. InHand'
      BY <1>1, <2>1, <2>3 DEF IpcInv, InHand, Undone
    <3> QED
      BY <1>1, <1>2, <3>2, <3>3, <3>4 DEF IpcInv
  <2> QED
    BY <2>1, <2>4, <2>5
<1> QED
  BY <1>3, <1>4 DEF Client

LEMMA AcceptKeeps ==
  ASSUME IpcInv, Accept
  PROVE  IpcInv'
<1>1. /\ backlog # <<>> /\ loop = "wait" /\ loop' = "recv"
      /\ cur' = Head(backlog) /\ backlog' = Tail(backlog)
      /\ UNCHANGED <<no_fec, ipc_success, answer, client, query, result, reply>>
  BY DEF Accept, clientVars
<1>2. IpcTypes' /\ Replies' /\ Counted'
  BY <1>1 DEF IpcInv, IpcTypes, Replies, Counted, Done
<1>3. /\ Len(backlog) \in Nat \ {0} /\ Len(backlog') = Len(backlog) - 1
      /\ cur' = backlog[1]
      /\ \A i \in 1 .. Len(backlog') : backlog'[i] = backlog[i + 1]
  BY <1>1 DEF IpcInv, IpcTypes
<1>4. \A d : Undone(d) => Undone(d)'
  BY <1>1 DEF Undone
<1>5. Queue'
  BY <1>1, <1>3, <1>4 DEF IpcInv, Queue, Serving
<1>6. InHand'
  BY <1>1, <1>3, <1>4 DEF IpcInv, InHand, Queue
<1>7. \A d : Waiting(d)' \/ Serving(d)' => Waiting(d)
  BY <1>1, <1>3 DEF Waiting, Serving
<1>8. Unknown'
  BY <1>1, <1>3, <1>7 DEF IpcInv, Unknown, Queue, Undone
<1> QED
  BY <1>2, <1>5, <1>6, <1>8 DEF IpcInv

(* The answer of ipc_rx is the one the service gives at that moment.       *)
LEMMA ExecuteAnswers ==
  ASSUME IpcInv, Execute
  PROVE  /\ Undone(cur)
         /\ answer' = [answer EXCEPT ![cur] =
              Service!Answer(query[cur], no_fec, Cardinality(Done) + 1)]
         /\ no_fec' = Service!Setting(query[cur], no_fec)
         /\ answer'[cur] \in Answers \ {NoMsg}
<1>1. Undone(cur) /\ no_fec \in BOOLEAN /\ Cardinality(Done) \in Nat
  BY DEF Execute, IpcInv, InHand, IpcTypes, Counted
<1>2. no_fec' = Service!Setting(query[cur], no_fec)
  BY DEF Execute, SetFec, Service!Setting
<1>3. ipc_success' = Cardinality(Done) + 1
  BY DEF Execute, IpcInv, Counted
<1>4. Message(query[cur]) =
        Service!Answer(query[cur], no_fec, Cardinality(Done) + 1)
  BY <1>2, <1>3 DEF Message, Service!Answer, Valid, Service!Valid
<1>5. answer' = [answer EXCEPT ![cur] = Message(query[cur])]
  BY DEF Execute
<1>6. no_fec' \in BOOLEAN
  BY <1>1, <1>2 DEF Service!Setting
<1>7. Message(query[cur]) \in Answers
  BY <1>1, <1>3, <1>6 DEF Message, Answers
<1>8. Message(query[cur]).result # "none"
  BY DEF Message
<1> QED
  BY <1>1, <1>2, <1>4, <1>5, <1>7, <1>8 DEF NoMsg, IpcInv, IpcTypes, Undone

(* The instance brings its own name for the library's operator.           *)
LEMMA SameCardinality ==
  \A S : Service!Cardinality(S) = Cardinality(S)
BY DEF Cardinality, Service!Cardinality

LEMMA ExecuteKeeps ==
  ASSUME IpcInv, Execute
  PROVE  IpcInv'
<1>1. /\ loop = "recv" /\ loop' = "reply" /\ ipc_success' = ipc_success + 1
      /\ UNCHANGED <<cur, backlog, client, query, result, reply>>
  BY DEF Execute, clientVars, sockVars
<1>2. Undone(cur) /\ answer'[cur] \in Answers \ {NoMsg}
  BY ExecuteAnswers
<1>3. answer' = [answer EXCEPT ![cur] = answer'[cur]]
  BY <1>2 DEF Execute, IpcInv, IpcTypes, Undone
<1>4. no_fec' \in BOOLEAN
  BY DEF Execute, SetFec, IpcInv, IpcTypes
<1>5. IpcTypes'
  BY <1>1, <1>2, <1>3, <1>4 DEF IpcInv, IpcTypes, Undone
<1>6. \A d : d # cur /\ Undone(d) => Undone(d)'
  BY <1>1, <1>3 DEF Undone, IpcInv, IpcTypes
<1>7. Queue'
  BY <1>1, <1>6 DEF IpcInv, Queue, Serving
<1>8. Unknown'
  BY <1>1, <1>2, <1>3 DEF IpcInv, Unknown, Waiting, Serving, Undone, IpcTypes
<1>9. InHand'
  BY <1>1, <1>2 DEF InHand, Undone
<1>10. Replies'
  BY <1>1, <1>2, <1>3 DEF IpcInv, Replies, Undone, IpcTypes
<1>11. Done' = Done \cup {cur} /\ cur \notin Done
  BY <1>1, <1>2, <1>3 DEF Done, Undone, IpcInv, IpcTypes
<1>12. Counted'
  BY <1>1, <1>11, FS_AddElement DEF IpcInv, Counted
<1> QED
  BY <1>5, <1>7, <1>8, <1>9, <1>10, <1>12 DEF IpcInv

LEMMA ReplyKeeps ==
  ASSUME IpcInv, IgnoresSigpipe, NoRequest \/ Reply \/ Exit
  PROVE  IpcInv'
<1>1. /\ UNCHANGED <<cur, no_fec, ipc_success, answer, client, query, result, backlog>>
      /\ loop \in {"recv", "reply", "exit"} /\ loop' \in {"wait", "exit", "gone"}
      /\ loop' = "exit" => loop = "reply" /\ query[cur] = "exit"
  BY DEF NoRequest, Reply, Exit, AfterReply, clientVars, sockVars
<1>2. /\ reply' \in [Clients -> Answers]
      /\ Replies'
  <2>1. \/ reply' = reply
        \/ loop = "reply" /\ reply' = [reply EXCEPT ![cur] = answer[cur]]
    BY DEF NoRequest, Reply, Exit, sockVars
  <2>2. loop = "reply" => cur \in Clients
    BY DEF IpcInv, InHand
  <2> QED
    BY <1>1, <2>1, <2>2 DEF IpcInv, IpcTypes, Replies
<1>3. IpcTypes'
  BY <1>1, <1>2 DEF IpcInv, IpcTypes
<1>4. Unknown' /\ Queue' /\ Counted'
  BY <1>1 DEF IpcInv, Unknown, Queue, Counted, Done, Waiting, Serving, Undone
<1>5. InHand'
  BY <1>1 DEF IpcInv, InHand
<1> QED
  BY <1>2, <1>3, <1>4, <1>5 DEF IpcInv

(* accept that fails, and descriptors that come and go, change nothing     *)
(* that a client can tell.                                                 *)
LEMMA AcceptFailsKeeps ==
  ASSUME IpcInv, AcceptFails \/ Descriptors
  PROVE  IpcInv'
<1>1. /\ UNCHANGED <<loop, cur, no_fec, ipc_success, answer>>
      /\ UNCHANGED <<client, query, result, backlog, reply>>
  BY DEF AcceptFails, Descriptors, loopVars, clientVars, sockVars
<1> QED
  BY <1>1 DEF IpcInv, IpcTypes, Unknown, Queue, InHand, Replies, Counted, Done,
              Waiting, Serving, Undone

LEMMA IpcStep ==
  ASSUME IpcInv, IgnoresSigpipe, [Next]_vars
  PROVE  IpcInv'
<1>1. CASE UNCHANGED vars
  BY <1>1 DEF vars, loopVars, clientVars, sockVars, IpcInv, IpcTypes, Unknown,
     Queue, InHand, Replies, Counted, Done, Waiting, Serving, Undone
<1> QED
  BY <1>1, ClientKeeps, AcceptKeeps, AcceptFailsKeeps, ExecuteKeeps, ReplyKeeps
  DEF Next, Loop, AllEnded

LEMMA IpcAlways ==
  ASSUME IgnoresSigpipe
  PROVE  Spec => []IpcInv
<1>1. IpcInv /\ [Next]_vars => IpcInv'
  BY IpcStep
<1> QED
  BY <1>1, IpcInit, PTL DEF Spec

Phase ==
  [c \in Clients |->
     IF client[c] \in {"connect", "send", "recv"} THEN "called" ELSE client[c]]

(* A step of a client is a step of the service or none: a client that      *)
(* gives up fails, one that reads its reply returns.                       *)
LEMMA ClientRefines ==
  ASSUME IpcInv, NEW c \in Clients, Client(c)
  PROVE  [Service!Next]_Service!vars
<1>1. UNCHANGED loopVars
  BY ClientStep
<1>2. UNCHANGED <<no_fec, answer, loop, Listening>>
  BY <1>1 DEF loopVars, Listening
<1>3. client \in [Clients -> {"idle", "connect", "send", "recv", "ok", "failed"}]
  BY DEF IpcInv, IpcTypes
<1>4. CASE Call(c)
  <2>1. Phase[c] = "idle" /\ Phase' = [Phase EXCEPT ![c] = "called"]
    BY <1>3, <1>4 DEF Call, Phase
  <2>2. Service!Call(c)
    BY <1>2, <1>4, <2>1 DEF Call, Service!Call, Phase
  <2> QED
    BY <2>2 DEF Service!Next
<1>5. CASE (Connect(c) \/ Send(c)) /\ client'[c] # "failed"
  <2>1. Phase' = Phase
    BY <1>3, <1>5 DEF Connect, Send, GivesUp, Phase
  <2> QED
    BY <1>2, <1>5, <2>1 DEF Connect, Send, Phase, Service!vars
<1>6. CASE ((Connect(c) \/ Send(c)) /\ client'[c] = "failed") \/ NoAnswer(c)
  <2>1. Phase[c] = "called" /\ Phase' = [Phase EXCEPT ![c] = "failed"]
    BY <1>3, <1>6 DEF Connect, Send, NoAnswer, GivesUp, Phase
  <2>2. UNCHANGED <<query, result>>
    BY <1>6 DEF Connect, Send, NoAnswer
  <2>3. Service!Fail(c)
    BY <1>2, <2>1, <2>2 DEF Service!Fail, Phase
  <2> QED
    BY <2>3 DEF Service!Next
<1>7. CASE Receive(c)
  <2>1. reply[c] # NoMsg /\ reply[c] = answer[c]
    BY <1>7 DEF Receive, IpcInv, Replies
  <2>2. /\ Phase[c] = "called"
        /\ Phase' = [Phase EXCEPT ![c] =
                       IF answer[c].result = "ok" THEN "ok" ELSE "failed"]
    BY <1>3, <1>7, <2>1 DEF Receive, Phase
  <2>3. result' = [result EXCEPT ![c] = answer[c]] /\ UNCHANGED query
    BY <1>7, <2>1 DEF Receive
  <2>4. Service!Return(c)
    BY <1>2, <2>1, <2>2, <2>3 DEF Service!Return, Phase, NoMsg, Service!NoMsg
  <2> QED
    BY <2>4 DEF Service!Next
<1> QED
  BY <1>4, <1>5, <1>6, <1>7 DEF Client

(* Of the steps of ipc_rx, the execution of a request is its moment, and   *)
(* the end of the loop is the service's; the others change nothing.        *)
LEMMA LoopRefines ==
  ASSUME IpcInv, IgnoresSigpipe, Loop
  PROVE  [Service!Next]_Service!vars
<1>1. UNCHANGED clientVars
  BY DEF Loop, Accept, AcceptFails, NoRequest, Execute, Reply, Exit
<1>2. UNCHANGED <<Phase, query, result>>
  BY <1>1 DEF clientVars, Phase
<1>3. CASE Accept \/ AcceptFails \/ NoRequest \/ Reply
  <2>1. UNCHANGED <<no_fec, answer>>
    BY <1>3 DEF Accept, AcceptFails, NoRequest, Reply
  <2>2. UNCHANGED Listening
    BY <1>3 DEF Accept, AcceptFails, NoRequest, Reply, AfterReply, Listening
  <2> QED
    BY <1>2, <2>1, <2>2 DEF Service!vars, Phase
<1>4. CASE Execute
  <2>1. Undone(cur) /\ no_fec' = Service!Setting(query[cur], no_fec)
    BY <1>4, ExecuteAnswers
  <2>2. answer' = [answer EXCEPT ![cur] =
          Service!Answer(query[cur], no_fec, Cardinality(Done) + 1)]
    BY <1>4, ExecuteAnswers
  <2>3. Service!Served = Done
    BY DEF Service!Served, Done, NoMsg, Service!NoMsg
  <2>4. Listening /\ Listening'
    BY <1>4 DEF Execute, Listening
  <2>5. Phase[cur] \in {"called", "failed"}
    BY <2>1 DEF Undone, Phase
  <2>6. answer[cur] = Service!NoMsg
    BY <2>1 DEF Undone, NoMsg, Service!NoMsg
  <2>7. answer' = [answer EXCEPT ![cur] =
          Service!Answer(query[cur], no_fec,
                         Service!Cardinality(Service!Served) + 1)]
    BY <2>2, <2>3, SameCardinality
  <2>8. UNCHANGED <<~Listening, Phase, query, result>>
    BY <1>2, <2>4
  <2>9. Service!Do(cur)
    BY <2>1, <2>4, <2>5, <2>6, <2>7, <2>8 DEF Service!Do, Phase
  <2> QED
    BY <2>1, <2>9 DEF Service!Next, Undone
<1>5. CASE Exit
  <2>1. cur \in Service!Served /\ query[cur] = "exit"
    BY <1>5 DEF Exit, IpcInv, InHand, Service!Served, NoMsg, Service!NoMsg
  <2>2. Listening /\ ~Listening' /\ UNCHANGED <<no_fec, answer>>
    BY <1>5 DEF Exit, Listening
  <2>3. Service!Stop
    BY <1>2, <2>1, <2>2 DEF Service!Stop, Phase
  <2> QED
    BY <2>3 DEF Service!Next
<1> QED
  BY <1>3, <1>4, <1>5 DEF Loop

(* A daemon's control socket is linearizable, for any number of clients:   *)
(* ipc_rx and ipc_tx, with every wait of theirs cut short at any moment,   *)
(* do each request once or not at all, report the setting and the count of *)
(* that moment, and only a request to exit ends the listener.              *)
THEOREM ServiceImplemented ==
  ASSUME IgnoresSigpipe
  PROVE  Spec => Linearizable
<1>1. Init => Service!Init
  BY DEF Init, Service!Init, Listening, NoMsg, Service!NoMsg, None, Service!None
<1>2. IpcInv /\ [Next]_vars => [Service!Next]_Service!vars
  <2> SUFFICES ASSUME IpcInv, [Next]_vars
               PROVE  [Service!Next]_Service!vars
    OBVIOUS
  <2>1. CASE UNCHANGED vars
    BY <2>1 DEF vars, loopVars, clientVars, Service!vars, Listening
  <2>2. CASE Descriptors
    BY <2>2 DEF Descriptors, loopVars, clientVars, Service!vars, Listening
  <2> QED
    BY <2>1, <2>2, ClientRefines, LoopRefines DEF Next, AllEnded
<1> QED
  BY <1>1, <1>2, IpcAlways, PTL DEF Spec, Linearizable, Service!Spec
=============================================================================
