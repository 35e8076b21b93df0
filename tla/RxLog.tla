-------------------------------- MODULE RxLog --------------------------------
(***************************************************************************)
(* The receive log of a listener (rx_log.c and the message hook of         *)
(* util_msg.c), with -L.  A log is a sequence of chunks, one per fwrite: a *)
(* record is a header chunk, followed by a chunk of data when it has a     *)
(* payload.  The network thread logs frames, decoded frames and messages;  *)
(* with -l the player's thread logs its messages to the same stream, and   *)
(* nothing holds the two apart but the stream's own lock, which is taken   *)
(* per fwrite.  A listener may end between any two chunks.                 *)
(*                                                                         *)
(* A log holds one session after another: rx_session rotates it only when  *)
(* the epoch has not risen, and the file header keeps the first's code.    *)
(*                                                                         *)
(* Every frame is logged, before it is looked at: a fragment as often as   *)
(* it arrives, from whomever.  What the receiver may hand over is bounded  *)
(* by what module Receiver shows of it: in a session a fragment is         *)
(* delivered once, in ascending order within its block, and only when it   *)
(* or fec_k fragments of its block were heard.                             *)
(***************************************************************************)
EXTENDS Integers, FiniteSets, Sequences, SequencesExt

CONSTANTS
  Codes,          \* the fec_k and fec_n sessions have, as k and n
  Blocks,         \* block numbers
  Mirrors,        \* the nodes that redistribute frames
  Dbms,           \* per source: what it reports, DbmInval for none
  NullFragments,  \* those that may be sent with WFB_PACKET_F_FEC_ONLY
  Captures,       \* frames also come from a capture on this host, -w
  Debug,          \* -d
  PlayerThread,   \* -l
  MaxSessions,    \* bound: sessions
  MaxOld,         \* bound: chunks of the logs before the last
  MaxChunks,      \* bound: chunks of all logs together
  MaxFrames,      \* bound: frames per log
  MaxOther        \* bound: messages and notices of corrupt frames per log

Sources == Mirrors \cup (IF Captures THEN {"capture"} ELSE {})

ASSUME RxLogAssumption ==
  /\ \A code \in Codes : /\ code \in [k : Nat \ {0}, n : Nat \ {0}]
                         /\ code.k <= code.n
  /\ Blocks \subseteq Nat
  /\ Dbms \in [Sources -> SUBSET Int]
  /\ "capture" \notin Mirrors

DbmInval == -32768                \* DBM_INVAL

Threads == IF PlayerThread THEN {"net", "gst"} ELSE {"net"}

VARIABLES
  logs,          \* the log files, by the number fixup_filename gives them
  fp,            \* the log that is open, or NoLog
  logSeq,        \* log->seq
  pending,       \* per thread: chunks it has begun to write
  msgSeq,        \* the static seq of rx_log_hook
  sessions,      \* history, per log: the code of each session, and how many
                 \* chunks the log had when it began
  delivered,     \* history, per log: what the receiver delivered: session,
                 \* block, fragment, and whether it had a payload
  torn,          \* history: the logs that end within a record
  running        \* the listener runs

logVars == <<logs, fp, logSeq, pending, msgSeq, sessions, delivered, torn, running>>

NoLog == -1

(* A header chunk; what a type leaves out is zero, as after memset.        *)
Header(type) ==
  [kind |-> "head", type |-> type, seq |-> 0, block |-> 0, frag |-> 0,
   dbm |-> 0, src |-> "none", fec_k |-> 0]

FileHeader(code) == [Header("file") EXCEPT !.kind = "file", !.fec_k = code.k]

Payload(head) == [head EXCEPT !.kind = "data"]

Seq2Key(code, b, f) == b * code.n + f

Written == FoldFunction(LAMBDA log, n : Len(log) + n, 0, logs)

Begun == FoldFunction(LAMBDA seq, n : Len(seq) + n, 0, sessions)

(* The session that writes to the open log.                                *)
Current == Len(sessions[fp])

Session == sessions[fp][Current]

(* fwrite, once per chunk: the first now, the others in the thread's later *)
(* steps.                                                                  *)
Emit_HeaderOnly(t, chunks) ==
  /\ Written + Len(chunks) <= MaxChunks
  /\ logs' = [logs EXCEPT ![fp] = Append(@, chunks[1])]
  /\ pending' = pending

Emit(t, chunks) ==
  /\ Written + Len(chunks) <= MaxChunks
  /\ logs' = [logs EXCEPT ![fp] = Append(@, chunks[1])]
  /\ pending' = [pending EXCEPT ![t] = Tail(chunks)]

Idle(t) == running /\ pending[t] = <<>>

(* rx_log_hook                                                             *)
MessageRecord(type) ==
  LET head == [Header(type) EXCEPT !.seq = msgSeq] IN <<head, Payload(head)>>

(* A p_debug on the way: with -d it reaches the hook.                      *)
DebugRecord == IF Debug THEN MessageRecord("msg_debug") ELSE <<>>

CountDebug == msgSeq' = IF Debug THEN msgSeq + 1 ELSE msgSeq

-----------------------------------------------------------------------------
(* fixup_filename: the first number from log->seq that no file has.        *)
FixupFilename_NoStat(seq) == seq

FixupFilename(seq) ==
  CHOOSE n \in seq .. seq + Cardinality(DOMAIN logs) :
    n \notin DOMAIN logs /\ \A k \in seq .. n - 1 : k \in DOMAIN logs

(* rx_session accepts an announcement whose epoch is not above the last:   *)
(* rx_log_create.  A p_debug comes between fopen and the file header.      *)
Create ==
  LET name == FixupFilename(logSeq)
  IN
  /\ Idle("net")
  /\ Begun < MaxSessions /\ Written <= MaxOld
  /\ fp' = name
  /\ logSeq' = name
  /\ logs' = [n \in DOMAIN logs \cup {name} |-> IF n = name THEN <<>> ELSE logs[n]]
  /\ CountDebug
  /\ delivered' = [n \in DOMAIN delivered \cup {name} |->
                     IF n = name THEN {} ELSE delivered[n]]
  /\ \E code \in Codes :
       /\ pending' = [pending EXCEPT !["net"] = Append(DebugRecord, FileHeader(code))]
       /\ sessions' = [n \in DOMAIN sessions \cup {name} |->
                         IF n = name THEN <<[k |-> code.k, n |-> code.n, at |-> 0]>>
                         ELSE sessions[n]]
  /\ UNCHANGED <<torn, running>>

(* One whose epoch has risen: the log goes on.                             *)
Rekey ==
  /\ Idle("net") /\ fp # NoLog
  /\ Begun < MaxSessions
  /\ \E code \in Codes :
       sessions' = [sessions EXCEPT ![fp] =
                      Append(@, [k |-> code.k, n |-> code.n, at |-> Len(logs[fp])])]
  /\ UNCHANGED <<logs, fp, logSeq, pending, msgSeq, delivered, torn, running>>

IsFrame(c) == c.kind = "head" /\ c.type \in {"inet6", "unspec"}

FramesSince(log, at) == {i \in at + 1 .. Len(log) : IsFrame(log[i])}

(* rx_log_frame.  A captured frame has no source address, and no type.     *)
FrameType(src) == IF src = "capture" THEN "unspec" ELSE "inet6"

LogFrame ==
  /\ Idle("net") /\ fp # NoLog
  /\ Cardinality(FramesSince(logs[fp], 0)) < MaxFrames
  /\ \E b \in Blocks, f \in 0 .. Session.n - 1, src \in Sources :
       \E dbm \in Dbms[src] :
         Emit("net", Append(DebugRecord,
           [Header(FrameType(src)) EXCEPT !.seq = Seq2Key(Session, b, f),
              !.block = b, !.frag = f, !.dbm = dbm, !.src = src]))
  /\ CountDebug
  /\ UNCHANGED <<fp, logSeq, sessions, delivered, torn, running>>

(* Bound                                                                   *)
OtherAllowed ==
  Cardinality({i \in DOMAIN logs[fp] : /\ logs[fp][i].kind = "head"
                                       /\ logs[fp][i].type \in {"msg", "corrupt"}})
    < MaxOther

(* rx_log_corrupt: the address is copied for AF_INET only, which no source *)
(* has, and sequence and block stay zero.                                  *)
LogCorrupt ==
  /\ Idle("net") /\ fp # NoLog
  /\ OtherAllowed
  /\ \E src \in Sources : \E dbm \in Dbms[src] :
       Emit("net", <<[Header("corrupt") EXCEPT !.dbm = dbm]>>)
  /\ UNCHANGED <<fp, logSeq, msgSeq, sessions, delivered, torn, running>>

(* Fragment f of block b can be delivered: of the frames of this session,  *)
(* whether or not they were authentic.                                     *)
Deliverable(b, f) ==
  LET log   == logs[fp]
      heard == {log[i].frag :
                  i \in {i \in FramesSince(log, Session.at) : log[i].block = b}}
  IN  f \in heard \/ Cardinality(heard) >= Session.k

(* send_data_frame of rx_data.c and rx_log_decode: a frame that only       *)
(* completes the FEC block has no record.                                  *)
Deliver ==
  /\ Idle("net") /\ fp # NoLog
  /\ \E b \in Blocks, f \in 0 .. Session.k - 1 :
       LET head == [Header("decode") EXCEPT !.seq = Seq2Key(Session, b, f),
                      !.block = b, !.frag = f, !.dbm = DbmInval]
       IN
       /\ Deliverable(b, f)
       /\ \A d \in delivered[fp] : d[1] = Current /\ d[2] = b => d[3] < f
       /\ \/ /\ Emit("net", DebugRecord \o <<head, Payload(head)>>)
             /\ CountDebug
             /\ delivered' = [delivered EXCEPT ![fp] = @ \cup {<<Current, b, f, TRUE>>}]
          \/ /\ f \in NullFragments
             /\ UNCHANGED <<logs, pending, msgSeq>>
             /\ delivered' = [delivered EXCEPT ![fp] = @ \cup {<<Current, b, f, FALSE>>}]
  /\ UNCHANGED <<fp, logSeq, sessions, torn, running>>

(* p_info and p_err in a thread, with the hook.                            *)
Message(t) ==
  /\ Idle(t) /\ fp # NoLog
  /\ OtherAllowed
  /\ Emit(t, MessageRecord("msg"))
  /\ msgSeq' = msgSeq + 1
  /\ UNCHANGED <<fp, logSeq, sessions, delivered, torn, running>>

(* The next fwrite of a record: to whichever log is open.                  *)
Write(t) ==
  /\ running /\ pending[t] # <<>>
  /\ logs' = [logs EXCEPT ![fp] = Append(@, pending[t][1])]
  /\ pending' = [pending EXCEPT ![t] = Tail(@)]
  /\ UNCHANGED <<fp, logSeq, msgSeq, sessions, delivered, torn, running>>

(* The listener ends; when it is killed, perhaps within a record.          *)
End ==
  /\ running /\ fp # NoLog
  /\ torn' = IF \A t \in Threads : pending[t] = <<>> THEN torn ELSE torn \cup {fp}
  /\ running' = FALSE
  /\ fp' = NoLog
  /\ pending' = [t \in Threads |-> <<>>]
  /\ UNCHANGED <<logs, logSeq, msgSeq, sessions, delivered>>

(* It is started again: the static variables are as at first.              *)
Restart ==
  /\ ~running
  /\ Begun < MaxSessions /\ Written <= MaxOld
  /\ running' = TRUE
  /\ logSeq' = 0 /\ msgSeq' = 0
  /\ UNCHANGED <<logs, fp, pending, sessions, delivered, torn>>

LogInit ==
  /\ logs = <<>> /\ sessions = <<>> /\ delivered = <<>>
  /\ fp = NoLog /\ logSeq = 0 /\ msgSeq = 0
  /\ pending = [t \in Threads |-> <<>>]
  /\ torn = {}
  /\ running = TRUE

LogNext ==
  \/ Create \/ Rekey \/ LogFrame \/ LogCorrupt \/ Deliver
  \/ \E t \in Threads : Message(t) \/ Write(t)
  \/ End \/ Restart

LogSpec == LogInit /\ [][LogNext]_logVars

-----------------------------------------------------------------------------
(* Properties                                                              *)

(* A log that is not open is never changed: a new session or a restarted   *)
(* listener takes a name that no file has.                                 *)
OldLogsKept ==
  [][\A n \in DOMAIN logs : n # fp => n \in DOMAIN logs' /\ logs'[n] = logs[n]]_logVars

(* Without -d, a log that the network thread alone writes to begins with   *)
(* the file header, and the data of a record follow its header at once:    *)
(* through rotations, kills within a record and restarts.  A second        *)
(* thread, -l, tears records apart: nothing holds the two fwrites of       *)
(* rx_log together.  With -d a message precedes the file header.           *)
HasData(c) == c.kind = "head" /\ c.type \in {"decode", "msg", "msg_debug"}

WellFormed ==
  \A n \in DOMAIN logs :
    /\ logs[n] # <<>> => logs[n][1].kind = "file"
    /\ \A i \in 2 .. Len(logs[n]) :
         logs[n][i].kind = "data" => logs[n][i] = Payload(logs[n][i - 1])
    /\ \A i \in 1 .. Len(logs[n]) - 1 :
         HasData(logs[n][i]) => logs[n][i + 1].kind = "data"

=============================================================================
