------------------------------ MODULE LogProofs ------------------------------
(***************************************************************************)
(* Proofs about the receive log and its analyser, for any code, any number *)
(* of logs, blocks, messages and commands, and a kill at any moment: what  *)
(* a listener leaves in its logs, what the analyser loads of it, and what  *)
(* its filter, its replay and its summary say.                             *)
(***************************************************************************)
EXTENDS LogAnalysis, FiniteSetTheorems, SequenceTheorems, WellFoundedInduction, TLAPS

-----------------------------------------------------------------------------
(* Names of logs                                                           *)

(* fixup_filename ends, with a name that no file has.                      *)
LEMMA FreshName ==
  ASSUME IsFiniteSet(DOMAIN logs), NEW seq \in Nat
  PROVE  FixupFilename(seq) \in Nat /\ FixupFilename(seq) \notin DOMAIN logs
<1> DEFINE D == DOMAIN logs
           c == Cardinality(D)
           Free == {n \in seq .. seq + c : n \notin D}
<1>1. c \in Nat
  BY FS_CardinalityType
<1>2. Free # {}
  <2> SUFFICES ASSUME Free = {} PROVE FALSE
    OBVIOUS
  <2>1. (seq .. seq + c) \in SUBSET D
    OBVIOUS
  <2>2. Cardinality(seq .. seq + c) = c + 1
    BY <1>1, FS_Interval
  <2>3. Cardinality(seq .. seq + c) <= c
    BY <2>1, FS_Subset
  <2> QED
    BY <1>1, <2>2, <2>3
<1> DEFINE R == OpToRel(<, Nat)
<1>3. IsWellFoundedOn(R, Nat)
  BY NatLessThanWellFounded
<1>4. \A x, y \in Nat : <<x, y>> \in R <=> x < y
  BY DEF R, OpToRel
<1>5. Free \subseteq Nat
  BY <1>1
<1> HIDE DEF R
<1>6. PICK n \in Free : \A y \in Free : ~ (<<y, n>> \in R)
  BY <1>2, <1>3, <1>5, WFMin
<1>7. \A k \in seq .. n - 1 : k \in D
  <2> SUFFICES ASSUME NEW k \in seq .. n - 1, k \notin D PROVE FALSE
    OBVIOUS
  <2>1. k \in Free /\ k < n
    BY <1>1, <1>5, <1>6
  <2> QED
    BY <1>4, <1>5, <1>6, <2>1
<1>8. n \in seq .. seq + c /\ n \notin D
  BY <1>6
<1>9. /\ FixupFilename(seq) \in seq .. seq + c
      /\ FixupFilename(seq) \notin D
  BY <1>7, <1>8 DEF FixupFilename
<1> QED
  BY <1>1, <1>9

-----------------------------------------------------------------------------
(* Chunks                                                                  *)

Types == {"file", "inet6", "unspec", "corrupt", "decode", "msg", "msg_debug"}

Chunk ==
  [kind : {"file", "head", "data"}, type : Types, seq : Int, block : Int,
   frag : Int, dbm : Int, src : Mirrors \cup {"none", "capture"}, fec_k : Nat]

(* The chunks rx_log makes are chunks, and only a header announces data.   *)
LEMMA ChunkTypes ==
  /\ \A code \in Codes : /\ FileHeader(code) \in Chunk
                         /\ FileHeader(code).kind = "file" /\ ~HasData(FileHeader(code))
                         /\ FileHeader(code).fec_k = code.k
  /\ \A c \in Chunk : Payload(c) \in Chunk /\ Payload(c).kind = "data" /\ ~HasData(Payload(c))
  /\ \A type \in Types :
       Header(type) \in Chunk /\ Header(type).kind = "head" /\ Header(type).type = type
<1>1. \A type \in Types :
        Header(type) \in Chunk /\ Header(type).kind = "head" /\ Header(type).type = type
  BY DEF Header, Chunk
<1>2. ASSUME NEW code \in Codes
      PROVE  /\ FileHeader(code) \in Chunk /\ FileHeader(code).kind = "file"
             /\ FileHeader(code).fec_k = code.k
  <2>1. ASSUME NEW c \in Chunk, NEW k \in Nat
        PROVE  LET d == [c EXCEPT !.kind = "file", !.fec_k = k]
               IN  d \in Chunk /\ d.kind = "file" /\ d.fec_k = k
    BY DEF Chunk
  <2>2. Header("file") \in Chunk /\ code.k \in Nat
    BY <1>1, RxLogAssumption DEF Types
  <2> QED
    BY Zenon, <2>1, <2>2 DEF FileHeader
<1>3. ASSUME NEW c \in Chunk
      PROVE  Payload(c) \in Chunk /\ Payload(c).kind = "data"
  BY DEF Payload, Chunk
<1> QED
  BY <1>1, <1>2, <1>3 DEF HasData

(* Filling in the fields of a header, as each kind of record does.         *)
IsHead(head, type) ==
  /\ head \in Chunk /\ head.kind = "head"
  /\ HasData(head) <=> type \in {"decode", "msg", "msg_debug"}

(* rx_log_hook fills in the sequence number ...                            *)
LEMMA MessageHead ==
  ASSUME NEW type \in Types, NEW seq \in Int
  PROVE  IsHead([Header(type) EXCEPT !.seq = seq], type)
<1> DEFINE c == Header(type)
<1>1. c \in Chunk /\ c.kind = "head" /\ c.type = type
  BY ChunkTypes
<1> HIDE DEF c
<1>2. IsHead([c EXCEPT !.seq = seq], type)
  BY <1>1 DEF Chunk, HasData, IsHead
<1> QED
  BY <1>2 DEF c

(* ... rx_log_corrupt the strength ...                                     *)
LEMMA NoticeHead ==
  ASSUME NEW type \in Types, NEW dbm \in Int
  PROVE  IsHead([Header(type) EXCEPT !.dbm = dbm], type)
<1> DEFINE c == Header(type)
<1>1. c \in Chunk /\ c.kind = "head" /\ c.type = type
  BY ChunkTypes
<1> HIDE DEF c
<1>2. IsHead([c EXCEPT !.dbm = dbm], type)
  BY <1>1 DEF Chunk, HasData, IsHead
<1> QED
  BY <1>2 DEF c

(* ... rx_log_decode all but the source ...                                *)
LEMMA DecodeHead ==
  ASSUME NEW type \in Types, NEW seq \in Int, NEW block \in Int, NEW frag \in Int,
         NEW dbm \in Int
  PROVE  IsHead([Header(type) EXCEPT !.seq = seq, !.block = block, !.frag = frag,
                                     !.dbm = dbm], type)
<1> DEFINE c == Header(type)
<1>1. c \in Chunk /\ c.kind = "head" /\ c.type = type
  BY ChunkTypes
<1> HIDE DEF c
<1>2. IsHead([c EXCEPT !.seq = seq, !.block = block, !.frag = frag, !.dbm = dbm], type)
  BY <1>1 DEF Chunk, HasData, IsHead
<1> QED
  BY <1>2 DEF c

(* ... and rx_log_frame everything.                                        *)
LEMMA FrameHead ==
  ASSUME NEW type \in Types, NEW seq \in Int, NEW block \in Int, NEW frag \in Int,
         NEW dbm \in Int, NEW src \in Mirrors \cup {"none", "capture"}
  PROVE  IsHead([Header(type) EXCEPT !.seq = seq, !.block = block, !.frag = frag,
                                     !.dbm = dbm, !.src = src], type)
<1> DEFINE c == Header(type)
<1>1. c \in Chunk /\ c.kind = "head" /\ c.type = type
  BY ChunkTypes
<1> HIDE DEF c
<1>2. IsHead([c EXCEPT !.seq = seq, !.block = block, !.frag = frag, !.dbm = dbm,
                       !.src = src], type)
  BY <1>1 DEF Chunk, HasData, IsHead
<1> QED
  BY <1>2 DEF c

-----------------------------------------------------------------------------
(* What a log consists of, whoever writes it                               *)

SessionRec == {s \in [k : Nat \ {0}, n : Nat \ {0}, at : Nat] : s.k <= s.n}

ChunkInv ==
  /\ logs \in [DOMAIN logs -> Seq(Chunk)]
  /\ pending \in [Threads -> Seq(Chunk)]
  /\ msgSeq \in Nat
  /\ fp \in DOMAIN logs \cup {NoLog}
  /\ sessions \in [DOMAIN logs -> Seq(SessionRec)]
  /\ \A n \in DOMAIN logs : sessions[n] # <<>>

(* While a log is open, a session writes to it.                            *)
LEMMA CurrentSession ==
  ASSUME ChunkInv, fp # NoLog
  PROVE  /\ Session.k \in Nat \ {0} /\ Session.n \in Nat \ {0} /\ Session.k <= Session.n
         /\ fp \in DOMAIN logs /\ Current \in DOMAIN sessions[fp]
         /\ Current = Len(sessions[fp]) /\ Session = sessions[fp][Current]
<1>1. sessions[fp] \in Seq(SessionRec) /\ sessions[fp] # <<>> /\ fp \in DOMAIN logs
  BY DEF ChunkInv
<1>2. Len(sessions[fp]) \in DOMAIN sessions[fp]
      /\ sessions[fp][Len(sessions[fp])] \in SessionRec
  BY <1>1
<1> QED
  BY <1>1, <1>2 DEF SessionRec, Current, Session

(* Writing chunks leaves a log of chunks ...                               *)
LEMMA EmitTypes ==
  ASSUME ChunkInv, msgSeq' \in Nat, NEW t, NEW chunks \in Seq(Chunk), chunks # <<>>,
         Emit(t, chunks), UNCHANGED <<fp, sessions>>
  PROVE  ChunkInv'
<1>1. chunks[1] \in Chunk /\ Tail(chunks) \in Seq(Chunk)
  OBVIOUS
<1>2. /\ logs' = [logs EXCEPT ![fp] = Append(@, chunks[1])]
      /\ pending' = [pending EXCEPT ![t] = Tail(chunks)]
  BY DEF Emit
<1>3. \A n \in DOMAIN logs : Append(logs[n], chunks[1]) \in Seq(Chunk)
  BY <1>1 DEF ChunkInv
<1>4. DOMAIN logs' = DOMAIN logs
  BY <1>2
<1> QED
  BY <1>1, <1>2, <1>3, <1>4 DEF ChunkInv

(* ... also those of two records ...                                       *)
LEMMA Joined ==
  ASSUME NEW a \in Seq(Chunk), NEW b \in Seq(Chunk), b # <<>>
  PROVE  a \o b \in Seq(Chunk) /\ a \o b # <<>>
<1>1. a \o b \in Seq(Chunk) /\ Len(a \o b) = Len(a) + Len(b)
  BY ConcatProperties
<1>2. Len(a) \in Nat /\ Len(b) \in Nat /\ Len(b) # 0
  BY EmptySeq
<1>3. Len(a \o b) # 0
  BY <1>1, <1>2
<1> QED
  BY <1>1, <1>3

(* ... and of messages.                                                    *)
LEMMA RecordTypes ==
  ASSUME ChunkInv, NEW type \in Types
  PROVE  /\ MessageRecord(type) \in Seq(Chunk) /\ MessageRecord(type) # <<>>
         /\ DebugRecord \in Seq(Chunk)
<1>1. ASSUME NEW ty \in Types
      PROVE  MessageRecord(ty) \in Seq(Chunk) /\ MessageRecord(ty) # <<>>
  <2> DEFINE head == [Header(ty) EXCEPT !.seq = msgSeq]
  <2>1. MessageRecord(ty) = <<head, Payload(head)>>
    BY DEF MessageRecord
  <2>2. msgSeq \in Int
    BY DEF ChunkInv
  <2>3. head \in Chunk
    BY <2>2, MessageHead DEF IsHead
  <2> HIDE DEF head
  <2>4. Payload(head) \in Chunk
    BY <2>3, ChunkTypes
  <2> QED
    BY <2>1, <2>3, <2>4
<1>2. "msg_debug" \in Types
  BY DEF Types
<1>3. DebugRecord \in Seq(Chunk)
  BY <1>1, <1>2 DEF DebugRecord
<1> QED
  BY <1>1, <1>3

(* A session begins a log, or goes on in one.                              *)
LEMMA SessionTypes ==
  ASSUME ChunkInv, Create \/ Rekey
  PROVE  ChunkInv'
<1>1. CASE Create
  <2>1. PICK code \in Codes :
          /\ pending' = [pending EXCEPT !["net"] = Append(DebugRecord, FileHeader(code))]
          /\ sessions' = [n \in DOMAIN sessions \cup {FixupFilename(logSeq)} |->
                            IF n = FixupFilename(logSeq)
                            THEN <<[k |-> code.k, n |-> code.n, at |-> 0]>>
                            ELSE sessions[n]]
    BY <1>1 DEF Create
  <2> DEFINE name == FixupFilename(logSeq)
             first == [k |-> code.k, n |-> code.n, at |-> 0]
             c == Append(DebugRecord, FileHeader(code))
  <2>2. /\ logs' = [n \in DOMAIN logs \cup {name} |-> IF n = name THEN <<>> ELSE logs[n]]
        /\ pending' = [pending EXCEPT !["net"] = c] /\ fp' = name
        /\ sessions' = [n \in DOMAIN sessions \cup {name} |->
                          IF n = name THEN <<first>> ELSE sessions[n]]
    BY <1>1, <2>1 DEF Create
  <2>2a. msgSeq' \in Nat
    BY <1>1 DEF Create, CountDebug, ChunkInv
  <2>3. first \in SessionRec
    BY RxLogAssumption DEF SessionRec
  <2>4. c \in Seq(Chunk)
    <3>1. DebugRecord \in Seq(Chunk) /\ FileHeader(code) \in Chunk
      BY RecordTypes, ChunkTypes DEF Types
    <3> QED
      BY <3>1
  <2> HIDE DEF name, c, first
  <2>5. /\ <<>> \in Seq(Chunk) /\ <<first>> \in Seq(SessionRec) /\ <<first>> # <<>>
        /\ DOMAIN sessions = DOMAIN logs
        /\ \A n \in DOMAIN logs : /\ logs[n] \in Seq(Chunk)
                                  /\ sessions[n] \in Seq(SessionRec) /\ sessions[n] # <<>>
    BY <2>3 DEF ChunkInv
  <2>6. DOMAIN logs' = DOMAIN logs \cup {name} /\ logs' \in [DOMAIN logs' -> Seq(Chunk)]
    BY <2>2, <2>5
  <2>7. /\ sessions' \in [DOMAIN logs' -> Seq(SessionRec)]
        /\ \A n \in DOMAIN logs' : sessions'[n] # <<>>
    BY <2>2, <2>5, <2>6
  <2>8. pending' \in [Threads -> Seq(Chunk)]
    BY <2>2, <2>4 DEF ChunkInv
  <2> QED
    BY <2>2, <2>2a, <2>6, <2>7, <2>8 DEF ChunkInv
<1>2. CASE Rekey
  <2>1. PICK code \in Codes :
          sessions' = [sessions EXCEPT ![fp] =
                         Append(@, [k |-> code.k, n |-> code.n, at |-> Len(logs[fp])])]
    BY <1>2 DEF Rekey
  <2> DEFINE next == [k |-> code.k, n |-> code.n, at |-> Len(logs[fp])]
  <2>2. /\ fp # NoLog /\ UNCHANGED <<logs, fp, pending, msgSeq>>
        /\ sessions' = [sessions EXCEPT ![fp] = Append(@, next)]
    BY <1>2, <2>1 DEF Rekey
  <2>3. fp \in DOMAIN logs /\ logs[fp] \in Seq(Chunk) /\ sessions[fp] \in Seq(SessionRec)
    BY <2>2 DEF ChunkInv
  <2>4. next \in SessionRec
    BY <2>3, RxLogAssumption DEF SessionRec
  <2> HIDE DEF next
  <2>5. Append(sessions[fp], next) \in Seq(SessionRec) /\ Append(sessions[fp], next) # <<>>
    BY <2>3, <2>4, AppendProperties
  <2> QED
    BY <2>2, <2>3, <2>5 DEF ChunkInv
<1> QED
  BY <1>1, <1>2

(* Every step of either thread writes chunks alone.                        *)
LEMMA ChunkStep ==
  ASSUME ChunkInv, [Next]_vars
  PROVE  ChunkInv'
<1>0. DebugRecord \in Seq(Chunk) /\ "msg" \in Types
  BY RecordTypes DEF Types
<1>1. CountDebug => msgSeq' \in Nat
  BY DEF CountDebug, ChunkInv
<1>2. CASE Create \/ Rekey
  BY <1>2, SessionTypes
<1>3. \A src \in Sources : \A dbm \in Dbms[src] : dbm \in Int
  BY RxLogAssumption
<1>4. CASE LogFrame
  <2>1. PICK b \in Blocks, f \in 0 .. Session.n - 1, src \in Sources :
          \E dbm \in Dbms[src] :
             Emit("net", Append(DebugRecord,
               [Header(FrameType(src)) EXCEPT !.seq = Seq2Key(Session, b, f), !.block = b,
                  !.frag = f, !.dbm = dbm, !.src = src]))
    BY <1>4 DEF LogFrame
  <2>2. PICK dbm \in Dbms[src] :
             Emit("net", Append(DebugRecord,
               [Header(FrameType(src)) EXCEPT !.seq = Seq2Key(Session, b, f), !.block = b,
                  !.frag = f, !.dbm = dbm, !.src = src]))
    BY <2>1
  <2>3. b \in Int /\ f \in Int /\ Seq2Key(Session, b, f) \in Int /\ dbm \in Int
    <3>1. Session.n \in Nat
      BY <1>4, CurrentSession DEF LogFrame
    <3> QED
      BY <1>3, <3>1, RxLogAssumption DEF Seq2Key
  <2>4. FrameType(src) \in Types /\ src \in Mirrors \cup {"none", "capture"}
    BY DEF FrameType, Types, Sources
  <2> DEFINE head == [Header(FrameType(src)) EXCEPT !.seq = Seq2Key(Session, b, f),
                        !.block = b, !.frag = f, !.dbm = dbm, !.src = src]
  <2>5. IsHead(head, FrameType(src))
    BY <2>3, <2>4, FrameHead
  <2> HIDE DEF head
  <2>6. head \in Chunk
    BY <2>5 DEF IsHead
  <2>7. Append(DebugRecord, head) \in Seq(Chunk) /\ Append(DebugRecord, head) # <<>>
    BY <1>0, <2>6
  <2>8. /\ msgSeq' \in Nat /\ Emit("net", Append(DebugRecord, head))
        /\ UNCHANGED <<fp, sessions>>
    BY <1>1, <1>4, <2>2 DEF LogFrame, head
  <2> QED
    BY <2>7, <2>8, EmitTypes
<1>5. CASE LogCorrupt
  <2>1. PICK src \in Sources : \E dbm \in Dbms[src] :
          Emit("net", <<[Header("corrupt") EXCEPT !.dbm = dbm]>>)
    BY <1>5 DEF LogCorrupt
  <2>2. PICK dbm \in Dbms[src] : Emit("net", <<[Header("corrupt") EXCEPT !.dbm = dbm]>>)
    BY <2>1
  <2> DEFINE head == [Header("corrupt") EXCEPT !.dbm = dbm]
  <2>3. head \in Chunk
    BY <1>3, NoticeHead DEF IsHead, Types
  <2> HIDE DEF head
  <2>4. <<head>> \in Seq(Chunk) /\ <<head>> # <<>> /\ Emit("net", <<head>>)
    BY <2>2, <2>3 DEF head
  <2>5. msgSeq' \in Nat /\ UNCHANGED <<fp, sessions>>
    BY <1>5 DEF LogCorrupt, ChunkInv
  <2> QED
    BY <2>4, <2>5, EmitTypes
<1>6. CASE Deliver
  <2>1. PICK b \in Blocks, f \in 0 .. Session.k - 1 :
          LET head == [Header("decode") EXCEPT !.seq = Seq2Key(Session, b, f), !.block = b,
                         !.frag = f, !.dbm = DbmInval]
          IN \/ Emit("net", DebugRecord \o <<head, Payload(head)>>) /\ CountDebug
             \/ UNCHANGED <<logs, pending, msgSeq>>
    BY <1>6 DEF Deliver
  <2> DEFINE head == [Header("decode") EXCEPT !.seq = Seq2Key(Session, b, f), !.block = b,
                        !.frag = f, !.dbm = DbmInval]
             rest == <<head, Payload(head)>>
             c == DebugRecord \o rest
  <2>2. b \in Int /\ f \in Int /\ Seq2Key(Session, b, f) \in Int /\ DbmInval \in Int
    <3>1. Session.n \in Nat
      BY <1>6, CurrentSession DEF Deliver
    <3> QED
      BY <3>1, RxLogAssumption DEF Seq2Key, DbmInval
  <2>3. IsHead(head, "decode")
    BY <2>2, DecodeHead DEF Types
  <2>4. /\ \/ Emit("net", c) /\ CountDebug
           \/ UNCHANGED <<logs, pending, msgSeq>>
        /\ UNCHANGED <<fp, sessions>>
    BY <1>6, <2>1 DEF Deliver
  <2> HIDE DEF head
  <2>5. head \in Chunk
    BY <2>3 DEF IsHead
  <2>6. rest \in Seq(Chunk) /\ rest # <<>>
    BY <2>5, ChunkTypes
  <2> HIDE DEF rest
  <2>7. c \in Seq(Chunk) /\ c # <<>>
    BY <1>0, <2>6, Joined
  <2> HIDE DEF c
  <2>8. CASE Emit("net", c) /\ CountDebug
    BY <1>1, <2>4, <2>7, <2>8, EmitTypes
  <2>9. CASE UNCHANGED <<logs, pending, msgSeq>>
    BY <2>4, <2>9 DEF ChunkInv
  <2> QED
    BY <2>4, <2>8, <2>9
<1>7. ASSUME NEW t \in Threads, Message(t) PROVE ChunkInv'
  <2>1. Emit(t, MessageRecord("msg")) /\ msgSeq' \in Nat /\ UNCHANGED <<fp, sessions>>
    BY <1>7 DEF Message, ChunkInv
  <2>2. MessageRecord("msg") \in Seq(Chunk) /\ MessageRecord("msg") # <<>>
    BY <1>0, RecordTypes
  <2> QED
    BY <2>1, <2>2, EmitTypes
<1>8. ASSUME NEW t \in Threads, Write(t) PROVE ChunkInv'
  <2>1. pending[t] \in Seq(Chunk) /\ pending[t] # <<>>
    BY <1>8 DEF Write, ChunkInv
  <2>2. pending[t][1] \in Chunk /\ Tail(pending[t]) \in Seq(Chunk)
    BY <2>1
  <2>3. \A n \in DOMAIN logs : Append(logs[n], pending[t][1]) \in Seq(Chunk)
    BY <2>2 DEF ChunkInv
  <2> QED
    BY <1>8, <2>2, <2>3 DEF Write, ChunkInv
<1>9. CASE End
  <2>1. \A t \in Threads : <<>> \in Seq(Chunk)
    OBVIOUS
  <2> QED
    BY <1>9, <2>1 DEF End, ChunkInv
<1>10. CASE Restart
  BY <1>10 DEF Restart, ChunkInv
<1>11. CASE UNCHANGED logVars
  BY <1>11 DEF logVars, ChunkInv
<1>12. UNCHANGED logVars \/ LogNext
  BY DEF Next, Listener, Load, Filter, vars
<1> QED
  BY <1>2, <1>4, <1>5, <1>6, <1>7, <1>8, <1>9, <1>10, <1>11, <1>12 DEF LogNext

(* Without a log there is nothing but idle threads.                        *)
LEMMA ChunkInitially == Init => ChunkInv
<1> SUFFICES ASSUME Init PROVE ChunkInv
  OBVIOUS
<1>1. /\ DOMAIN logs = {} /\ logs \in [DOMAIN logs -> Seq(Chunk)]
      /\ sessions \in [DOMAIN logs -> Seq(SessionRec)]
  BY DEF Init, LogInit
<1>2. \A t \in Threads : <<>> \in Seq(Chunk)
  OBVIOUS
<1> QED
  BY <1>1, <1>2 DEF Init, LogInit, ChunkInv

LEMMA ChunkAlways == Spec => []ChunkInv
<1>1. ChunkInv /\ [Next]_vars => ChunkInv'
  BY ChunkStep
<1> QED
  BY <1>1, ChunkInitially, PTL DEF Spec

-----------------------------------------------------------------------------
(* Records are whole                                                       *)

LogTypes ==
  /\ IsFiniteSet(DOMAIN logs) /\ DOMAIN logs \subseteq Nat
  /\ logs \in [DOMAIN logs -> Seq(Chunk)]
  /\ pending \in [Threads -> Seq(Chunk)]
  /\ fp \in DOMAIN logs \cup {NoLog}
  /\ logSeq \in Nat /\ msgSeq \in Nat

Formed(log) ==
  /\ log # <<>> => log[1].kind = "file"
  /\ \A i \in 2 .. Len(log) : log[i].kind = "data" => log[i] = Payload(log[i - 1])
  /\ \A i \in 1 .. Len(log) - 1 : HasData(log[i]) => log[i + 1].kind = "data"

(* What the thread has yet to write is what the open log lacks.            *)
Midway(log, rest) ==
  \/ rest = <<>> /\ log # <<>> /\ ~HasData(log[Len(log)])
  \/ log = <<>> /\ \E code \in Codes : rest = <<FileHeader(code)>>
  \/ rest = <<Payload(log[Len(log)])>> /\ log # <<>> /\ HasData(log[Len(log)])

(* Only the network thread writes, and no debugging messages.              *)
Shape ==
  /\ \A n \in DOMAIN logs : Formed(logs[n])
  /\ fp = NoLog => pending["net"] = <<>>
  /\ fp # NoLog => Midway(logs[fp], pending["net"])

LogInv == LogTypes /\ Shape

(* A chunk that fits goes to the end of a log.                             *)
LEMMA FormedAppend ==
  ASSUME NEW log \in Seq(Chunk), NEW c \in Chunk, Formed(log),
         log = <<>> => c.kind = "file",
         log # <<>> => /\ c.kind = "data" => c = Payload(log[Len(log)])
                       /\ HasData(log[Len(log)]) => c.kind = "data"
  PROVE  Formed(Append(log, c))
<1> DEFINE new == Append(log, c)
<1>1. /\ Len(new) = Len(log) + 1 /\ Len(log) \in Nat /\ new # <<>>
      /\ new[Len(log) + 1] = c
      /\ \A i \in 1 .. Len(log) : new[i] = log[i]
      /\ log = <<>> <=> Len(log) = 0
  OBVIOUS
<1> HIDE DEF new
<1>2. new[1].kind = "file"
  BY <1>1 DEF Formed
<1>3. ASSUME NEW i \in 2 .. Len(new), new[i].kind = "data"
      PROVE  new[i] = Payload(new[i - 1])
  <2>1. CASE i = Len(log) + 1
    BY <1>1, <1>3, <2>1
  <2>2. CASE i <= Len(log)
    BY <1>1, <1>3, <2>2 DEF Formed
  <2> QED
    BY <1>1, <2>1, <2>2
<1>4. ASSUME NEW i \in 1 .. Len(new) - 1, HasData(new[i])
      PROVE  new[i + 1].kind = "data"
  <2>1. CASE i = Len(log)
    BY <1>1, <1>4, <2>1
  <2>2. CASE i < Len(log)
    BY <1>1, <1>4, <2>2 DEF Formed
  <2> QED
    BY <1>1, <2>1, <2>2
<1> QED
  BY <1>1, <1>2, <1>3, <1>4 DEF Formed, new

(* At first there is no log.                                               *)
LEMMA LogInitially == Init => LogInv
<1> SUFFICES ASSUME Init PROVE LogInv
  OBVIOUS
<1>1. DOMAIN logs = {}
  BY DEF Init, LogInit
<1>2. LogTypes
  BY <1>1, FS_EmptySet DEF Init, LogInit, LogTypes, NoLog
<1>3. "net" \in Threads
  BY DEF Threads
<1>4. Shape
  BY <1>1, <1>3 DEF Init, LogInit, Shape
<1> QED
  BY <1>2, <1>4 DEF LogInv

(* One more chunk in the open log.                                         *)
LEMMA ChunkWritten ==
  ASSUME LogTypes, fp # NoLog, NEW c \in Chunk,
         logs' = [logs EXCEPT ![fp] = Append(@, c)]
  PROVE  /\ DOMAIN logs' = DOMAIN logs /\ fp \in DOMAIN logs
         /\ logs' \in [DOMAIN logs -> Seq(Chunk)]
         /\ logs'[fp] = Append(logs[fp], c)
         /\ logs'[fp] # <<>> /\ logs'[fp][Len(logs'[fp])] = c
         /\ \A n \in DOMAIN logs : n # fp => logs'[n] = logs[n]
<1>1. fp \in DOMAIN logs /\ logs[fp] \in Seq(Chunk)
  BY DEF LogTypes
<1>2. Append(logs[fp], c) \in Seq(Chunk)
  BY <1>1
<1>3. logs'[fp] = Append(logs[fp], c) /\ DOMAIN logs' = DOMAIN logs
      /\ \A n \in DOMAIN logs : n # fp => logs'[n] = logs[n]
  BY <1>1
<1>4. logs' \in [DOMAIN logs -> Seq(Chunk)]
  BY <1>1, <1>2 DEF LogTypes
<1>5. Append(logs[fp], c) # <<>> /\ Append(logs[fp], c)[Len(Append(logs[fp], c))] = c
  BY <1>1
<1> QED
  BY <1>1, <1>3, <1>4, <1>5

(* The steps that log one record: its header now, its data in the next     *)
(* step of the thread.                                                     *)
LEMMA EmitKeeps ==
  ASSUME LogInv, pending["net"] = <<>>, fp # NoLog, fp' = fp,
         logSeq' \in Nat, msgSeq' \in Nat,
         NEW head \in Chunk, head.kind = "head", NEW chunks,
         chunks = IF HasData(head) THEN <<head, Payload(head)>> ELSE <<head>>,
         Emit("net", chunks)
  PROVE  LogInv'
<1>1. /\ chunks[1] = head
      /\ Tail(chunks) = IF HasData(head) THEN <<Payload(head)>> ELSE <<>>
  OBVIOUS
<1>2. /\ logs' = [logs EXCEPT ![fp] = Append(@, head)]
      /\ pending' = [pending EXCEPT !["net"] = Tail(chunks)]
  BY <1>1 DEF Emit
<1>3. /\ DOMAIN logs' = DOMAIN logs /\ fp \in DOMAIN logs
      /\ logs' \in [DOMAIN logs -> Seq(Chunk)]
      /\ logs'[fp] = Append(logs[fp], head)
      /\ logs'[fp] # <<>> /\ logs'[fp][Len(logs'[fp])] = head
      /\ \A n \in DOMAIN logs : n # fp => logs'[n] = logs[n]
  BY <1>2, ChunkWritten DEF LogInv
<1>4. Tail(chunks) \in Seq(Chunk)
  BY <1>1, ChunkTypes
<1>5. pending' \in [Threads -> Seq(Chunk)] /\ pending'["net"] = Tail(chunks)
  <2>1. "net" \in Threads
    BY DEF Threads
  <2> QED
    BY <1>2, <1>4, <2>1 DEF LogInv, LogTypes
<1>6. LogTypes'
  BY <1>3, <1>5 DEF LogInv, LogTypes
<1>7. Midway(logs[fp], pending["net"]) /\ Formed(logs[fp]) /\ logs[fp] \in Seq(Chunk)
  BY <1>3 DEF LogInv, Shape, LogTypes
<1>8. logs[fp] # <<>> /\ ~HasData(logs[fp][Len(logs[fp])])
  BY <1>7 DEF Midway
<1>9. Formed(logs'[fp])
  BY <1>3, <1>7, <1>8, FormedAppend
<1>10. Midway(logs'[fp], pending'["net"])
  BY <1>1, <1>3, <1>5 DEF Midway
<1>11. Shape'
  BY <1>3, <1>9, <1>10 DEF LogInv, Shape
<1> QED
  BY <1>6, <1>11 DEF LogInv

(* The rest of a record is written.                                        *)
LEMMA WriteKeeps ==
  ASSUME LogInv, Write("net")
  PROVE  LogInv'
<1>1. "net" \in Threads
  BY DEF Threads
<1>2. pending["net"] # <<>> /\ fp # NoLog
  BY DEF Write, LogInv, Shape
<1>3. Midway(logs[fp], pending["net"]) /\ Formed(logs[fp]) /\ logs[fp] \in Seq(Chunk)
      /\ fp \in DOMAIN logs
  BY <1>2 DEF LogInv, Shape, LogTypes
<1>4. PICK c \in Chunk :
        /\ pending["net"] = <<c>> /\ ~HasData(c)
        /\ logs[fp] = <<>> => c.kind = "file"
        /\ logs[fp] # <<>> => c = Payload(logs[fp][Len(logs[fp])]) /\ c.kind = "data"
  <2>1. CASE logs[fp] = <<>> /\ \E code \in Codes : pending["net"] = <<FileHeader(code)>>
    BY <2>1, ChunkTypes
  <2>2. CASE /\ pending["net"] = <<Payload(logs[fp][Len(logs[fp])])>>
             /\ logs[fp] # <<>>
    <3>1. logs[fp][Len(logs[fp])] \in Chunk
      BY <1>3, <2>2
    <3> QED
      BY <2>2, <3>1, ChunkTypes
  <2> QED
    BY <1>2, <1>3, <2>1, <2>2 DEF Midway
<1>5. /\ logs' = [logs EXCEPT ![fp] = Append(@, c)]
      /\ pending' = [pending EXCEPT !["net"] = <<>>]
      /\ UNCHANGED <<fp, logSeq, msgSeq>>
  <2>1. pending["net"][1] = c /\ Tail(pending["net"]) = <<>>
    BY <1>4
  <2> QED
    BY <2>1 DEF Write
<1>6. /\ DOMAIN logs' = DOMAIN logs
      /\ logs' \in [DOMAIN logs -> Seq(Chunk)]
      /\ logs'[fp] = Append(logs[fp], c)
      /\ logs'[fp] # <<>> /\ logs'[fp][Len(logs'[fp])] = c
      /\ \A n \in DOMAIN logs : n # fp => logs'[n] = logs[n]
  BY <1>2, <1>5, ChunkWritten DEF LogInv
<1>7. pending' \in [Threads -> Seq(Chunk)] /\ pending'["net"] = <<>>
  BY <1>1, <1>5 DEF LogInv, LogTypes
<1>8. LogTypes'
  BY <1>5, <1>6, <1>7 DEF LogInv, LogTypes
<1>9. Formed(logs'[fp])
  BY <1>3, <1>4, <1>6, FormedAppend
<1>10. Shape'
  BY <1>4, <1>5, <1>6, <1>7, <1>9 DEF LogInv, Shape, Midway
<1> QED
  BY <1>8, <1>10 DEF LogInv

(* A new session: the header of the file is still to be written.           *)
LEMMA CreateKeeps ==
  ASSUME LogInv, ~Debug, Create
  PROVE  LogInv'
<1> DEFINE name == FixupFilename(logSeq)
<1>1. name \in Nat /\ name \notin DOMAIN logs
  BY FreshName DEF LogInv, LogTypes
<1>2. /\ fp' = name /\ logSeq' = name
      /\ logs' = [n \in DOMAIN logs \cup {name} |-> IF n = name THEN <<>> ELSE logs[n]]
      /\ msgSeq' = msgSeq
      /\ \E code \in Codes :
           pending' = [pending EXCEPT !["net"] = Append(<<>>, FileHeader(code))]
  BY DEF Create, DebugRecord, CountDebug
<1> HIDE DEF name
<1>3. DOMAIN logs' = DOMAIN logs \cup {name}
  BY <1>2
<1>4. IsFiniteSet(DOMAIN logs')
  BY <1>3, FS_AddElement DEF LogInv, LogTypes
<1>5. logs' \in [DOMAIN logs' -> Seq(Chunk)]
  BY <1>2 DEF LogInv, LogTypes
<1>6. /\ pending' \in [Threads -> Seq(Chunk)]
      /\ \E code \in Codes : pending'["net"] = <<FileHeader(code)>>
  <2>1. "net" \in Threads
    BY DEF Threads
  <2>2. PICK code \in Codes :
          pending' = [pending EXCEPT !["net"] = Append(<<>>, FileHeader(code))]
    BY <1>2
  <2>3. /\ Append(<<>>, FileHeader(code)) = <<FileHeader(code)>>
        /\ <<FileHeader(code)>> \in Seq(Chunk)
    BY ChunkTypes
  <2>4. pending'["net"] = <<FileHeader(code)>> /\ pending' \in [Threads -> Seq(Chunk)]
    BY <2>1, <2>2, <2>3 DEF LogInv, LogTypes
  <2> QED
    BY <2>4
<1>7. LogTypes'
  BY <1>1, <1>2, <1>3, <1>4, <1>5, <1>6 DEF LogInv, LogTypes
<1>8. \A n \in DOMAIN logs' : Formed(logs'[n])
  BY <1>2, <1>3 DEF LogInv, Shape, Formed
<1>9. logs'[name] = <<>> /\ fp' # NoLog
  BY <1>1, <1>2 DEF NoLog
<1>10. Shape'
  BY <1>2, <1>6, <1>8, <1>9 DEF Shape, Midway
<1> QED
  BY <1>7, <1>10 DEF LogInv

(* A frame, or the notice of a corrupt one.                                *)
LEMMA FrameKeeps ==
  ASSUME LogInv, ChunkInv, ~Debug, LogFrame \/ LogCorrupt
  PROVE  LogInv'
<1>1. PICK head : /\ head \in Chunk /\ head.kind = "head" /\ ~HasData(head)
                  /\ Emit("net", <<head>>)
  <2>1. \A src \in Sources : \A dbm \in Dbms[src] : dbm \in Int
    BY RxLogAssumption
  <2>2. CASE LogCorrupt
    <3>1. PICK src \in Sources : \E dbm \in Dbms[src] :
            Emit("net", <<[Header("corrupt") EXCEPT !.dbm = dbm]>>)
      BY <2>2 DEF LogCorrupt
    <3>2. PICK dbm \in Dbms[src] : Emit("net", <<[Header("corrupt") EXCEPT !.dbm = dbm]>>)
      BY <3>1
    <3> DEFINE head == [Header("corrupt") EXCEPT !.dbm = dbm]
    <3>3. IsHead(head, "corrupt")
      BY <2>1, NoticeHead DEF Types
    <3> HIDE DEF head
    <3>4. head \in Chunk /\ head.kind = "head" /\ ~HasData(head)
      BY <3>3 DEF IsHead
    <3> QED
      BY <3>2, <3>4 DEF head
  <2>3. CASE LogFrame
    <3>1. PICK b \in Blocks, f \in 0 .. Session.n - 1, src \in Sources :
             \E dbm \in Dbms[src] :
               Emit("net", Append(<<>>,
                 [Header(FrameType(src)) EXCEPT !.seq = Seq2Key(Session, b, f), !.block = b,
                    !.frag = f, !.dbm = dbm, !.src = src]))
      BY <2>3 DEF LogFrame, DebugRecord
    <3>2. PICK dbm \in Dbms[src] :
               Emit("net", Append(<<>>,
                 [Header(FrameType(src)) EXCEPT !.seq = Seq2Key(Session, b, f), !.block = b,
                    !.frag = f, !.dbm = dbm, !.src = src]))
      BY <3>1
    <3>3. b \in Int /\ f \in Int /\ Seq2Key(Session, b, f) \in Int /\ dbm \in Int
      <4>1. Session.n \in Nat
        BY <2>3, CurrentSession DEF LogFrame
      <4> QED
        BY <2>1, <4>1, RxLogAssumption DEF Seq2Key
    <3>4. FrameType(src) \in {"unspec", "inet6"} /\ src \in Mirrors \cup {"none", "capture"}
      BY DEF FrameType, Sources
    <3> DEFINE head == [Header(FrameType(src)) EXCEPT !.seq = Seq2Key(Session, b, f),
                          !.block = b, !.frag = f, !.dbm = dbm, !.src = src]
    <3>5. IsHead(head, FrameType(src))
      <4>1. FrameType(src) \in Types
        BY <3>4 DEF Types
      <4> QED
        BY <3>3, <3>4, <4>1, FrameHead
    <3> HIDE DEF head
    <3>6. head \in Chunk /\ head.kind = "head" /\ ~HasData(head)
      BY <3>4, <3>5 DEF IsHead
    <3>7. Append(<<>>, head) = <<head>>
      OBVIOUS
    <3> QED
      BY <3>2, <3>6, <3>7 DEF head
  <2> QED
    BY <2>2, <2>3
<1>2. /\ pending["net"] = <<>> /\ fp # NoLog /\ fp' = fp
      /\ logSeq' = logSeq /\ msgSeq' = msgSeq
  BY DEF LogFrame, LogCorrupt, Idle, CountDebug
<1>3. logSeq' \in Nat /\ msgSeq' \in Nat
  BY <1>2 DEF LogInv, LogTypes
<1> QED
  BY <1>1, <1>2, <1>3, EmitKeeps

(* A decoded frame, or a message.                                          *)
LEMMA RecordKeeps ==
  ASSUME LogInv, ChunkInv, ~Debug, Deliver \/ Message("net")
  PROVE  LogInv'
<1>1. /\ pending["net"] = <<>> /\ fp # NoLog /\ fp' = fp /\ logSeq' = logSeq
      /\ msgSeq' \in {msgSeq, msgSeq + 1}
  BY DEF Deliver, Message, Idle, CountDebug
<1>2. logSeq' \in Nat /\ msgSeq' \in Nat
  BY <1>1 DEF LogInv, LogTypes
<1>3. \/ UNCHANGED <<logs, pending>>
      \/ \E head : /\ head \in Chunk /\ head.kind = "head" /\ HasData(head)
                    /\ Emit("net", <<head, Payload(head)>>)
  <2>1. CASE Message("net")
    <3> DEFINE head == [Header("msg") EXCEPT !.seq = msgSeq]
    <3>1. Emit("net", <<head, Payload(head)>>)
      BY <2>1 DEF Message, MessageRecord
    <3>2. msgSeq \in Int
      BY DEF LogInv, LogTypes
    <3>3. IsHead(head, "msg")
      BY <3>2, MessageHead DEF Types
    <3> HIDE DEF head
    <3>4. head \in Chunk /\ head.kind = "head" /\ HasData(head)
      BY <3>3 DEF IsHead
    <3> QED
      BY <3>1, <3>4
  <2>2. CASE Deliver
    <3>1. PICK b \in Blocks, f \in 0 .. Session.k - 1 :
            LET head == [Header("decode") EXCEPT !.seq = Seq2Key(Session, b, f), !.block = b,
                           !.frag = f, !.dbm = DbmInval]
            IN \/ Emit("net", DebugRecord \o <<head, Payload(head)>>)
               \/ UNCHANGED <<logs, pending>>
      BY <2>2 DEF Deliver
    <3> DEFINE head == [Header("decode") EXCEPT !.seq = Seq2Key(Session, b, f), !.block = b,
                          !.frag = f, !.dbm = DbmInval]
    <3>2. b \in Int /\ f \in Int /\ Seq2Key(Session, b, f) \in Int /\ DbmInval \in Int
      <4>1. Session.n \in Nat
        BY <2>2, CurrentSession DEF Deliver
      <4> QED
        BY <4>1, RxLogAssumption DEF Seq2Key, DbmInval
    <3>3. IsHead(head, "decode")
      BY <3>2, DecodeHead DEF Types
    <3> HIDE DEF head
    <3>4. head \in Chunk /\ head.kind = "head" /\ HasData(head)
      BY <3>3 DEF IsHead
    <3>5. Payload(head) \in Chunk
      BY <3>4, ChunkTypes
    <3>6. DebugRecord \o <<head, Payload(head)>> = <<head, Payload(head)>>
      BY <3>4, <3>5 DEF DebugRecord
    <3> QED
      BY <3>1, <3>4, <3>6 DEF head
  <2> QED
    BY <2>1, <2>2
<1>4. CASE UNCHANGED <<logs, pending>>
  BY <1>1, <1>2, <1>4 DEF LogInv, LogTypes, Shape
<1> QED
  BY <1>1, <1>2, <1>3, <1>4, EmitKeeps

(* The log goes on in another session, or the listener ends or starts      *)
(* again.                                                                  *)
LEMMA EndKeeps ==
  ASSUME LogInv, Rekey \/ End \/ Restart \/ UNCHANGED logVars
  PROVE  LogInv'
<1>1. UNCHANGED logs /\ logSeq' \in Nat /\ msgSeq' \in Nat
  BY DEF Rekey, End, Restart, logVars, LogInv, LogTypes
<1>2. \/ UNCHANGED <<fp, pending>>
      \/ fp' = NoLog /\ pending' = [t \in Threads |-> <<>>]
  BY DEF Rekey, End, Restart, logVars
<1>3. "net" \in Threads
  BY DEF Threads
<1>4. LogTypes'
  <2>1. \A t \in Threads : <<>> \in Seq(Chunk)
    OBVIOUS
  <2> QED
    BY <1>1, <1>2, <2>1 DEF LogInv, LogTypes
<1>5. Shape'
  BY <1>1, <1>2, <1>3 DEF LogInv, Shape
<1> QED
  BY <1>4, <1>5 DEF LogInv

(* One step of the listener or of the shell.                               *)
LEMMA LogStep ==
  ASSUME LogInv, ChunkInv, ~Debug, ~PlayerThread, [Next]_vars
  PROVE  LogInv'
<1>1. Threads = {"net"}
  BY DEF Threads
<1>2. UNCHANGED logVars \/ LogNext
  BY DEF Next, Listener, Load, Filter, vars
<1> QED
  BY <1>1, <1>2, CreateKeeps, FrameKeeps, RecordKeeps, WriteKeeps, EndKeeps DEF LogNext

(* While only the network thread logs, and no debugging messages, every    *)
(* log is a file header and whole records, but for what a kill has cut off *)
(* at its end: rx_log writes a record in two parts, and nothing comes      *)
(* between them.                                                           *)
THEOREM RecordsWhole ==
  ASSUME ~Debug, ~PlayerThread
  PROVE  Spec => []WellFormed
<1>1. LogInv /\ ChunkInv /\ [Next]_vars => LogInv'
  BY LogStep
<1>2. LogInv => WellFormed
  BY DEF LogInv, Shape, Formed, WellFormed
<1> QED
  BY <1>1, <1>2, LogInitially, ChunkAlways, PTL DEF Spec

-----------------------------------------------------------------------------
(* Earlier logs, whatever is logged by whichever thread                    *)

NamesInv == IsFiniteSet(DOMAIN logs) /\ logSeq \in Nat

KeepsOld == \A n \in DOMAIN logs : n # fp => n \in DOMAIN logs' /\ logs'[n] = logs[n]

(* A step takes no name that a file has.                                   *)
LEMMA NamesStep ==
  ASSUME NamesInv, [Next]_vars
  PROVE  NamesInv' /\ KeepsOld
<1>1. CASE Create
  <2> DEFINE name == FixupFilename(logSeq)
  <2>1. name \in Nat /\ name \notin DOMAIN logs
    BY FreshName DEF NamesInv
  <2>2. /\ logSeq' = name
        /\ logs' = [n \in DOMAIN logs \cup {name} |-> IF n = name THEN <<>> ELSE logs[n]]
    BY <1>1 DEF Create
  <2> HIDE DEF name
  <2>3. DOMAIN logs' = DOMAIN logs \cup {name}
    BY <2>2
  <2>4. IsFiniteSet(DOMAIN logs')
    BY <2>3, FS_AddElement DEF NamesInv
  <2> QED
    BY <2>1, <2>2, <2>3, <2>4 DEF NamesInv, KeepsOld
<1>2. CASE LogFrame \/ LogCorrupt \/ Deliver \/ (\E t \in Threads : Message(t) \/ Write(t))
  <2>1. \/ logs' = logs
        \/ \E c : logs' = [logs EXCEPT ![fp] = Append(@, c)]
    BY <1>2 DEF LogFrame, LogCorrupt, Deliver, Message, Write, Emit
  <2>2. logSeq' = logSeq
    BY <1>2 DEF LogFrame, LogCorrupt, Deliver, Message, Write
  <2>3. DOMAIN logs' = DOMAIN logs /\ KeepsOld
    BY <2>1 DEF KeepsOld
  <2> QED
    BY <2>2, <2>3 DEF NamesInv
<1>3. CASE Rekey \/ End \/ Restart \/ UNCHANGED logVars
  <2>1. logs' = logs /\ logSeq' \in Nat
    BY <1>3 DEF Rekey, End, Restart, logVars, NamesInv
  <2> QED
    BY <2>1 DEF NamesInv, KeepsOld
<1>4. UNCHANGED logVars \/ LogNext
  BY DEF Next, Listener, Load, Filter, vars
<1> QED
  BY <1>1, <1>2, <1>3, <1>4 DEF LogNext

(* No step changes a log but the open one, with any number of threads and  *)
(* with or without debugging messages: rx_log_create opens a name that no  *)
(* file has, also after a restart, when its counter begins at zero again.  *)
THEOREM OldLogsSafe == Spec => OldLogsKept
<1>1. Init => NamesInv
  <2>1. Init => DOMAIN logs = {}
    BY DEF Init, LogInit
  <2> QED
    BY <2>1, FS_EmptySet DEF Init, LogInit, NamesInv
<1>2. NamesInv /\ [Next]_vars => NamesInv' /\ [KeepsOld]_logVars
  BY NamesStep
<1> QED
  BY <1>1, <1>2, PTL DEF Spec, OldLogsKept, KeepsOld

-----------------------------------------------------------------------------
(* Loading: induction over the positions of a log, as the search for the   *)
(* first turn of the loop that goes wrong                                  *)

(* A non-empty set of naturals has a least element.                        *)
LEMMA LeastNat ==
  ASSUME NEW S, S \subseteq Nat, S # {}
  PROVE  \E n \in S : \A m \in S : n <= m
<1> DEFINE R == OpToRel(<, Nat)
<1>1. IsWellFoundedOn(R, Nat)
  BY NatLessThanWellFounded
<1>2. \A x, y \in Nat : <<x, y>> \in R <=> x < y
  BY DEF R, OpToRel
<1> HIDE DEF R
<1>3. PICK x \in S : \A y \in S : ~ (<<y, x>> \in R)
  BY <1>1, WFMin
<1>4. \A y \in S : ~ (y < x)
  BY <1>2, <1>3
<1> QED
  BY <1>4

(* load_log's loop, turn by turn: the stores it goes through exist.        *)
LEMMA LoadedBy ==
  ASSUME NEW log, Len(log) \in Nat
  PROVE  \A i \in 0 .. Len(log) :
           Loaded(log)[i] =
             IF i = 0 THEN ProcessFileHeader(log) ELSE LoadRecord(Loaded(log)[i - 1], log, i)
<1> DEFINE Upto(f, n) == f = [i \in 0 .. n |->
             IF i = 0 THEN ProcessFileHeader(log) ELSE LoadRecord(f[i - 1], log, i)]
           Bad == {n \in Nat : ~ \E f : Upto(f, n)}
<1>1. Bad = {}
  <2> SUFFICES ASSUME Bad # {} PROVE FALSE
    OBVIOUS
  <2>1. PICK n \in Bad : \A m \in Bad : n <= m
    <3>1. Bad \subseteq Nat
      OBVIOUS
    <3> HIDE DEF Bad
    <3> QED
      BY <3>1, LeastNat
  <2>2. n \in Nat
    OBVIOUS
  <2>3. CASE n = 0
    <3> DEFINE f == [i \in 0 .. 0 |-> ProcessFileHeader(log)]
    <3>1. Upto(f, 0)
      OBVIOUS
    <3> QED
      BY <2>1, <2>3, <3>1
  <2>4. CASE n # 0
    <3>1. n - 1 \in Nat /\ n - 1 \notin Bad
      <4>1. n - 1 \in Nat /\ ~(n <= n - 1)
        BY <2>2, <2>4
      <4> HIDE DEF Bad
      <4> QED
        BY <2>1, <4>1
    <3>2. PICK f : Upto(f, n - 1)
      <4> HIDE DEF Upto
      <4> QED
        BY Zenon, <3>1
    <3> DEFINE g == [i \in 0 .. n |-> IF i < n THEN f[i] ELSE LoadRecord(f[n - 1], log, n)]
    <3>3. Upto(g, n)
      <4>1. ASSUME NEW i \in 0 .. n
            PROVE  g[i] = IF i = 0 THEN ProcessFileHeader(log) ELSE LoadRecord(g[i - 1], log, i)
        <5>1. CASE i = n
          BY <2>2, <2>4, <5>1
        <5>2. CASE i # n
          <6>1. i \in 0 .. n - 1 /\ g[i] = f[i] /\ (i # 0 => g[i - 1] = f[i - 1])
            BY <2>2, <5>2
          <6>2. f[i] = IF i = 0 THEN ProcessFileHeader(log) ELSE LoadRecord(f[i - 1], log, i)
            BY <3>2, <6>1
          <6> QED
            BY <6>1, <6>2
        <5> QED
          BY <5>1, <5>2
      <4> QED
        BY <4>1
    <3> QED
      BY <2>1, <3>3
  <2> QED
    BY <2>3, <2>4
<1>2. \E f : Upto(f, Len(log))
  BY <1>1
<1>3. Upto(Loaded(log), Len(log))
  BY <1>2 DEF Loaded
<1> QED
  BY <1>3

-----------------------------------------------------------------------------
(* The lists of the store                                                  *)

VRec ==
  [type : Types, key : Int, block : Int, frag : Int, dbm : Int,
   src : Mirrors \cup {"none", "capture"}, size : {0, 1}, buf : BOOLEAN,
   filtered : BOOLEAN]

Kv ==
  [key : Int, vh : Seq(Nat), n_ethernet_frame : Nat, n_h265_frame : Nat,
   has_lost_frame : BOOLEAN, has_fec_frame : BOOLEAN]

Store ==
  [v : Seq(VRec), kvh : Seq(Kv), block_kvh : Seq(Kv), msg_kvh : Seq(Kv),
   fec_k : Nat, n_pkts : Nat, n_frames : Nat, ended : BOOLEAN]

(* kvh is the index of the records in the domain of keyOf: ascending, each *)
(* record once in the list of its key, in their order, and no list empty.  *)
Indexes(kvh, keyOf) ==
  /\ Ascending(kvh)
  /\ \A i \in DOMAIN kvh :
       /\ Len(kvh[i].vh) > 0
       /\ \A k \in 1 .. Len(kvh[i].vh) :
            kvh[i].vh[k] \in DOMAIN keyOf /\ keyOf[kvh[i].vh[k]] = kvh[i].key
       /\ \A k, l \in 1 .. Len(kvh[i].vh) : k < l => kvh[i].vh[k] < kvh[i].vh[l]
  /\ \A n \in DOMAIN keyOf : \E i \in DOMAIN kvh :
       \E k \in 1 .. Len(kvh[i].vh) : kvh[i].vh[k] = n

(* The fields of a list's entries.                                         *)
LEMMA KvTypes ==
  ASSUME NEW kvh \in Seq(Kv)
  PROVE  /\ Len(kvh) \in Nat /\ DOMAIN kvh = 1 .. Len(kvh)
         /\ \A i \in 1 .. Len(kvh) :
              /\ kvh[i] \in Kv /\ kvh[i].key \in Int /\ kvh[i].vh \in Seq(Nat)
              /\ kvh[i].n_ethernet_frame \in Nat /\ kvh[i].n_h265_frame \in Nat
<1>1. \A kv \in Kv : /\ kv.key \in Int /\ kv.vh \in Seq(Nat)
                     /\ kv.n_ethernet_frame \in Nat /\ kv.n_h265_frame \in Nat
  BY DEF Kv
<1>2. Len(kvh) \in Nat /\ DOMAIN kvh = 1 .. Len(kvh) /\ \A i \in 1 .. Len(kvh) : kvh[i] \in Kv
  OBVIOUS
<1> QED
  BY <1>1, <1>2

(* Where log_kv_alloc's search from the tail stops.                        *)
LEMMA KvAtFound ==
  ASSUME NEW kvh \in Seq(Kv), NEW key \in Int
  PROVE  /\ KvAt(kvh, key) \in 1 .. Len(kvh) + 1
         /\ \A j \in 1 .. Len(kvh) : j > KvAt(kvh, key) => kvh[j].key > key
         /\ KvAt(kvh, key) <= Len(kvh) => kvh[KvAt(kvh, key)].key >= key
         /\ KvAt(kvh, key) > 1 /\ ~(KvAt(kvh, key) <= Len(kvh) /\ kvh[KvAt(kvh, key)].key = key)
              => kvh[KvAt(kvh, key) - 1].key < key
<1> DEFINE B == Below(kvh, key)
           F == {Len(kvh) - j : j \in B}
<1>1. Len(kvh) \in Nat /\ \A i \in 1 .. Len(kvh) : kvh[i].key \in Int
  BY KvTypes
<1>2. 0 \in B /\ B \subseteq 0 .. Len(kvh)
  BY <1>1 DEF Below
<1>3. \E i \in B : \A j \in B : j <= i
  <2>1. F \subseteq Nat /\ F # {}
    BY <1>1, <1>2
  <2>2. PICK f \in F : \A g \in F : f <= g
    BY <2>1, LeastNat
  <2>3. PICK i \in B : f = Len(kvh) - i
    BY <2>2
  <2>4. ASSUME NEW j \in B PROVE j <= i
    <3>1. Len(kvh) - j \in F
      OBVIOUS
    <3>2. f <= Len(kvh) - j
      BY <2>2, <3>1
    <3> QED
      BY <1>1, <1>2, <2>3, <3>2
  <2> QED
    BY <2>4
<1> DEFINE i == CHOOSE k \in B : \A j \in B : j <= k
<1>4. i \in B /\ \A j \in B : j <= i
  BY <1>3
<1>5. KvAt(kvh, key) = IF i > 0 /\ kvh[i].key = key THEN i ELSE i + 1
  BY DEF KvAt
<1> HIDE DEF i
<1>6. i \in 0 .. Len(kvh) /\ (i > 0 => kvh[i].key <= key)
  BY <1>2, <1>4 DEF Below
<1>7. \A j \in 1 .. Len(kvh) : j > i => kvh[j].key > key
  <2> SUFFICES ASSUME NEW j \in 1 .. Len(kvh), j > i, ~(kvh[j].key > key)
               PROVE  FALSE
    OBVIOUS
  <2>1. j \in B
    BY <1>1 DEF Below
  <2> QED
    BY <1>1, <1>4, <1>6, <2>1
<1> HIDE DEF B, F
<1> QED
  BY <1>1, <1>5, <1>6, <1>7

(* A key that has a list is found.                                         *)
LEMMA KvAtKey ==
  ASSUME NEW kvh \in Seq(Kv), Ascending(kvh), NEW i \in DOMAIN kvh
  PROVE  KvAt(kvh, kvh[i].key) = i
<1> DEFINE key == kvh[i].key
           p == KvAt(kvh, key)
<1>1. /\ Len(kvh) \in Nat /\ DOMAIN kvh = 1 .. Len(kvh)
      /\ \A j \in 1 .. Len(kvh) : kvh[j].key \in Int
  BY KvTypes
<1>2. key \in Int
  BY <1>1
<1>3. /\ p \in 1 .. Len(kvh) + 1
      /\ \A j \in 1 .. Len(kvh) : j > p => kvh[j].key > key
      /\ p <= Len(kvh) => kvh[p].key >= key
      /\ p > 1 /\ ~(p <= Len(kvh) /\ kvh[p].key = key) => kvh[p - 1].key < key
  BY <1>2, KvAtFound
<1> HIDE DEF p
<1>4. \A j, k \in 1 .. Len(kvh) : j < k => kvh[j].key < kvh[k].key
  BY <1>1 DEF Ascending
<1>5. i <= p
  BY <1>1, <1>2, <1>3
<1>6. CASE i < p
  <2>1. CASE p <= Len(kvh) /\ kvh[p].key = key
    BY <1>1, <1>3, <1>4, <1>6, <2>1
  <2>2. CASE ~(p <= Len(kvh) /\ kvh[p].key = key)
    <3>1. p - 1 \in 1 .. Len(kvh) /\ kvh[p - 1].key < key /\ i <= p - 1
      BY <1>1, <1>3, <1>6, <2>2
    <3> QED
      BY <1>1, <1>4, <3>1
  <2> QED
    BY <2>1, <2>2
<1> QED
  BY <1>1, <1>3, <1>5, <1>6 DEF p

(* log_kv_alloc: the list with a place for key, p, and nothing else new.   *)
Place(list, kvh, key, p) ==
  \/ /\ list = kvh /\ p \in 1 .. Len(kvh) /\ kvh[p].key = key
  \/ /\ p \in 1 .. Len(kvh) + 1 /\ Len(list) = Len(kvh) + 1
     /\ list[p] = NewKv(key)
     /\ \A i \in 1 .. Len(kvh) : i < p => list[i] = kvh[i] /\ kvh[i].key < key
     /\ \A i \in 1 .. Len(kvh) : i >= p => list[i + 1] = kvh[i] /\ kvh[i].key > key

(* InsertAt, by its positions.                                             *)
LEMMA Inserted ==
  ASSUME NEW s \in Seq(Kv), NEW e \in Kv, NEW p \in 1 .. Len(s) + 1
  PROVE  /\ InsertAt(s, p, e) \in Seq(Kv)
         /\ Len(InsertAt(s, p, e)) = Len(s) + 1
         /\ InsertAt(s, p, e)[p] = e
         /\ \A i \in 1 .. Len(s) : i < p => InsertAt(s, p, e)[i] = s[i]
         /\ \A i \in 1 .. Len(s) : i >= p => InsertAt(s, p, e)[i + 1] = s[i]
<1> DEFINE a == SubSeq(s, 1, p - 1)
           b == SubSeq(s, p, Len(s))
<1>1. a \in Seq(Kv) /\ Len(a) = p - 1 /\ \A i \in 1 .. p - 1 : a[i] = s[i]
  OBVIOUS
<1>2. b \in Seq(Kv) /\ Len(b) = Len(s) - p + 1
      /\ \A i \in 1 .. Len(s) - p + 1 : b[i] = s[p + i - 1]
  OBVIOUS
<1>3. InsertAt(s, p, e) = (a \o <<e>>) \o b
  BY DEF InsertAt
<1> HIDE DEF a, b
<1> DEFINE c == a \o <<e>>
<1>4. c \in Seq(Kv) /\ Len(c) = p /\ c[p] = e /\ \A i \in 1 .. p - 1 : c[i] = s[i]
  BY <1>1
<1> HIDE DEF c
<1>5. InsertAt(s, p, e) = c \o b
  BY <1>3 DEF c
<1>6. /\ c \o b \in Seq(Kv) /\ Len(c \o b) = Len(s) + 1
      /\ \A i \in 1 .. p : (c \o b)[i] = c[i]
      /\ \A i \in 1 .. Len(b) : (c \o b)[p + i] = b[i]
  <2>1. /\ c \o b \in Seq(Kv) /\ Len(c \o b) = Len(c) + Len(b)
        /\ \A i \in 1 .. Len(c) + Len(b) :
             (c \o b)[i] = IF i <= Len(c) THEN c[i] ELSE b[i - Len(c)]
    BY <1>2, <1>4, ConcatProperties
  <2>2. /\ p \in Nat /\ Len(b) \in Nat /\ Len(s) \in Nat
        /\ Len(c) = p /\ Len(b) = Len(s) - p + 1
    BY <1>2, <1>4
  <2>3. ASSUME NEW i \in 1 .. Len(b) PROVE (c \o b)[p + i] = b[i]
    <3>1. p + i \in 1 .. Len(c) + Len(b) /\ ~(p + i <= Len(c)) /\ p + i - Len(c) = i
      BY <2>2
    <3> QED
      BY <2>1, <3>1
  <2> QED
    BY <2>1, <2>2, <2>3
<1>7. ASSUME NEW i \in 1 .. Len(s), i >= p PROVE (c \o b)[i + 1] = s[i]
  <2> DEFINE k == i - p + 1
  <2>1. k \in 1 .. Len(b) /\ k \in 1 .. Len(s) - p + 1 /\ p + k = i + 1 /\ p + k - 1 = i
    BY <1>2, <1>7
  <2> HIDE DEF k
  <2>2. (c \o b)[p + k] = b[k] /\ b[k] = s[p + k - 1]
    BY <1>2, <1>6, <2>1
  <2> QED
    BY <2>1, <2>2
<1> QED
  BY <1>4, <1>5, <1>6, <1>7

(* log_kv_alloc finds the list of key or makes one where it belongs.       *)
LEMMA KvAlloced ==
  ASSUME NEW kvh \in Seq(Kv), Ascending(kvh), NEW key \in Int
  PROVE  /\ KvAlloc(kvh, key) \in Seq(Kv)
         /\ Ascending(KvAlloc(kvh, key))
         /\ Place(KvAlloc(kvh, key), kvh, key, KvAt(kvh, key))
         /\ KvAt(KvAlloc(kvh, key), key) = KvAt(kvh, key)
<1> DEFINE p == KvAt(kvh, key)
           list == KvAlloc(kvh, key)
<1>1. /\ Len(kvh) \in Nat /\ DOMAIN kvh = 1 .. Len(kvh)
      /\ \A j \in 1 .. Len(kvh) : kvh[j] \in Kv /\ kvh[j].key \in Int
  BY KvTypes
<1>2. /\ p \in 1 .. Len(kvh) + 1
      /\ \A j \in 1 .. Len(kvh) : j > p => kvh[j].key > key
      /\ p <= Len(kvh) => kvh[p].key >= key
      /\ p > 1 /\ ~(p <= Len(kvh) /\ kvh[p].key = key) => kvh[p - 1].key < key
  BY KvAtFound
<1>3. list = IF p <= Len(kvh) /\ kvh[p].key = key THEN kvh
             ELSE InsertAt(kvh, p, NewKv(key))
  BY DEF KvAlloc
<1>4. \A j, k \in 1 .. Len(kvh) : j < k => kvh[j].key < kvh[k].key
  BY <1>1 DEF Ascending
<1> HIDE DEF p, list
<1>5. CASE p <= Len(kvh) /\ kvh[p].key = key
  <2>1. list = kvh
    BY <1>3, <1>5
  <2>2. Place(list, kvh, key, p)
    BY <1>2, <1>5, <2>1 DEF Place
  <2> QED
    BY <2>1, <2>2 DEF p, list
<1>6. CASE ~(p <= Len(kvh) /\ kvh[p].key = key)
  <2>1. NewKv(key) \in Kv /\ NewKv(key).key = key
    BY DEF NewKv, Kv
  <2>2. /\ list \in Seq(Kv) /\ Len(list) = Len(kvh) + 1
        /\ list[p] = NewKv(key)
        /\ \A i \in 1 .. Len(kvh) : i < p => list[i] = kvh[i]
        /\ \A i \in 1 .. Len(kvh) : i >= p => list[i + 1] = kvh[i]
    <3>1. list = InsertAt(kvh, p, NewKv(key))
      BY <1>3, <1>6
    <3> QED
      <4>1. p \in 1 .. Len(kvh) + 1
        BY <1>2
      <4>2. NewKv(key) \in Kv
        BY <2>1
      <4>3. InsertAt(kvh, p, NewKv(key)) \in Seq(Kv)
        BY <4>1, <4>2, Inserted
      <4>4. Len(InsertAt(kvh, p, NewKv(key))) = Len(kvh) + 1
        BY <4>1, <4>2, Inserted
      <4>5. InsertAt(kvh, p, NewKv(key))[p] = NewKv(key)
        BY <4>1, <4>2, Inserted
      <4>6. \A i \in 1 .. Len(kvh) : i < p => InsertAt(kvh, p, NewKv(key))[i] = kvh[i]
        BY <4>1, <4>2, Inserted
      <4>7. \A i \in 1 .. Len(kvh) : i >= p => InsertAt(kvh, p, NewKv(key))[i + 1] = kvh[i]
        BY <4>1, <4>2, Inserted
      <4> QED
        BY <3>1, <4>3, <4>4, <4>5, <4>6, <4>7
  <2>3. \A i \in 1 .. Len(kvh) : i < p => kvh[i].key < key
    <3> SUFFICES ASSUME NEW i \in 1 .. Len(kvh), i < p PROVE kvh[i].key < key
      OBVIOUS
    <3>1. p - 1 \in 1 .. Len(kvh) /\ kvh[p - 1].key < key
      BY <1>1, <1>2, <1>6
    <3>2. CASE i = p - 1
      BY <3>1, <3>2
    <3>3. CASE i # p - 1
      <4>1. kvh[i].key < kvh[p - 1].key
        BY <1>1, <1>2, <1>4, <3>1, <3>3
      <4> QED
        BY <1>1, <3>1, <4>1
    <3> QED
      BY <3>2, <3>3
  <2>4. \A i \in 1 .. Len(kvh) : i >= p => kvh[i].key > key
    BY <1>1, <1>2, <1>6
  <2>5. Place(list, kvh, key, p)
    BY <1>2, <2>2, <2>3, <2>4 DEF Place
  <2>6. ASSUME NEW i \in 1 .. Len(list), NEW j \in 1 .. Len(list), i < j
        PROVE  list[i].key < list[j].key
    <3>1. list[p].key = key
      BY <2>1, <2>2
    <3>2. CASE j < p
      BY <1>1, <1>2, <1>4, <2>2, <2>6, <3>2
    <3>3. CASE j = p
      BY <1>1, <1>2, <2>2, <2>3, <2>6, <3>1, <3>3
    <3>4. CASE j > p
      <4>1. j - 1 \in 1 .. Len(kvh) /\ j - 1 >= p /\ list[j] = kvh[j - 1]
        BY <1>1, <1>2, <2>2, <3>4
      <4>2. kvh[j - 1].key > key
        BY <2>4, <4>1
      <4>3. CASE i < p
        <5>1. i \in 1 .. Len(kvh) /\ list[i] = kvh[i] /\ kvh[i].key < key
          BY <1>1, <1>2, <2>2, <2>3, <4>3
        <5> QED
          BY <1>1, <4>1, <4>2, <5>1
      <4>4. CASE i = p
        BY <1>1, <3>1, <4>1, <4>2, <4>4
      <4>5. CASE i > p
        <5>1. i - 1 \in 1 .. Len(kvh) /\ i - 1 >= p /\ list[i] = kvh[i - 1]
          BY <1>1, <1>2, <2>2, <4>5
        <5> QED
          BY <1>4, <2>6, <4>1, <5>1
      <4> QED
        BY <1>2, <4>3, <4>4, <4>5
    <3> QED
      BY <1>2, <3>2, <3>3, <3>4
  <2>7. Ascending(list)
    BY <2>2, <2>6 DEF Ascending
  <2>8. KvAt(list, list[p].key) = p
    <3>1. p \in DOMAIN list
      BY <1>1, <1>2, <2>2
    <3> QED
      BY <2>2, <2>7, <3>1, KvAtKey
  <2> QED
    BY <2>1, <2>2, <2>5, <2>7, <2>8 DEF p, list
<1> QED
  BY <1>5, <1>6

(* A field of one entry of a list.                                         *)
LEMMA KvExtended ==
  ASSUME NEW kv \in Kv, NEW n \in Nat
  PROVE  /\ [kv EXCEPT !.vh = Append(@, n)] \in Kv
         /\ [kv EXCEPT !.vh = Append(@, n)].key = kv.key
         /\ [kv EXCEPT !.vh = Append(@, n)].vh = Append(kv.vh, n)
<1>1. kv.vh \in Seq(Nat)
  BY DEF Kv
<1>2. Append(kv.vh, n) \in Seq(Nat)
  BY <1>1
<1> QED
  BY <1>2 DEF Kv

(* Entries keep their counters, and a new one starts at zero.              *)
CountersKept(kvh, new) ==
  \A i \in DOMAIN new :
    \/ \E j \in DOMAIN kvh :
         /\ new[i].key = kvh[j].key /\ new[i].n_h265_frame = kvh[j].n_h265_frame
         /\ new[i].has_lost_frame = kvh[j].has_lost_frame
    \/ /\ new[i].n_h265_frame = 0 /\ new[i].has_lost_frame = FALSE
       /\ \A j \in DOMAIN kvh : kvh[j].key # new[i].key

After(keyOf, n) == \A m \in DOMAIN keyOf : m < n

(* A record added to an index.                                             *)
LEMMA KvAdded ==
  ASSUME NEW kvh \in Seq(Kv), NEW keyOf, Indexes(kvh, keyOf), NEW key \in Int,
         NEW n \in Nat, After(keyOf, n),
         NEW newOf, DOMAIN newOf = DOMAIN keyOf \cup {n}, newOf[n] = key,
         \A m \in DOMAIN keyOf : newOf[m] = keyOf[m]
  PROVE  /\ KvAdd(kvh, key, n) \in Seq(Kv)
         /\ Indexes(KvAdd(kvh, key, n), newOf)
         /\ CountersKept(kvh, KvAdd(kvh, key, n))
<1> DEFINE list == KvAlloc(kvh, key)
           p == KvAt(list, key)
           new == KvAdd(kvh, key, n)
<1>1. /\ list \in Seq(Kv) /\ Ascending(list) /\ Place(list, kvh, key, p)
  BY KvAlloced DEF Indexes
<1>2. new = [list EXCEPT ![p].vh = Append(@, n)]
  BY DEF KvAdd
<1> HIDE DEF list, p, new
<1>3. /\ Len(kvh) \in Nat /\ DOMAIN kvh = 1 .. Len(kvh)
      /\ \A i \in 1 .. Len(kvh) : kvh[i] \in Kv /\ kvh[i].vh \in Seq(Nat)
  BY KvTypes
<1>4. /\ Len(list) \in Nat /\ DOMAIN list = 1 .. Len(list)
      /\ \A i \in 1 .. Len(list) : list[i] \in Kv /\ list[i].vh \in Seq(Nat)
  BY <1>1, KvTypes
<1>5. \A i \in 1 .. Len(kvh) :
        /\ Len(kvh[i].vh) > 0
        /\ \A k \in 1 .. Len(kvh[i].vh) :
             kvh[i].vh[k] \in DOMAIN keyOf /\ keyOf[kvh[i].vh[k]] = kvh[i].key
        /\ \A k, l \in 1 .. Len(kvh[i].vh) : k < l => kvh[i].vh[k] < kvh[i].vh[l]
  BY <1>3 DEF Indexes
<1>6. /\ p \in 1 .. Len(list) /\ list[p].key = key
      /\ \A i \in 1 .. Len(list) : i # p => \E j \in 1 .. Len(kvh) : list[i] = kvh[j]
      /\ \A j \in 1 .. Len(kvh) : \E i \in 1 .. Len(list) : list[i] = kvh[j]
      /\ \A k \in 1 .. Len(list[p].vh) :
           list[p].vh[k] \in DOMAIN keyOf /\ keyOf[list[p].vh[k]] = key
      /\ \A k, l \in 1 .. Len(list[p].vh) : k < l => list[p].vh[k] < list[p].vh[l]
  <2>1. CASE list = kvh /\ p \in 1 .. Len(kvh) /\ kvh[p].key = key
    BY <1>5, <2>1
  <2>2. CASE /\ p \in 1 .. Len(kvh) + 1 /\ Len(list) = Len(kvh) + 1
             /\ list[p] = NewKv(key)
             /\ \A i \in 1 .. Len(kvh) : i < p => list[i] = kvh[i] /\ kvh[i].key < key
             /\ \A i \in 1 .. Len(kvh) : i >= p => list[i + 1] = kvh[i] /\ kvh[i].key > key
    <3>1. list[p].key = key /\ list[p].vh = <<>>
      BY <2>2 DEF NewKv
    <3>2. ASSUME NEW i \in 1 .. Len(list), i # p
          PROVE  \E j \in 1 .. Len(kvh) : list[i] = kvh[j]
      <4>1. CASE i < p
        BY <1>3, <2>2, <4>1
      <4>2. CASE i > p
        <5>1. i - 1 \in 1 .. Len(kvh) /\ i - 1 >= p /\ (i - 1) + 1 = i
          BY <1>3, <2>2, <4>2
        <5> QED
          BY <2>2, <5>1
      <4> QED
        BY <1>3, <2>2, <3>2, <4>1, <4>2
    <3>3. ASSUME NEW j \in 1 .. Len(kvh)
          PROVE  \E i \in 1 .. Len(list) : list[i] = kvh[j]
      <4>1. CASE j < p
        BY <1>3, <2>2, <4>1
      <4>2. CASE j >= p
        BY <1>3, <2>2, <4>2
      <4> QED
        BY <1>3, <2>2, <4>1, <4>2
    <3> QED
      BY <1>3, <2>2, <3>1, <3>2, <3>3
  <2> QED
    BY <1>1, <2>1, <2>2 DEF Place
<1>7. /\ list[p] \in Kv /\ list[p].vh \in Seq(Nat)
      /\ new[p] = [list[p] EXCEPT !.vh = Append(@, n)]
      /\ DOMAIN new = DOMAIN list
      /\ \A i \in 1 .. Len(list) : i # p => new[i] = list[i]
  BY <1>2, <1>4, <1>6
<1>8. new[p] \in Kv /\ new[p].key = key /\ new[p].vh = Append(list[p].vh, n)
  <2>1. list[p] \in Kv /\ list[p].key = key /\ new[p] = [list[p] EXCEPT !.vh = Append(@, n)]
    BY <1>6, <1>7
  <2> QED
    BY <2>1, KvExtended
<1>9. new \in Seq(Kv)
  <2>1. new \in [1 .. Len(list) -> Kv]
    <3>1. \A i \in 1 .. Len(list) : new[i] \in Kv
      BY <1>4, <1>7, <1>8
    <3>2. new = [i \in DOMAIN list |-> new[i]]
      BY <1>2
    <3> QED
      BY <1>4, <3>1, <3>2
  <2> QED
    BY <1>4, <2>1, SeqDef
<1>10. \A i \in 1 .. Len(list) : new[i].key = list[i].key
  BY <1>6, <1>7, <1>8
<1>11. Ascending(new)
  BY <1>1, <1>4, <1>7, <1>10 DEF Ascending
<1> DEFINE vh == list[p].vh
<1>12. /\ Len(Append(vh, n)) = Len(vh) + 1 /\ Len(vh) \in Nat
       /\ Append(vh, n)[Len(vh) + 1] = n
       /\ \A k \in 1 .. Len(vh) : Append(vh, n)[k] = vh[k]
  BY <1>7
<1>13. ASSUME NEW i \in DOMAIN new
       PROVE  /\ Len(new[i].vh) > 0
              /\ \A k \in 1 .. Len(new[i].vh) :
                   new[i].vh[k] \in DOMAIN newOf /\ newOf[new[i].vh[k]] = new[i].key
              /\ \A k, l \in 1 .. Len(new[i].vh) : k < l => new[i].vh[k] < new[i].vh[l]
  <2>0. i \in 1 .. Len(list)
    BY <1>4, <1>7
  <2>1. CASE i = p
    <3>1. Len(new[p].vh) > 0
      BY <1>8, <1>12
    <3>2. ASSUME NEW k \in 1 .. Len(new[p].vh)
          PROVE  new[p].vh[k] \in DOMAIN newOf /\ newOf[new[p].vh[k]] = key
      <4>1. CASE k = Len(vh) + 1
        <5>1. new[p].vh[k] = n
          BY <1>8, <1>12, <4>1
        <5> QED
          BY <5>1
      <4>2. CASE k # Len(vh) + 1
        <5>1. k \in 1 .. Len(vh) /\ new[p].vh[k] = vh[k]
          BY <1>8, <1>12, <4>2
        <5>2. vh[k] \in DOMAIN keyOf /\ keyOf[vh[k]] = key
          BY <1>6, <5>1
        <5> QED
          BY <5>1, <5>2
      <4> QED
        BY <4>1, <4>2
    <3>3. ASSUME NEW k \in 1 .. Len(new[p].vh), NEW l \in 1 .. Len(new[p].vh), k < l
          PROVE  new[p].vh[k] < new[p].vh[l]
      <4>1. \A a \in 1 .. Len(vh) : vh[a] < n
        BY <1>6 DEF After
      <4>2. /\ k = Len(vh) + 1 \/ k \in 1 .. Len(vh)
            /\ l = Len(vh) + 1 \/ l \in 1 .. Len(vh)
        BY <1>8, <1>12
      <4> QED
        BY <1>6, <1>8, <1>12, <3>3, <4>1, <4>2
    <3> QED
      BY <1>8, <2>1, <3>1, <3>2, <3>3
  <2>2. CASE i # p
    <3>1. PICK j \in 1 .. Len(kvh) : list[i] = kvh[j]
      BY <1>6, <2>0, <2>2
    <3>2. new[i] = kvh[j]
      BY <1>7, <2>0, <2>2, <3>1
    <3> QED
      BY <1>5, <3>2
  <2> QED
    BY <2>1, <2>2
<1>14. ASSUME NEW m \in DOMAIN newOf
       PROVE  \E i \in DOMAIN new : \E k \in 1 .. Len(new[i].vh) : new[i].vh[k] = m
  <2>1. CASE m = n
    <3>1. Len(vh) + 1 \in 1 .. Len(new[p].vh) /\ new[p].vh[Len(vh) + 1] = n
      BY <1>8, <1>12
    <3>2. p \in DOMAIN new
      BY <1>4, <1>6, <1>7
    <3> QED
      BY <2>1, <3>1, <3>2
  <2>2. CASE m # n
    <3>1. PICK j \in DOMAIN kvh : \E k \in 1 .. Len(kvh[j].vh) : kvh[j].vh[k] = m
      BY <2>2 DEF Indexes
    <3>2. PICK i \in 1 .. Len(list) : list[i] = kvh[j]
      BY <1>3, <1>6, <3>1
    <3>3. PICK k \in 1 .. Len(list[i].vh) : list[i].vh[k] = m
      BY <3>1, <3>2
    <3>4. i \in DOMAIN new
      BY <1>4, <1>7, <3>2
    <3>5. CASE i = p
      <4>1. k \in 1 .. Len(new[p].vh) /\ new[p].vh[k] = m
        BY <1>8, <1>12, <3>3, <3>5
      <4> QED
        BY <3>4, <3>5, <4>1
    <3>6. CASE i # p
      BY <1>7, <3>2, <3>3, <3>4, <3>6
    <3> QED
      BY <3>5, <3>6
  <2> QED
    BY <2>1, <2>2
<1>15. ASSUME NEW i \in DOMAIN new
       PROVE  \/ \E j \in DOMAIN kvh :
                   /\ new[i].key = kvh[j].key /\ new[i].n_h265_frame = kvh[j].n_h265_frame
                   /\ new[i].has_lost_frame = kvh[j].has_lost_frame
              \/ /\ new[i].n_h265_frame = 0 /\ new[i].has_lost_frame = FALSE
                 /\ \A j \in DOMAIN kvh : kvh[j].key # new[i].key
  <2>0. i \in 1 .. Len(list)
    BY <1>4, <1>7
  <2>1. CASE i = p
    <3>1. /\ new[i].n_h265_frame = list[p].n_h265_frame /\ new[i].key = key
          /\ new[i].has_lost_frame = list[p].has_lost_frame
      BY <1>7, <1>8, <2>1 DEF Kv
    <3>2. CASE list = kvh /\ p \in 1 .. Len(kvh) /\ kvh[p].key = key
      BY <1>3, <3>1, <3>2
    <3>3. CASE /\ p \in 1 .. Len(kvh) + 1 /\ list[p] = NewKv(key)
               /\ \A j \in 1 .. Len(kvh) : j < p => list[j] = kvh[j] /\ kvh[j].key < key
               /\ \A j \in 1 .. Len(kvh) : j >= p => list[j + 1] = kvh[j] /\ kvh[j].key > key
      <4>1. list[p].n_h265_frame = 0 /\ list[p].has_lost_frame = FALSE
        BY <3>3 DEF NewKv
      <4>2. \A j \in 1 .. Len(kvh) : kvh[j].key \in Int
        BY KvTypes
      <4>3. ASSUME NEW j \in 1 .. Len(kvh)
            PROVE  kvh[j].key # key
        <5>1. j < p \/ j >= p
          BY <1>3, <3>3
        <5>2. kvh[j].key < key \/ kvh[j].key > key
          BY <3>3, <5>1
        <5> QED
          BY <4>2, <5>2
      <4> QED
        BY <1>3, <3>1, <4>1, <4>3
    <3> QED
      BY <1>1, <3>2, <3>3 DEF Place
  <2>2. CASE i # p
    <3>1. PICK j \in 1 .. Len(kvh) : list[i] = kvh[j]
      BY <1>6, <2>0, <2>2
    <3>2. new[i] = kvh[j]
      BY <1>7, <2>0, <2>2, <3>1
    <3> QED
      BY <1>3, <3>2
  <2> QED
    BY <2>1, <2>2
<1>16. CountersKept(kvh, new)
  BY <1>15 DEF CountersKept
<1> QED
  BY <1>9, <1>11, <1>13, <1>14, <1>16 DEF Indexes, new

-----------------------------------------------------------------------------
(* The store                                                               *)

Sequenced(v) == {n \in DOMAIN v : ~IsMessage(v[n].type)}

KeyOfSeq(v) == [n \in Sequenced(v) |-> v[n].key]

KeyOfBlock(v) == [n \in Sequenced(v) |-> v[n].block]

KeyOfMsg(v) == [n \in DOMAIN v \ Sequenced(v) |-> v[n].key]

Indexed(s) ==
  /\ s \in Store
  /\ Indexes(s.kvh, KeyOfSeq(s.v))
  /\ Indexes(s.block_kvh, KeyOfBlock(s.v))
  /\ Indexes(s.msg_kvh, KeyOfMsg(s.v))

(* What has a size has its data.                                           *)
Backed(v) ==
  \A n \in DOMAIN v :
    v[n].type = "decode" \/ IsMessage(v[n].type) => (v[n].size > 0 <=> v[n].buf)

(* The fields of a store.                                                  *)
LEMMA StoreTypes ==
  ASSUME NEW s \in Store
  PROVE  /\ s.v \in Seq(VRec) /\ s.kvh \in Seq(Kv) /\ s.block_kvh \in Seq(Kv)
         /\ s.msg_kvh \in Seq(Kv) /\ s.n_pkts \in Nat /\ s.n_frames \in Nat
         /\ s.fec_k \in Nat /\ s.ended \in BOOLEAN
BY DEF Store

(* The fields of its records.                                              *)
LEMMA VTypes ==
  ASSUME NEW v \in Seq(VRec)
  PROVE  /\ Len(v) \in Nat /\ DOMAIN v = 1 .. Len(v)
         /\ \A n \in 1 .. Len(v) :
              /\ v[n] \in VRec /\ v[n].type \in Types /\ v[n].key \in Int
              /\ v[n].block \in Int /\ v[n].dbm \in Int
              /\ v[n].size \in {0, 1} /\ v[n].buf \in BOOLEAN
              /\ v[n].filtered \in BOOLEAN
<1>1. \A x \in VRec :
        /\ x.type \in Types /\ x.key \in Int
        /\ x.block \in Int /\ x.dbm \in Int
        /\ x.size \in {0, 1} /\ x.buf \in BOOLEAN /\ x.filtered \in BOOLEAN
  BY DEF VRec
<1>2. Len(v) \in Nat /\ DOMAIN v = 1 .. Len(v) /\ \A n \in 1 .. Len(v) : v[n] \in VRec
  OBVIOUS
<1> QED
  BY <1>1, <1>2

(* The record that log_v_alloc makes of header r.                          *)
Fresh(r) ==
  [type |-> r.type, key |-> r.seq, block |-> r.block, frag |-> r.frag,
   dbm |-> r.dbm, src |-> r.src, size |-> IF HasData(r) THEN 1 ELSE 0,
   buf |-> FALSE, filtered |-> FALSE]

(* A new record has its header's keys and no data yet.                     *)
LEMMA FreshTypes ==
  ASSUME NEW r \in Chunk
  PROVE  /\ Fresh(r) \in VRec /\ Fresh(r).type = r.type /\ Fresh(r).key = r.seq
         /\ Fresh(r).block = r.block /\ Fresh(r).buf = FALSE
         /\ Fresh(r).size = IF HasData(r) THEN 1 ELSE 0
         /\ r.seq \in Int /\ r.block \in Int /\ r.type \in Types
BY DEF Fresh, VRec, Chunk

(* log_v_alloc: the record comes last, and the indexes have it.            *)
LEMMA VAlloced ==
  ASSUME NEW s, Indexed(s), NEW r \in Chunk
  PROVE  /\ Indexed(VAlloc(s, r))
         /\ VAlloc(s, r).v = Append(s.v, Fresh(r))
         /\ VAlloc(s, r).ended = s.ended /\ VAlloc(s, r).fec_k = s.fec_k
         /\ VAlloc(s, r).n_pkts = s.n_pkts /\ VAlloc(s, r).n_frames = s.n_frames
         /\ CountersKept(s.block_kvh, VAlloc(s, r).block_kvh)
<1> DEFINE n == Len(s.v) + 1
           x == Fresh(r)
           v == Append(s.v, x)
           t == VAlloc(s, r)
<1>1. /\ s.v \in Seq(VRec) /\ s.kvh \in Seq(Kv) /\ s.block_kvh \in Seq(Kv)
      /\ s.msg_kvh \in Seq(Kv)
  BY StoreTypes DEF Indexed
<1>2. x \in VRec /\ x.type = r.type /\ x.key = r.seq /\ x.block = r.block
      /\ r.seq \in Int /\ r.block \in Int
  BY FreshTypes
<1> HIDE DEF x
<1>3. /\ v \in Seq(VRec) /\ Len(v) = n /\ DOMAIN v = 1 .. n /\ n \in Nat /\ n >= 1
      /\ v[n] = x /\ \A m \in 1 .. n - 1 : v[m] = s.v[m]
      /\ DOMAIN s.v = 1 .. n - 1
  BY <1>1, <1>2
<1> HIDE DEF n, v
<1>0. /\ DOMAIN v = DOMAIN s.v \cup {n} /\ n \notin DOMAIN s.v
      /\ \A m \in DOMAIN s.v : v[m] = s.v[m] /\ m # n /\ m < n
      /\ v[n] = x
  BY <1>3
<1>4. CASE IsMessage(r.type)
  <2>1. t = [s EXCEPT !.v = v, !.msg_kvh = KvAdd(s.msg_kvh, r.seq, n)]
    BY <1>4 DEF VAlloc, n, v, x, Fresh, Indexed, Store
  <2>2. Sequenced(v) = Sequenced(s.v)
    BY <1>0, <1>2, <1>4 DEF Sequenced
  <2>3. KeyOfSeq(v) = KeyOfSeq(s.v) /\ KeyOfBlock(v) = KeyOfBlock(s.v)
    BY <1>0, <2>2 DEF KeyOfSeq, KeyOfBlock, Sequenced
  <2>4. /\ After(KeyOfMsg(s.v), n)
        /\ DOMAIN KeyOfMsg(v) = DOMAIN KeyOfMsg(s.v) \cup {n}
        /\ KeyOfMsg(v)[n] = r.seq /\ \A m \in DOMAIN KeyOfMsg(s.v) : KeyOfMsg(v)[m] = KeyOfMsg(s.v)[m]
    BY <1>0, <1>2, <2>2, <1>4 DEF KeyOfMsg, Sequenced, After
  <2>5. /\ KvAdd(s.msg_kvh, r.seq, n) \in Seq(Kv)
        /\ Indexes(KvAdd(s.msg_kvh, r.seq, n), KeyOfMsg(v))
    <3> DEFINE old == KeyOfMsg(s.v)
               new == KeyOfMsg(v)
               list == s.msg_kvh
    <3>1. list \in Seq(Kv) /\ Indexes(list, old) /\ n \in Nat
      BY <1>1, <1>3 DEF Indexed
    <3>2. /\ After(old, n) /\ DOMAIN new = DOMAIN old \cup {n}
          /\ new[n] = r.seq /\ \A m \in DOMAIN old : new[m] = old[m]
      BY <2>4
    <3> HIDE DEF old, new, list
    <3>3. KvAdd(list, r.seq, n) \in Seq(Kv) /\ Indexes(KvAdd(list, r.seq, n), new)
      BY <1>2, <3>1, <3>2, KvAdded
    <3> QED
      BY <3>3 DEF new, list
  <2>6. t \in Store /\ t.v = v /\ t.msg_kvh = KvAdd(s.msg_kvh, r.seq, n)
        /\ t.kvh = s.kvh /\ t.block_kvh = s.block_kvh /\ t.ended = s.ended
        /\ t.n_pkts = s.n_pkts /\ t.n_frames = s.n_frames /\ t.fec_k = s.fec_k
    BY <1>3, <2>1, <2>5 DEF Indexed, Store
  <2>7. CountersKept(s.block_kvh, t.block_kvh)
    BY <2>6 DEF CountersKept
  <2> QED
    BY <2>3, <2>5, <2>6, <2>7 DEF Indexed, v, x
<1>5. CASE ~IsMessage(r.type)
  <2>1. t = [s EXCEPT !.v = v, !.kvh = KvAdd(s.kvh, r.seq, n),
                      !.block_kvh = KvAdd(s.block_kvh, r.block, n)]
    BY <1>5 DEF VAlloc, n, v, x, Fresh, Indexed, Store
  <2>2. Sequenced(v) = Sequenced(s.v) \cup {n} /\ n \notin Sequenced(s.v)
    BY <1>0, <1>2, <1>5 DEF Sequenced
  <2>3. KeyOfMsg(v) = KeyOfMsg(s.v)
    BY <1>0, <2>2 DEF KeyOfMsg, Sequenced, After
  <2>4. /\ After(KeyOfSeq(s.v), n)
        /\ DOMAIN KeyOfSeq(v) = DOMAIN KeyOfSeq(s.v) \cup {n}
        /\ KeyOfSeq(v)[n] = r.seq /\ \A m \in DOMAIN KeyOfSeq(s.v) : KeyOfSeq(v)[m] = KeyOfSeq(s.v)[m]
    BY <1>0, <1>2, <2>2 DEF KeyOfSeq, Sequenced, After
  <2>5. /\ After(KeyOfBlock(s.v), n)
        /\ DOMAIN KeyOfBlock(v) = DOMAIN KeyOfBlock(s.v) \cup {n}
        /\ KeyOfBlock(v)[n] = r.block
        /\ \A m \in DOMAIN KeyOfBlock(s.v) : KeyOfBlock(v)[m] = KeyOfBlock(s.v)[m]
    BY <1>0, <1>2, <2>2 DEF KeyOfBlock, Sequenced, After
  <2>6. /\ KvAdd(s.kvh, r.seq, n) \in Seq(Kv)
        /\ Indexes(KvAdd(s.kvh, r.seq, n), KeyOfSeq(v))
    <3> DEFINE old == KeyOfSeq(s.v)
               new == KeyOfSeq(v)
               list == s.kvh
    <3>1. list \in Seq(Kv) /\ Indexes(list, old) /\ n \in Nat
      BY <1>1, <1>3 DEF Indexed
    <3>2. /\ After(old, n) /\ DOMAIN new = DOMAIN old \cup {n}
          /\ new[n] = r.seq /\ \A m \in DOMAIN old : new[m] = old[m]
      BY <2>4
    <3> HIDE DEF old, new, list
    <3>3. KvAdd(list, r.seq, n) \in Seq(Kv) /\ Indexes(KvAdd(list, r.seq, n), new)
      BY <1>2, <3>1, <3>2, KvAdded
    <3> QED
      BY <3>3 DEF new, list
  <2>7. /\ KvAdd(s.block_kvh, r.block, n) \in Seq(Kv)
        /\ Indexes(KvAdd(s.block_kvh, r.block, n), KeyOfBlock(v))
        /\ CountersKept(s.block_kvh, KvAdd(s.block_kvh, r.block, n))
    <3> DEFINE old == KeyOfBlock(s.v)
               new == KeyOfBlock(v)
               list == s.block_kvh
    <3>1. list \in Seq(Kv) /\ Indexes(list, old) /\ n \in Nat
      BY <1>1, <1>3 DEF Indexed
    <3>2. /\ After(old, n) /\ DOMAIN new = DOMAIN old \cup {n}
          /\ new[n] = r.block /\ \A m \in DOMAIN old : new[m] = old[m]
      BY <2>5
    <3> HIDE DEF old, new, list
    <3>3. /\ KvAdd(list, r.block, n) \in Seq(Kv) /\ Indexes(KvAdd(list, r.block, n), new)
          /\ CountersKept(list, KvAdd(list, r.block, n))
      BY <1>2, <3>1, <3>2, KvAdded
    <3> QED
      BY <3>3 DEF new, list
  <2>8. /\ t \in Store /\ t.v = v /\ t.msg_kvh = s.msg_kvh
        /\ t.kvh = KvAdd(s.kvh, r.seq, n) /\ t.ended = s.ended
        /\ t.block_kvh = KvAdd(s.block_kvh, r.block, n)
        /\ t.n_pkts = s.n_pkts /\ t.n_frames = s.n_frames /\ t.fec_k = s.fec_k
    BY <1>3, <2>1, <2>6, <2>7 DEF Indexed, Store
  <2> QED
    BY <2>3, <2>6, <2>7, <2>8 DEF Indexed, v, x
<1> QED
  BY <1>4, <1>5

(* Counters and marks change, keys and lists do not.                       *)
SameList(kvh, new) ==
  /\ new \in Seq(Kv) /\ DOMAIN new = DOMAIN kvh
  /\ \A i \in DOMAIN kvh : new[i].key = kvh[i].key /\ new[i].vh = kvh[i].vh

SameKeys(v, w) ==
  /\ DOMAIN w = DOMAIN v
  /\ \A n \in DOMAIN v : w[n].type = v[n].type /\ w[n].key = v[n].key /\ w[n].block = v[n].block

(* An index is its keys and lists, whatever the counters.                  *)
LEMMA SameIndex ==
  ASSUME NEW kvh, NEW new, NEW keyOf, SameList(kvh, new), Indexes(kvh, keyOf)
  PROVE  Indexes(new, keyOf)
BY DEF SameList, Indexes, Ascending

(* So is a store's shape.                                                  *)
LEMMA SameIndexed ==
  ASSUME NEW s, NEW t \in Store, Indexed(s), SameKeys(s.v, t.v), SameList(s.kvh, t.kvh),
         SameList(s.block_kvh, t.block_kvh), SameList(s.msg_kvh, t.msg_kvh)
  PROVE  Indexed(t)
<1>1. Sequenced(t.v) = Sequenced(s.v)
  BY DEF SameKeys, Sequenced
<1>2. KeyOfSeq(t.v) = KeyOfSeq(s.v) /\ KeyOfBlock(t.v) = KeyOfBlock(s.v) /\ KeyOfMsg(t.v) = KeyOfMsg(s.v)
  BY <1>1 DEF SameKeys, Sequenced, KeyOfSeq, KeyOfBlock, KeyOfMsg
<1> QED
  BY <1>2, SameIndex DEF Indexed

(* One entry of a list gets other counters.                                *)
LEMMA KvMarked ==
  ASSUME NEW kvh \in Seq(Kv), NEW i, NEW kv \in Kv,
         i \in DOMAIN kvh => kv.key = kvh[i].key /\ kv.vh = kvh[i].vh
  PROVE  SameList(kvh, [kvh EXCEPT ![i] = kv])
<1> DEFINE new == [kvh EXCEPT ![i] = kv]
<1>1. DOMAIN new = DOMAIN kvh /\ \A j \in DOMAIN kvh : new[j] = IF j = i THEN kv ELSE kvh[j]
  OBVIOUS
<1>2. new \in [1 .. Len(kvh) -> Kv] /\ Len(kvh) \in Nat
  BY KvTypes
<1>3. new \in Seq(Kv)
  BY <1>2, SeqDef
<1> QED
  BY <1>1, <1>3 DEF SameList

(* An entry with another count of frames.                                  *)
LEMMA KvCounted ==
  ASSUME NEW kv \in Kv, NEW e \in Nat
  PROVE  /\ [kv EXCEPT !.n_ethernet_frame = e] \in Kv
         /\ [kv EXCEPT !.n_ethernet_frame = e].key = kv.key
         /\ [kv EXCEPT !.n_ethernet_frame = e].vh = kv.vh
BY DEF Kv

(* The list of a record that has one.                                      *)
LEMMA KvOf ==
  ASSUME NEW kvh \in Seq(Kv), NEW keyOf, Indexes(kvh, keyOf), NEW n \in DOMAIN keyOf
  PROVE  /\ KvAt(kvh, keyOf[n]) \in DOMAIN kvh
         /\ kvh[KvAt(kvh, keyOf[n])] \in Kv
         /\ kvh[KvAt(kvh, keyOf[n])].key = keyOf[n]
<1>1. PICK i \in DOMAIN kvh : \E k \in 1 .. Len(kvh[i].vh) : kvh[i].vh[k] = n
  BY DEF Indexes
<1>2. keyOf[n] = kvh[i].key
  BY <1>1 DEF Indexes
<1>3. KvAt(kvh, keyOf[n]) = i
  BY <1>2, KvAtKey DEF Indexes
<1> QED
  BY <1>2, <1>3

(* A list is like itself.                                                  *)
LEMMA SameListRefl ==
  ASSUME NEW kvh \in Seq(Kv)
  PROVE  SameList(kvh, kvh)
BY DEF SameList

(* The lists of a record that has a sequence number.                       *)
LEMMA ListsOf ==
  ASSUME NEW s, Indexed(s), NEW n \in Sequenced(s.v)
  PROVE  /\ KvAt(s.kvh, s.v[n].key) \in DOMAIN s.kvh
         /\ s.kvh[KvAt(s.kvh, s.v[n].key)] \in Kv
         /\ s.kvh[KvAt(s.kvh, s.v[n].key)].key = s.v[n].key
         /\ KvAt(s.block_kvh, s.v[n].block) \in DOMAIN s.block_kvh
         /\ s.block_kvh[KvAt(s.block_kvh, s.v[n].block)] \in Kv
         /\ s.block_kvh[KvAt(s.block_kvh, s.v[n].block)].key = s.v[n].block
<1>1. s.kvh \in Seq(Kv) /\ s.block_kvh \in Seq(Kv)
  BY StoreTypes DEF Indexed
<1>2. n \in DOMAIN KeyOfSeq(s.v) /\ KeyOfSeq(s.v)[n] = s.v[n].key
  BY DEF KeyOfSeq
<1>3. n \in DOMAIN KeyOfBlock(s.v) /\ KeyOfBlock(s.v)[n] = s.v[n].block
  BY DEF KeyOfBlock
<1>4. Indexes(s.kvh, KeyOfSeq(s.v)) /\ Indexes(s.block_kvh, KeyOfBlock(s.v))
  BY DEF Indexed
<1>5. /\ KvAt(s.kvh, s.v[n].key) \in DOMAIN s.kvh
      /\ s.kvh[KvAt(s.kvh, s.v[n].key)] \in Kv
      /\ s.kvh[KvAt(s.kvh, s.v[n].key)].key = s.v[n].key
  BY <1>1, <1>2, <1>4, KvOf
<1>6. /\ KvAt(s.block_kvh, s.v[n].block) \in DOMAIN s.block_kvh
      /\ s.block_kvh[KvAt(s.block_kvh, s.v[n].block)] \in Kv
      /\ s.block_kvh[KvAt(s.block_kvh, s.v[n].block)].key = s.v[n].block
  BY <1>1, <1>3, <1>4, KvOf
<1> QED
  BY <1>5, <1>6

(* Other counters for one sequence number and one block.                   *)
Recount(s, i, a, j, b, pkts, frames) ==
  [s EXCEPT !.kvh = [s.kvh EXCEPT ![i] = a],
            !.block_kvh = [s.block_kvh EXCEPT ![j] = b],
            !.n_pkts = pkts, !.n_frames = frames]

(* The shape of the store does not depend on them.                         *)
LEMMA Recounted ==
  ASSUME NEW s, Indexed(s), NEW i \in DOMAIN s.kvh, NEW j \in DOMAIN s.block_kvh,
         NEW a \in Kv, a.key = s.kvh[i].key, a.vh = s.kvh[i].vh,
         NEW b \in Kv, b.key = s.block_kvh[j].key, b.vh = s.block_kvh[j].vh,
         NEW pkts \in Nat, NEW frames \in Nat
  PROVE  /\ Indexed(Recount(s, i, a, j, b, pkts, frames))
         /\ Recount(s, i, a, j, b, pkts, frames).v = s.v
         /\ Recount(s, i, a, j, b, pkts, frames).ended = s.ended
         /\ Recount(s, i, a, j, b, pkts, frames).fec_k = s.fec_k
         /\ Recount(s, i, a, j, b, pkts, frames).n_pkts = pkts
         /\ Recount(s, i, a, j, b, pkts, frames).n_frames = frames
         /\ Recount(s, i, a, j, b, pkts, frames).block_kvh = [s.block_kvh EXCEPT ![j] = b]
<1> DEFINE t == Recount(s, i, a, j, b, pkts, frames)
           kvh == [s.kvh EXCEPT ![i] = a]
           bkvh == [s.block_kvh EXCEPT ![j] = b]
<1>1. /\ s \in Store /\ s.v \in Seq(VRec) /\ s.kvh \in Seq(Kv)
      /\ s.block_kvh \in Seq(Kv) /\ s.msg_kvh \in Seq(Kv)
  BY StoreTypes DEF Indexed
<1>7. SameList(s.kvh, kvh) /\ SameList(s.block_kvh, bkvh)
  BY <1>1, KvMarked
<1>8. t = [s EXCEPT !.kvh = kvh, !.block_kvh = bkvh, !.n_pkts = pkts, !.n_frames = frames]
  BY DEF Recount
<1> HIDE DEF kvh, bkvh, t
<1>9. kvh \in Seq(Kv) /\ bkvh \in Seq(Kv)
  BY <1>7 DEF SameList
<1>10. /\ t \in Store /\ t.v = s.v /\ t.ended = s.ended /\ t.kvh = kvh
       /\ t.block_kvh = bkvh /\ t.msg_kvh = s.msg_kvh
       /\ t.n_pkts = pkts /\ t.n_frames = frames /\ t.fec_k = s.fec_k
  BY <1>1, <1>8, <1>9 DEF Store
<1>11. SameKeys(s.v, t.v)
  BY <1>10 DEF SameKeys
<1>12. Indexed(t)
  BY <1>1, <1>7, <1>10, <1>11, SameListRefl, SameIndexed
<1> QED
  BY <1>10, <1>12 DEF t, bkvh

(* The blocks count the same frames.                                       *)
SameFrames(kvh, new) ==
  /\ DOMAIN new = DOMAIN kvh
  /\ \A j \in DOMAIN kvh :
       /\ new[j].key = kvh[j].key /\ new[j].n_h265_frame = kvh[j].n_h265_frame
       /\ new[j].has_lost_frame = kvh[j].has_lost_frame

(* mark_inet6 finds both lists of the record, and counts.                  *)
LEMMA MarkedInet6 ==
  ASSUME NEW s, Indexed(s), NEW n \in Sequenced(s.v), NEW r,
         s.v[n].key = r.seq, s.v[n].block = r.block
  PROVE  /\ Indexed(MarkInet6(s, r))
         /\ MarkInet6(s, r).v = s.v /\ MarkInet6(s, r).ended = s.ended
         /\ MarkInet6(s, r).fec_k = s.fec_k
         /\ MarkInet6(s, r).n_pkts = s.n_pkts + 1 /\ MarkInet6(s, r).n_frames = s.n_frames
         /\ SameFrames(s.block_kvh, MarkInet6(s, r).block_kvh)
<1> DEFINE i == KvAt(s.kvh, r.seq)
           j == KvAt(s.block_kvh, r.block)
           a == [s.kvh[i] EXCEPT !.n_ethernet_frame = s.kvh[i].n_ethernet_frame + 1]
           b == [s.block_kvh[j] EXCEPT
                   !.n_ethernet_frame = s.block_kvh[j].n_ethernet_frame + 1]
<1>1. s \in Store /\ s.n_pkts \in Nat /\ s.n_frames \in Nat /\ s.n_pkts + 1 \in Nat
  BY StoreTypes DEF Indexed
<1>2. i \in DOMAIN s.kvh /\ s.kvh[i] \in Kv /\ j \in DOMAIN s.block_kvh /\ s.block_kvh[j] \in Kv
  BY ListsOf
<1>3. a \in Kv /\ a.key = s.kvh[i].key /\ a.vh = s.kvh[i].vh
  <2>1. s.kvh[i].n_ethernet_frame + 1 \in Nat
    BY <1>2 DEF Kv
  <2> QED
    BY <1>2, <2>1, KvCounted
<1>4. b \in Kv /\ b.key = s.block_kvh[j].key /\ b.vh = s.block_kvh[j].vh
  <2>1. s.block_kvh[j].n_ethernet_frame + 1 \in Nat
    BY <1>2 DEF Kv
  <2> QED
    BY <1>2, <2>1, KvCounted
<1>5. MarkInet6(s, r) = Recount(s, i, a, j, b, s.n_pkts + 1, s.n_frames)
  BY <1>1, <1>2 DEF MarkInet6, Recount, Store
<1>6. /\ b.n_h265_frame = s.block_kvh[j].n_h265_frame
      /\ b.has_lost_frame = s.block_kvh[j].has_lost_frame
  BY <1>2 DEF Kv
<1> HIDE DEF i, j, a, b
<1> DEFINE u == Recount(s, i, a, j, b, s.n_pkts + 1, s.n_frames)
<1>7. /\ Indexed(u) /\ u.v = s.v /\ u.ended = s.ended /\ u.n_pkts = s.n_pkts + 1
      /\ u.n_frames = s.n_frames /\ u.block_kvh = [s.block_kvh EXCEPT ![j] = b]
      /\ u.fec_k = s.fec_k
  BY <1>1, <1>2, <1>3, <1>4, Recounted
<1> HIDE DEF u
<1>8. SameFrames(s.block_kvh, u.block_kvh)
  BY <1>2, <1>4, <1>6, <1>7 DEF SameFrames
<1> QED
  BY <1>5, <1>7, <1>8 DEF u

(* What mark_h265 counts, on either list.                                  *)
LEMMA FrameMarked ==
  ASSUME NEW kv \in Kv, NEW fec \in BOOLEAN
  PROVE  /\ MarkFrame(kv, fec) \in Kv
         /\ MarkFrame(kv, fec).key = kv.key /\ MarkFrame(kv, fec).vh = kv.vh
         /\ MarkFrame(kv, fec).n_h265_frame = kv.n_h265_frame + 1
<1> DEFINE h == kv.n_h265_frame + 1
           x == kv.has_fec_frame \/ fec
<1>1. h \in Nat /\ x \in BOOLEAN
  BY DEF Kv
<1>2. MarkFrame(kv, fec) = [kv EXCEPT !.n_h265_frame = h, !.has_fec_frame = x]
  BY DEF MarkFrame, Kv
<1> HIDE DEF h, x
<1>3. /\ MarkFrame(kv, fec) \in Kv /\ MarkFrame(kv, fec).n_h265_frame = h
      /\ MarkFrame(kv, fec).key = kv.key /\ MarkFrame(kv, fec).vh = kv.vh
  BY <1>1, <1>2 DEF Kv
<1> QED
  BY <1>3 DEF h

(* The block of key counts a frame more, and says whether more are needed. *)
OneMore(kvh, new, key, fec_k) ==
  /\ DOMAIN new = DOMAIN kvh
  /\ \A j \in DOMAIN kvh :
       /\ new[j].key = kvh[j].key
       /\ kvh[j].key # key => /\ new[j].n_h265_frame = kvh[j].n_h265_frame
                             /\ new[j].has_lost_frame = kvh[j].has_lost_frame
       /\ kvh[j].key = key => /\ new[j].n_h265_frame = kvh[j].n_h265_frame + 1
                             /\ (new[j].has_lost_frame => kvh[j].n_h265_frame + 1 < fec_k)

(* mark_h265 finds both lists of the record, and counts.                   *)
LEMMA MarkedH265 ==
  ASSUME NEW s, Indexed(s), NEW n \in Sequenced(s.v), NEW r,
         s.v[n].key = r.seq, s.v[n].block = r.block
  PROVE  /\ Indexed(MarkH265(s, r))
         /\ MarkH265(s, r).v = s.v /\ MarkH265(s, r).ended = s.ended
         /\ MarkH265(s, r).fec_k = s.fec_k
         /\ MarkH265(s, r).n_pkts = s.n_pkts /\ MarkH265(s, r).n_frames = s.n_frames + 1
         /\ OneMore(s.block_kvh, MarkH265(s, r).block_kvh, r.block, s.fec_k)
<1> DEFINE i == KvAt(s.kvh, r.seq)
           j == KvAt(s.block_kvh, r.block)
           fec == s.kvh[i].n_ethernet_frame = 0
           a == MarkFrame(s.kvh[i], fec)
           c == MarkFrame(s.block_kvh[j], fec)
           b == [c EXCEPT !.has_lost_frame = IsLost(c.n_h265_frame, s.fec_k)]
<1>1. s \in Store /\ s.n_pkts \in Nat /\ s.n_frames \in Nat /\ s.n_frames + 1 \in Nat
  BY StoreTypes DEF Indexed
<1>2. i \in DOMAIN s.kvh /\ s.kvh[i] \in Kv /\ j \in DOMAIN s.block_kvh /\ s.block_kvh[j] \in Kv
  BY ListsOf
<1>3. MarkH265(s, r) = [s EXCEPT !.kvh[i] = a, !.block_kvh[j] = b, !.n_frames = s.n_frames + 1]
  BY DEF MarkH265
<1>4. fec \in BOOLEAN
  OBVIOUS
<1> HIDE DEF fec
<1>5. a \in Kv /\ a.key = s.kvh[i].key /\ a.vh = s.kvh[i].vh
  BY <1>2, <1>4, FrameMarked
<1>6. c \in Kv /\ c.key = s.block_kvh[j].key /\ c.vh = s.block_kvh[j].vh
  BY <1>2, <1>4, FrameMarked
<1> HIDE DEF i, j, a, c
<1>7. b \in Kv /\ b.key = s.block_kvh[j].key /\ b.vh = s.block_kvh[j].vh
  <2> DEFINE lost == IsLost(c.n_h265_frame, s.fec_k)
  <2>1. lost \in BOOLEAN
    BY DEF IsLost
  <2> HIDE DEF lost
  <2>2. b = [c EXCEPT !.has_lost_frame = lost]
    BY DEF lost
  <2> QED
    BY <1>6, <2>1, <2>2 DEF Kv
<1>9. c.n_h265_frame = s.block_kvh[j].n_h265_frame + 1
  BY <1>2, <1>4, FrameMarked DEF c
<1>10. /\ b.n_h265_frame = c.n_h265_frame
       /\ b.has_lost_frame <=> c.n_h265_frame < s.fec_k
  BY <1>6 DEF Kv, IsLost
<1>11. s.block_kvh[j].key = r.block
  BY ListsOf DEF j
<1> HIDE DEF b
<1>8. MarkH265(s, r) = Recount(s, i, a, j, b, s.n_pkts, s.n_frames + 1)
  BY <1>1, <1>2, <1>3 DEF Recount, Store
<1> DEFINE u == Recount(s, i, a, j, b, s.n_pkts, s.n_frames + 1)
<1>12. /\ Indexed(u) /\ u.v = s.v /\ u.ended = s.ended /\ u.n_pkts = s.n_pkts
       /\ u.n_frames = s.n_frames + 1 /\ u.block_kvh = [s.block_kvh EXCEPT ![j] = b]
       /\ u.fec_k = s.fec_k
  BY <1>1, <1>2, <1>5, <1>7, Recounted
<1> HIDE DEF u
<1>13. OneMore(s.block_kvh, u.block_kvh, r.block, s.fec_k)
  <2> DEFINE kvh == s.block_kvh
             new == u.block_kvh
  <2>1. /\ DOMAIN new = DOMAIN kvh /\ new[j] = b /\ j \in DOMAIN kvh
        /\ \A m \in DOMAIN kvh : m # j => new[m] = kvh[m]
    BY <1>2, <1>12
  <2>2. \A m \in DOMAIN kvh : kvh[m].key = r.block => m = j
    <3>1. kvh \in Seq(Kv) /\ Ascending(kvh)
      BY StoreTypes DEF Indexed, Indexes
    <3>2. /\ DOMAIN kvh = 1 .. Len(kvh) /\ Len(kvh) \in Nat
          /\ \A m \in 1 .. Len(kvh) : kvh[m].key \in Int
      BY <3>1, KvTypes
    <3> HIDE DEF kvh
    <3>3. ASSUME NEW m \in 1 .. Len(kvh), kvh[m].key = kvh[j].key PROVE m = j
      <4>1. m < j => kvh[m].key < kvh[j].key
        BY <2>1, <3>1, <3>2 DEF Ascending
      <4>2. m > j => kvh[j].key < kvh[m].key
        BY <2>1, <3>1, <3>2 DEF Ascending
      <4> QED
        BY <2>1, <3>2, <3>3, <4>1, <4>2
    <3> QED
      BY <1>11, <3>2, <3>3 DEF kvh
  <2> HIDE DEF kvh, new
  <2> QED
    BY <1>7, <1>9, <1>10, <1>11, <2>1, <2>2 DEF OneMore, kvh, new
<1> QED
  BY <1>8, <1>12, <1>13 DEF u

(* What process_payload does to the record just added, x the new record.   *)
LEMMA LastChanged ==
  ASSUME NEW v \in Seq(VRec), Len(v) > 0, NEW x \in VRec,
         x.type = v[Len(v)].type, x.key = v[Len(v)].key, x.block = v[Len(v)].block
  PROVE  /\ [v EXCEPT ![Len(v)] = x] \in Seq(VRec)
         /\ SameKeys(v, [v EXCEPT ![Len(v)] = x])
         /\ \A n \in DOMAIN v : [v EXCEPT ![Len(v)] = x][n] = IF n = Len(v) THEN x ELSE v[n]
<1> DEFINE w == [v EXCEPT ![Len(v)] = x]
<1>1. Len(v) \in Nat /\ DOMAIN v = 1 .. Len(v) /\ \A n \in 1 .. Len(v) : v[n] \in VRec
  BY VTypes
<1>2. w \in [1 .. Len(v) -> VRec] /\ \A n \in DOMAIN v : w[n] = IF n = Len(v) THEN x ELSE v[n]
  BY <1>1
<1>3. w \in Seq(VRec)
  BY <1>1, <1>2, SeqDef
<1> QED
  BY <1>1, <1>2, <1>3 DEF SameKeys

(* A record with the contents of header r; whole if its data are there.    *)
Copies(x, r, whole) ==
  /\ x.type = r.type /\ x.key = r.seq /\ x.block = r.block
  /\ x.frag = r.frag /\ x.dbm = r.dbm
  /\ x.buf <=> HasData(r) /\ whole
  /\ ~x.filtered

(* A new record says what its header says.                                 *)
LEMMA FreshCopies ==
  ASSUME NEW r \in Chunk
  PROVE  /\ Fresh(r).frag = r.frag /\ Fresh(r).dbm = r.dbm /\ Fresh(r).filtered = FALSE
         /\ ~HasData(r) => \A whole : Copies(Fresh(r), r, whole)
BY DEF Fresh, Copies

(* process_payload after log_v_alloc, when the record has data.            *)
LEMMA PayloadRead ==
  ASSUME NEW s, Indexed(s), Backed(s.v), NEW r \in Chunk, HasData(r), NEW whole
  PROVE  /\ Indexed(ProcessPayload(VAlloc(s, r), whole))
         /\ Backed(ProcessPayload(VAlloc(s, r), whole).v)
         /\ ProcessPayload(VAlloc(s, r), whole).v # <<>>
         /\ LET v == ProcessPayload(VAlloc(s, r), whole).v IN
              /\ Len(v) \in DOMAIN v
              /\ v[Len(v)].type = r.type /\ v[Len(v)].key = r.seq /\ v[Len(v)].block = r.block
              /\ Len(v) = Len(s.v) + 1 /\ \A n \in 1 .. Len(s.v) : v[n] = s.v[n]
              /\ Copies(v[Len(v)], r, whole)
         /\ LET u == ProcessPayload(VAlloc(s, r), whole)
                t == VAlloc(s, r)
            IN  /\ u.n_pkts = t.n_pkts /\ u.n_frames = t.n_frames
                /\ u.block_kvh = t.block_kvh /\ u.fec_k = t.fec_k
                /\ u.ended <=> t.ended \/ ~whole
<1> DEFINE t == VAlloc(s, r)
           z == Len(t.v)
           u == ProcessPayload(t, whole)
<1>1. Indexed(t) /\ t.v = Append(s.v, Fresh(r))
  BY VAlloced
<1>2. /\ Fresh(r) \in VRec /\ Fresh(r).type = r.type /\ Fresh(r).key = r.seq
      /\ Fresh(r).block = r.block /\ Fresh(r).buf = FALSE /\ Fresh(r).size = 1
  BY FreshTypes
<1>3. /\ s.v \in Seq(VRec) /\ t.v \in Seq(VRec) /\ t \in Store
      /\ t.kvh \in Seq(Kv) /\ t.block_kvh \in Seq(Kv) /\ t.msg_kvh \in Seq(Kv)
  BY <1>1, StoreTypes DEF Indexed
<1> HIDE DEF t
<1>4. /\ z = Len(s.v) + 1 /\ z \in Nat /\ z > 0 /\ t.v[z] = Fresh(r)
      /\ DOMAIN t.v = 1 .. z /\ DOMAIN s.v = 1 .. z - 1
      /\ \A n \in 1 .. z - 1 : t.v[n] = s.v[n]
  BY <1>1, <1>2, <1>3
<1> DEFINE x == IF whole THEN [Fresh(r) EXCEPT !.buf = TRUE] ELSE [Fresh(r) EXCEPT !.size = 0]
           w == [t.v EXCEPT ![z] = x]
<1>5. /\ x \in VRec /\ x.type = r.type /\ x.key = r.seq /\ x.block = r.block
      /\ (x.size > 0 <=> x.buf) /\ (x.buf <=> whole)
      /\ x.frag = r.frag /\ x.dbm = r.dbm /\ x.filtered = FALSE
  <2> DEFINE y == Fresh(r)
  <2>1. y \in VRec /\ y.buf = FALSE /\ y.size = 1
    BY <1>2
  <2>0. y.frag = r.frag /\ y.dbm = r.dbm /\ y.filtered = FALSE
    BY FreshCopies
  <2> HIDE DEF y
  <2>2. CASE whole
    <3>1. x = [y EXCEPT !.buf = TRUE]
      BY <2>2 DEF y
    <3>2. /\ x \in VRec /\ x.type = y.type /\ x.key = y.key /\ x.block = y.block
          /\ x.frag = y.frag /\ x.dbm = y.dbm /\ x.filtered = y.filtered
      BY <2>1, <3>1 DEF VRec
    <3>3. x.size = 1 /\ x.buf = TRUE
      BY <2>1, <3>1 DEF VRec
    <3> QED
      BY <1>2, <2>0, <2>2, <3>2, <3>3 DEF y
  <2>3. CASE ~whole
    <3>1. x = [y EXCEPT !.size = 0]
      BY <2>3 DEF y
    <3>2. /\ x \in VRec /\ x.type = y.type /\ x.key = y.key /\ x.block = y.block
          /\ x.frag = y.frag /\ x.dbm = y.dbm /\ x.filtered = y.filtered
      BY <2>1, <3>1 DEF VRec
    <3>3. x.size = 0 /\ x.buf = FALSE
      BY <2>1, <3>1 DEF VRec
    <3> QED
      BY <1>2, <2>0, <2>3, <3>2, <3>3 DEF y
  <2> QED
    BY <2>2, <2>3
<1>6. u = [t EXCEPT !.v = w, !.ended = IF whole THEN t.ended ELSE TRUE]
  <2>1. CASE whole
    <3>1. u = [t EXCEPT !.v[z].buf = TRUE]
      BY <2>1 DEF ProcessPayload
    <3>2. x = [t.v[z] EXCEPT !.buf = TRUE]
      BY <1>4, <2>1
    <3> HIDE DEF x, z, u
    <3> QED
      BY <1>3, <2>1, <3>1, <3>2 DEF Store
  <2>2. CASE ~whole
    <3>1. u = [t EXCEPT !.v[z].size = 0, !.ended = TRUE]
      BY <2>2 DEF ProcessPayload, EndOfFile
    <3>2. x = [t.v[z] EXCEPT !.size = 0]
      BY <1>4, <2>2
    <3> HIDE DEF x, z, u
    <3> QED
      BY <1>3, <2>2, <3>1, <3>2 DEF Store
  <2> QED
    BY <2>1, <2>2
<1> HIDE DEF x
<1>7. /\ w \in Seq(VRec) /\ SameKeys(t.v, w) /\ \A n \in DOMAIN t.v : w[n] = IF n = z THEN x ELSE t.v[n]
  BY <1>2, <1>3, <1>4, <1>5, LastChanged
<1>8. Len(w) = z /\ DOMAIN w = 1 .. z /\ w[z] = x
  BY <1>4, <1>7 DEF SameKeys
<1> HIDE DEF w, z, u
<1>9. /\ u \in Store /\ u.v = w /\ u.kvh = t.kvh /\ u.block_kvh = t.block_kvh
      /\ u.msg_kvh = t.msg_kvh /\ u.n_pkts = t.n_pkts /\ u.n_frames = t.n_frames
      /\ u.ended = (IF whole THEN t.ended ELSE TRUE) /\ u.fec_k = t.fec_k
  <2>1. (IF whole THEN t.ended ELSE TRUE) \in BOOLEAN
    BY <1>3 DEF Store
  <2> DEFINE e == IF whole THEN t.ended ELSE TRUE
  <2> HIDE DEF e
  <2>2. u = [t EXCEPT !.v = w, !.ended = e] /\ e \in BOOLEAN
    BY <1>6, <2>1 DEF e
  <2>3. /\ u \in Store /\ u.v = w /\ u.kvh = t.kvh /\ u.block_kvh = t.block_kvh
        /\ u.msg_kvh = t.msg_kvh /\ u.n_pkts = t.n_pkts /\ u.n_frames = t.n_frames
        /\ u.ended = e /\ u.fec_k = t.fec_k
    BY <1>3, <1>7, <2>2 DEF Store
  <2> QED
    BY <2>3 DEF e
<1>10. Indexed(u)
  BY <1>1, <1>3, <1>7, <1>9, SameListRefl, SameIndexed
<1>11. Backed(w)
  <2> SUFFICES ASSUME NEW n \in 1 .. z, w[n].type = "decode" \/ IsMessage(w[n].type)
               PROVE  w[n].size > 0 <=> w[n].buf
    BY <1>8 DEF Backed
  <2>1. CASE n = z
    BY <1>5, <1>8, <2>1
  <2>2. CASE n # z
    <3>1. n \in DOMAIN s.v /\ w[n] = s.v[n]
      BY <1>4, <1>7, <2>2
    <3> QED
      BY <3>1 DEF Backed
  <2> QED
    BY <2>1, <2>2
<1>12. Copies(x, r, whole)
  BY <1>5 DEF Copies
<1>13. \A n \in 1 .. Len(s.v) : w[n] = s.v[n]
  BY <1>3, <1>4, <1>7
<1>14. u.ended <=> t.ended \/ ~whole
  BY <1>3, <1>9 DEF Store
<1> QED
  BY <1>4, <1>5, <1>8, <1>9, <1>10, <1>11, <1>12, <1>13, <1>14 DEF u, t

(* A record without data.                                                  *)
LEMMA HeaderAdded ==
  ASSUME NEW s, Indexed(s), Backed(s.v), NEW r \in Chunk,
         r.type # "decode", ~IsMessage(r.type)
  PROVE  /\ Indexed(VAlloc(s, r)) /\ Backed(VAlloc(s, r).v)
         /\ LET v == VAlloc(s, r).v IN
              /\ Len(v) \in DOMAIN v
              /\ v[Len(v)].type = r.type /\ v[Len(v)].key = r.seq /\ v[Len(v)].block = r.block
<1> DEFINE v == VAlloc(s, r).v
           z == Len(s.v) + 1
<1>1. Indexed(VAlloc(s, r)) /\ v = Append(s.v, Fresh(r)) /\ s.v \in Seq(VRec)
  BY VAlloced, StoreTypes DEF Indexed
<1>2. /\ Fresh(r) \in VRec /\ Fresh(r).type = r.type /\ Fresh(r).key = r.seq
      /\ Fresh(r).block = r.block
  BY FreshTypes
<1> HIDE DEF v
<1>3. /\ Len(v) = z /\ z \in Nat /\ z > 0 /\ v[z] = Fresh(r)
      /\ DOMAIN v = 1 .. z /\ DOMAIN s.v = 1 .. z - 1
      /\ \A n \in 1 .. z - 1 : v[n] = s.v[n]
  BY <1>1, <1>2
<1>4. Backed(v)
  <2> SUFFICES ASSUME NEW n \in 1 .. z, v[n].type = "decode" \/ IsMessage(v[n].type)
               PROVE  v[n].size > 0 <=> v[n].buf
    BY <1>3 DEF Backed
  <2>1. n # z
    BY <1>2, <1>3
  <2>2. n \in DOMAIN s.v /\ v[n] = s.v[n]
    BY <1>3, <2>1
  <2> QED
    BY <2>2 DEF Backed
<1> QED
  BY <1>1, <1>2, <1>3, <1>4 DEF v

(* What every turn of load_log's loop keeps.                               *)
Sound(s) == Indexed(s) /\ Backed(s.v)

(* The end of the file.                                                    *)
LEMMA EndedKeeps ==
  ASSUME NEW s, Sound(s), NEW e \in BOOLEAN
  PROVE  Sound([s EXCEPT !.ended = e])
<1> DEFINE t == [s EXCEPT !.ended = e]
<1>1. /\ s \in Store /\ s.v \in Seq(VRec) /\ s.kvh \in Seq(Kv)
      /\ s.block_kvh \in Seq(Kv) /\ s.msg_kvh \in Seq(Kv)
  BY StoreTypes DEF Indexed, Sound
<1>2. /\ t \in Store /\ t.v = s.v /\ t.kvh = s.kvh /\ t.block_kvh = s.block_kvh
      /\ t.msg_kvh = s.msg_kvh
  BY <1>1 DEF Store
<1> HIDE DEF t
<1>3. SameKeys(s.v, t.v)
  BY <1>2 DEF SameKeys
<1>4. Indexed(t)
  BY <1>1, <1>2, <1>3, SameListRefl, SameIndexed DEF Sound
<1> QED
  BY <1>2, <1>4 DEF Sound, t

(* process_frame_header                                                    *)
LEMMA HeaderRead ==
  ASSUME NEW s, Sound(s), NEW r \in Chunk, r.kind = "head", NEW whole
  PROVE  Sound(ProcessFrameHeader(s, r, whole))
<1> DEFINE t == ProcessPayload(VAlloc(s, r), whole)
           a == VAlloc(s, r)
           u == ProcessFrameHeader(s, r, whole)
<1>1. CASE s.ended
  <2>1. u = s
    BY <1>1 DEF ProcessFrameHeader
  <2> QED
    BY <2>1
<1>2. CASE ~s.ended /\ Unknown(r.type)
  <2>1. u = [s EXCEPT !.ended = TRUE]
    BY <1>2 DEF ProcessFrameHeader, Unknown, IsMessage
  <2> QED
    BY <2>1, EndedKeeps
<1>3. CASE ~s.ended /\ r.type = "inet6"
  <2>1. u = MarkInet6(a, r)
    BY <1>3 DEF ProcessFrameHeader, Unknown, IsMessage
  <2>2. /\ Indexed(a) /\ Backed(a.v) /\ Len(a.v) \in DOMAIN a.v
        /\ a.v[Len(a.v)].type = r.type /\ a.v[Len(a.v)].key = r.seq
        /\ a.v[Len(a.v)].block = r.block
    BY <1>3, HeaderAdded DEF Sound, IsMessage
  <2>3. Len(a.v) \in Sequenced(a.v)
    BY <1>3, <2>2 DEF Sequenced, IsMessage
  <2> HIDE DEF a
  <2>4. Indexed(MarkInet6(a, r)) /\ MarkInet6(a, r).v = a.v
    BY <2>2, <2>3, MarkedInet6
  <2> QED
    BY <2>1, <2>2, <2>4 DEF Sound
<1>4. CASE ~s.ended /\ r.type = "decode"
  <2>1. u = IF t.ended THEN t ELSE MarkH265(t, r)
    BY <1>4 DEF ProcessFrameHeader, Unknown, IsMessage
  <2>2. /\ Indexed(t) /\ Backed(t.v) /\ Len(t.v) \in DOMAIN t.v
        /\ t.v[Len(t.v)].type = r.type /\ t.v[Len(t.v)].key = r.seq
        /\ t.v[Len(t.v)].block = r.block
    BY <1>4, PayloadRead DEF Sound, HasData
  <2>3. Len(t.v) \in Sequenced(t.v)
    BY <1>4, <2>2 DEF Sequenced, IsMessage
  <2> HIDE DEF t
  <2>4. Indexed(MarkH265(t, r)) /\ MarkH265(t, r).v = t.v
    BY <2>2, <2>3, MarkedH265
  <2> QED
    BY <2>1, <2>2, <2>4 DEF Sound
<1>5. CASE ~s.ended /\ IsMessage(r.type)
  <2>1. u = t
    BY <1>5 DEF ProcessFrameHeader, Unknown, IsMessage
  <2>2. Indexed(t) /\ Backed(t.v)
    BY <1>5, PayloadRead DEF Sound, HasData, IsMessage
  <2> QED
    BY <2>1, <2>2 DEF Sound
<1>6. CASE ~s.ended /\ ~Unknown(r.type) /\ r.type \notin {"inet6", "decode"} /\ ~IsMessage(r.type)
  <2>1. u = a
    BY <1>6 DEF ProcessFrameHeader
  <2>2. Indexed(a) /\ Backed(a.v)
    BY <1>6, HeaderAdded DEF Sound
  <2> QED
    BY <2>1, <2>2 DEF Sound
<1> QED
  BY <1>1, <1>2, <1>3, <1>4, <1>5, <1>6

(* log_store_alloc and process_file_header                                 *)
LEMMA NewFields ==
  ASSUME NEW k \in Nat
  PROVE  LET s == [NewStore EXCEPT !.fec_k = k]
         IN  /\ s \in Store /\ s.v = <<>> /\ s.kvh = <<>> /\ s.block_kvh = <<>>
             /\ s.msg_kvh = <<>> /\ s.fec_k = k /\ s.n_pkts = 0 /\ s.n_frames = 0
             /\ s.ended = FALSE
<1>1. /\ NewStore \in Store /\ NewStore.v = <<>> /\ NewStore.kvh = <<>>
      /\ NewStore.block_kvh = <<>> /\ NewStore.msg_kvh = <<>>
      /\ NewStore.n_pkts = 0 /\ NewStore.n_frames = 0 /\ NewStore.ended = FALSE
  BY DEF NewStore, Store
<1> QED
  BY <1>1 DEF Store

LEMMA NewSound ==
  /\ Sound(NewStore)
  /\ \A k \in Nat : Sound([NewStore EXCEPT !.fec_k = k])
<1> SUFFICES ASSUME NEW k \in Nat PROVE Sound([NewStore EXCEPT !.fec_k = k])
  <2>1. NewStore = [NewStore EXCEPT !.fec_k = 0] /\ 0 \in Nat
    BY DEF NewStore
  <2> QED
    BY <2>1
<1> DEFINE s == [NewStore EXCEPT !.fec_k = k]
<1>1. /\ s \in Store /\ s.v = <<>> /\ s.kvh = <<>> /\ s.block_kvh = <<>> /\ s.msg_kvh = <<>>
  BY NewFields
<1> HIDE DEF s
<1>2. /\ DOMAIN KeyOfSeq(s.v) = {} /\ DOMAIN KeyOfBlock(s.v) = {} /\ DOMAIN KeyOfMsg(s.v) = {}
  BY <1>1 DEF KeyOfSeq, KeyOfBlock, KeyOfMsg, Sequenced
<1>3. \A keyOf : DOMAIN keyOf = {} => Indexes(<<>>, keyOf)
  BY DEF Indexes, Ascending
<1> QED
  BY <1>1, <1>2, <1>3 DEF Sound, Indexed, Backed, s

(* load_log                                                                *)
LEMMA LogLoaded ==
  ASSUME NEW log \in Seq(Chunk)
  PROVE  Sound(LoadLog(log)) /\ LoadLog(log) \in Store
<1>0. Sound(NoStore)
  BY NewSound, EndedKeeps DEF NoStore
<1> SUFFICES ASSUME ValidSignature(log) PROVE Sound(LoadLog(log))
  BY <1>0 DEF LoadLog, Sound, Indexed
<1> DEFINE L == Loaded(log)
           Bad == {i \in 0 .. Len(log) : ~ Sound(L[i])}
<1>1. Len(log) \in Nat /\ \A i \in 1 .. Len(log) : log[i] \in Chunk
  OBVIOUS
<1>2. \A i \in 0 .. Len(log) :
        L[i] = IF i = 0 THEN ProcessFileHeader(log) ELSE LoadRecord(L[i - 1], log, i)
  BY <1>1, LoadedBy
<1>2a. Sound(ProcessFileHeader(log))
  <2>1. log[1] \in Chunk
    BY <1>1 DEF ValidSignature
  <2>2. log[1].fec_k \in Nat
    BY <2>1 DEF Chunk
  <2> QED
    BY <2>2, NewSound DEF ProcessFileHeader
<1> HIDE DEF L
<1>3. Bad = {}
  <2> SUFFICES ASSUME Bad # {} PROVE FALSE
    OBVIOUS
  <2>1. Bad \subseteq Nat
    BY <1>1
  <2>2. PICK n \in Bad : \A m \in Bad : n <= m
    BY <2>1, LeastNat
  <2>3. n # 0
    BY <1>1, <1>2, <1>2a, <2>2
  <2>4. n \in 1 .. Len(log) /\ n - 1 \in 0 .. Len(log) /\ n - 1 \notin Bad
    BY <1>1, <2>2, <2>3
  <2>5. Sound(L[n - 1]) /\ L[n] = LoadRecord(L[n - 1], log, n) /\ ~Sound(L[n])
    BY <1>2, <2>2, <2>3, <2>4
  <2>6. CASE log[n].kind = "head"
    <3>1. L[n] = ProcessFrameHeader(L[n - 1], log[n], HasData(log[n]) => n < Len(log))
      BY <2>5, <2>6 DEF LoadRecord
    <3> DEFINE whole == HasData(log[n]) => n < Len(log)
               p == L[n - 1]
               r == log[n]
    <3>2. r \in Chunk /\ r.kind = "head" /\ Sound(p)
      BY <1>1, <2>4, <2>5, <2>6
    <3>3. L[n] = ProcessFrameHeader(p, r, whole)
      BY <3>1
    <3> HIDE DEF p, r, whole
    <3> QED
      BY <2>5, <3>2, <3>3, HeaderRead
  <2>7. CASE log[n].kind # "head"
    BY <2>5, <2>7 DEF LoadRecord
  <2> QED
    BY <2>6, <2>7
<1>4. Sound(L[Len(log)])
  BY <1>1, <1>3
<1>5. Sound([L[Len(log)] EXCEPT !.ended = FALSE])
  BY <1>4, EndedKeeps
<1> QED
  BY <1>5 DEF LoadLog, L

-----------------------------------------------------------------------------
(* Filtering                                                               *)

(* Stores that differ in their counters and marks alone.                   *)
Alike(s, t) ==
  /\ s.v = t.v /\ SameList(s.kvh, t.kvh) /\ SameList(s.block_kvh, t.block_kvh)
  /\ s.msg_kvh = t.msg_kvh /\ s.n_pkts = t.n_pkts /\ s.n_frames = t.n_frames
  /\ s.fec_k = t.fec_k /\ s.ended = t.ended

(* The frames left of an entry are told by its list and the records.       *)
LEMMA LeftAlike ==
  ASSUME NEW s, NEW t, s.v = t.v, NEW kv, NEW kw, kv.vh = kw.vh, NEW type
  PROVE  /\ Left(s, kv, type) = Left(t, kw, type)
         /\ Ethernet(s, kv) = Ethernet(t, kw)
<1>1. \A x : Left(s, kv, x) = Left(t, kw, x)
  BY DEF Left
<1> QED
  BY <1>1 DEF Ethernet

(* A count of frames is a number.                                          *)
LEMMA EthernetType ==
  ASSUME NEW s, NEW kv \in Kv
  PROVE  Ethernet(s, kv) \in Nat
<1>1. kv.vh \in Seq(Nat)
  BY DEF Kv
<1>2. DOMAIN kv.vh = 1 .. Len(kv.vh) /\ Len(kv.vh) \in Nat
  BY <1>1
<1>3. IsFiniteSet(DOMAIN kv.vh)
  BY <1>2, FS_Interval
<1>4. Left(s, kv, "inet6") \subseteq DOMAIN kv.vh
  BY DEF Left
<1> QED
  BY <1>3, <1>4, FS_Subset, FS_CardinalityType DEF Ethernet

(* The block of a sequence number.                                         *)
LEMMA BlockFound ==
  ASSUME NEW s, Indexed(s), NEW i \in DOMAIN s.kvh
  PROVE  LET b == s.v[s.kvh[i].vh[1]].block IN
         /\ KvAt(s.block_kvh, b) \in DOMAIN s.block_kvh
         /\ s.block_kvh[KvAt(s.block_kvh, b)] \in Kv
         /\ s.block_kvh[KvAt(s.block_kvh, b)].key = b
         /\ BlockOf(s, s.kvh[i]) = s.block_kvh[KvAt(s.block_kvh, b)]
<1> DEFINE n == s.kvh[i].vh[1]
<1>1. s.kvh \in Seq(Kv) /\ Indexes(s.kvh, KeyOfSeq(s.v))
  BY StoreTypes DEF Indexed
<1>2. s.kvh[i].vh \in Seq(Nat)
  BY <1>1, KvTypes
<1>3. n \in DOMAIN KeyOfSeq(s.v)
  <2>1. Len(s.kvh[i].vh) > 0 /\ Len(s.kvh[i].vh) \in Nat
    BY <1>1, <1>2 DEF Indexes
  <2>2. 1 \in 1 .. Len(s.kvh[i].vh)
    BY <2>1
  <2> QED
    BY <1>1, <2>2 DEF Indexes
<1>4. n \in Sequenced(s.v)
  BY <1>3 DEF KeyOfSeq
<1> QED
  BY <1>4, ListsOf DEF BlockOf, BlockKv

(* Positions in a list have a last one.                                    *)
LEMMA Greatest ==
  ASSUME NEW N \in Nat, NEW S, S \subseteq 1 .. N, S # {}
  PROVE  Max(S) \in S /\ \A y \in S : Max(S) >= y
<1> DEFINE T == {N - k : k \in S}
<1>1. T \subseteq Nat /\ T # {}
  <2>1. \A k \in 1 .. N : N - k \in Nat
    OBVIOUS
  <2>2. T \subseteq Nat
    BY <2>1
  <2>3. PICK k \in S : TRUE
    OBVIOUS
  <2>4. N - k \in T
    OBVIOUS
  <2> QED
    BY <2>2, <2>4
<1>2. PICK n \in T : \A m \in T : n <= m
  BY <1>1, LeastNat
<1>3. PICK x \in S : n = N - x
  BY <1>2
<1>4. \A y \in S : N - y \in T /\ y \in 1 .. N
  OBVIOUS
<1> HIDE DEF T
<1>5. ASSUME NEW y \in S PROVE x >= y
  <2>1. n <= N - y /\ y \in 1 .. N /\ x \in 1 .. N
    BY <1>2, <1>3, <1>4
  <2> QED
    BY <1>3, <2>1
<1> QED
  BY <1>5 DEF Max

(* The frame log_update_kv judges is one decoded and left, and the last.   *)
LEMMA JudgedLeft ==
  ASSUME NEW s, Indexed(s), NEW i \in DOMAIN s.kvh, Left(s, s.kvh[i], "decode") # {}
  PROVE  LET l == Left(s, s.kvh[i], "decode")
             n == Judged(s, s.kvh[i])
         IN  /\ Max(l) \in l /\ n = s.kvh[i].vh[Max(l)] /\ \A k \in l : k <= Max(l)
             /\ n \in Sequenced(s.v) /\ s.v[n].type = "decode" /\ ~s.v[n].filtered
             /\ s.v[n].key = s.kvh[i].key
<1> DEFINE l == Left(s, s.kvh[i], "decode")
           n == Judged(s, s.kvh[i])
           m == Max(l)
<1>1. s.kvh \in Seq(Kv) /\ Indexes(s.kvh, KeyOfSeq(s.v))
  BY StoreTypes DEF Indexed
<1>2. s.kvh[i].vh \in Seq(Nat)
  BY <1>1, KvTypes
<1>3. Len(s.kvh[i].vh) \in Nat /\ DOMAIN s.kvh[i].vh = 1 .. Len(s.kvh[i].vh)
  BY <1>2
<1>4. l \subseteq 1 .. Len(s.kvh[i].vh)
  BY <1>3 DEF Left
<1>5. n = s.kvh[i].vh[m]
  BY DEF Judged
<1>6. \A k \in l : k \in Nat
  BY <1>3, <1>4
<1>7. \A k \in l : ~s.v[s.kvh[i].vh[k]].filtered /\ s.v[s.kvh[i].vh[k]].type = "decode"
  BY DEF Left
<1> HIDE DEF l, n, m
<1>8. m \in l /\ \A k \in l : m >= k
  BY <1>3, <1>4, Greatest DEF l, m
<1>9. n \in DOMAIN KeyOfSeq(s.v) /\ KeyOfSeq(s.v)[n] = s.kvh[i].key
  BY <1>1, <1>4, <1>5, <1>8 DEF Indexes
<1>10. n \in Sequenced(s.v) /\ s.v[n].key = s.kvh[i].key
  BY <1>9 DEF KeyOfSeq
<1>11. m \in Nat /\ \A k \in l : k <= m
  BY <1>6, <1>8
<1> QED
  BY <1>5, <1>7, <1>8, <1>10, <1>11 DEF l, m, n

(* Alike stores have the same list of a block ...                          *)
LEMMA BlockKvAlike ==
  ASSUME NEW s, NEW t, Indexed(s), Indexed(t), Alike(s, t), NEW n \in Sequenced(s.v)
  PROVE  BlockKv(s, s.v[n].block).vh = BlockKv(t, t.v[n].block).vh
<1> DEFINE b == s.v[n].block
           p == KvAt(s.block_kvh, b)
<1>1. p \in DOMAIN s.block_kvh /\ s.block_kvh[p].key = b
  BY ListsOf
<1>2. t.v[n].block = b
  BY DEF Alike
<1> HIDE DEF b, p
<1>3. p \in DOMAIN t.block_kvh /\ t.block_kvh[p].key = b /\ t.block_kvh[p].vh = s.block_kvh[p].vh
  BY <1>1 DEF Alike, SameList
<1>4. KvAt(t.block_kvh, b) = p
  <2>1. t.block_kvh \in Seq(Kv) /\ Ascending(t.block_kvh)
    BY StoreTypes DEF Indexed, Indexes
  <2> QED
    BY <1>3, <2>1, KvAtKey
<1>5. BlockKv(s, b) = s.block_kvh[p] /\ BlockKv(t, b) = t.block_kvh[p]
  BY <1>4 DEF BlockKv, b, p
<1> QED
  BY <1>2, <1>3, <1>5 DEF b

(* ... of the first with a sequence number, that is ...                    *)
LEMMA BlockAlike ==
  ASSUME NEW s, NEW t, Indexed(s), Indexed(t), Alike(s, t), NEW i \in DOMAIN s.kvh
  PROVE  /\ BlockOf(s, s.kvh[i]).key = BlockOf(t, t.kvh[i]).key
         /\ BlockOf(s, s.kvh[i]).vh = BlockOf(t, t.kvh[i]).vh
         /\ BlockOf(s, s.kvh[i]) \in Kv /\ BlockOf(t, t.kvh[i]) \in Kv
<1> DEFINE b == s.v[s.kvh[i].vh[1]].block
           p == KvAt(s.block_kvh, b)
<1>1. /\ p \in DOMAIN s.block_kvh /\ s.block_kvh[p].key = b /\ s.block_kvh[p] \in Kv
      /\ BlockOf(s, s.kvh[i]) = s.block_kvh[p]
  BY BlockFound
<1>2. i \in DOMAIN t.kvh /\ t.v[t.kvh[i].vh[1]].block = b
  BY DEF Alike, SameList
<1> HIDE DEF b, p
<1>3. /\ BlockOf(t, t.kvh[i]) = t.block_kvh[KvAt(t.block_kvh, b)]
      /\ t.block_kvh[KvAt(t.block_kvh, b)] \in Kv
  BY <1>2, BlockFound
<1>4. p \in DOMAIN t.block_kvh /\ t.block_kvh[p].key = b /\ t.block_kvh[p].vh = s.block_kvh[p].vh
  BY <1>1 DEF Alike, SameList
<1>5. KvAt(t.block_kvh, b) = p
  <2>1. t.block_kvh \in Seq(Kv) /\ Ascending(t.block_kvh)
    BY StoreTypes DEF Indexed, Indexes
  <2> QED
    BY <1>4, <2>1, KvAtKey
<1> QED
  BY <1>1, <1>3, <1>4, <1>5

(* ... decide alike about it ...                                           *)
LEMMA VerdictAlike ==
  ASSUME NEW s, NEW t, Indexed(s), Indexed(t), Alike(s, t), NEW i \in DOMAIN s.kvh
  PROVE  Verdict(s, s.kvh[i]) = Verdict(t, t.kvh[i])
<1> DEFINE kv == s.kvh[i]
           kw == t.kvh[i]
<1>1. s.v = t.v /\ kv.key = kw.key /\ kv.vh = kw.vh
  BY DEF Alike, SameList
<1>2. kv \in Kv
  BY StoreTypes, KvTypes DEF Indexed
<1>3. Judged(s, kv) = Judged(t, kw) /\ s.fec_k = t.fec_k
  <2>1. Left(s, kv, "decode") = Left(t, kw, "decode")
    BY <1>1, LeftAlike
  <2> QED
    BY <1>1, <2>1 DEF Judged, Alike
<1>4. Left(s, kv, "decode") # {} => FecRecovers(s, kv) = FecRecovers(t, kw)
  <2> SUFFICES ASSUME Left(s, kv, "decode") # {}
               PROVE  FecRecovers(s, kv) = FecRecovers(t, kw)
    OBVIOUS
  <2> DEFINE n == Judged(s, kv)
  <2>1. n \in Sequenced(s.v)
    BY JudgedLeft
  <2>2. BlockKv(s, s.v[n].block).vh = BlockKv(t, t.v[n].block).vh
    BY <2>1, BlockKvAlike
  <2>3. Ethernet(s, BlockKv(s, s.v[n].block)) = Ethernet(t, BlockKv(t, t.v[n].block))
    BY <1>1, <2>2, LeftAlike
  <2> QED
    BY <1>3, <2>3 DEF FecRecovers
<1>5. Left(s, kv, "decode") = Left(t, kw, "decode") /\ Ethernet(s, kv) = Ethernet(t, kw)
  BY <1>1, LeftAlike
<1>6. Ethernet(s, kv) \in Nat
  BY <1>2, EthernetType
<1> HIDE DEF kv, kw
<1> DEFINE e == Ethernet(s, kv)
           l == Left(s, kv, "decode")
<1>7. Verdict(s, kv) =
        CASE l = {} -> IF kv.key < s.fec_k THEN "lost" ELSE "none"
          [] l # {} /\ e > 0 -> "kept"
          [] l # {} /\ e = 0 -> IF FecRecovers(s, kv) THEN "fec" ELSE "lost"
  BY DEF Verdict
<1>8. Verdict(t, kw) =
        CASE l = {} -> IF kv.key < s.fec_k THEN "lost" ELSE "none"
          [] l # {} /\ e > 0 -> "kept"
          [] l # {} /\ e = 0 -> IF FecRecovers(s, kv) THEN "fec" ELSE "lost"
  <2>1. CASE l = {}
    BY <1>1, <1>3, <1>5, <2>1 DEF Verdict
  <2>2. CASE l # {} /\ e > 0
    BY <1>5, <1>6, <2>2 DEF Verdict
  <2>3. CASE l # {} /\ e = 0
    BY <1>4, <1>5, <1>6, <2>3 DEF Verdict
  <2> QED
    BY <1>6, <2>1, <2>2, <2>3
<1> QED
  BY <1>7, <1>8 DEF kv, kw

(* ... and about all the sequence numbers of a block.                      *)
LEMMA VerdictsAlike ==
  ASSUME NEW s, NEW t, Indexed(s), Indexed(t), Alike(s, t), NEW a, NEW b, a.key = b.key
  PROVE  VerdictsOf(s, a) = VerdictsOf(t, b)
<1>1. DOMAIN s.kvh = DOMAIN t.kvh /\ \A i \in DOMAIN s.kvh : s.kvh[i].key = t.kvh[i].key
  BY DEF Alike, SameList
<1>2. \A i \in DOMAIN s.kvh : /\ Verdict(s, s.kvh[i]) = Verdict(t, t.kvh[i])
                              /\ BlockOf(s, s.kvh[i]).key = BlockOf(t, t.kvh[i]).key
  BY VerdictAlike, BlockAlike
<1>3. VerdictsOf(s, a) = {<<s.kvh[i].key, Verdict(s, s.kvh[i])>> :
                            i \in {i \in DOMAIN s.kvh : BlockOf(s, s.kvh[i]).key = a.key}}
  BY DEF VerdictsOf, ToSet
<1>4. VerdictsOf(t, b) = {<<t.kvh[i].key, Verdict(t, t.kvh[i])>> :
                            i \in {i \in DOMAIN t.kvh : BlockOf(t, t.kvh[i]).key = b.key}}
  BY DEF VerdictsOf, ToSet
<1> QED
  BY <1>1, <1>2, <1>3, <1>4

(* The counts of an entry, and which entry they make of it.                *)
LEMMA SeqUpdated ==
  ASSUME NEW s, NEW kv \in Kv
  PROVE  /\ UpdateSeq(s, kv) \in Kv /\ UpdateSeq(s, kv).key = kv.key
         /\ UpdateSeq(s, kv).vh = kv.vh
         /\ UpdateSeq(s, kv) =
              [key |-> kv.key, vh |-> kv.vh, n_ethernet_frame |-> Ethernet(s, kv),
               n_h265_frame |-> IF Verdict(s, kv) \in {"kept", "fec"} THEN 1 ELSE 0,
               has_lost_frame |-> Verdict(s, kv) = "lost",
               has_fec_frame |-> Verdict(s, kv) = "fec"]
<1> DEFINE e == Ethernet(s, kv)
           h == IF Verdict(s, kv) \in {"kept", "fec"} THEN 1 ELSE 0
           lost == Verdict(s, kv) = "lost"
           fec == Verdict(s, kv) = "fec"
           new == UpdateSeq(s, kv)
<1>1. e \in Nat /\ h \in Nat /\ lost \in BOOLEAN /\ fec \in BOOLEAN
  BY EthernetType
<1>2. new = [kv EXCEPT !.n_ethernet_frame = e, !.n_h265_frame = h,
                       !.has_lost_frame = lost, !.has_fec_frame = fec]
  BY DEF UpdateSeq
<1> HIDE DEF e, h, lost, fec, new
<1>3. /\ new \in Kv /\ new.key = kv.key /\ new.vh = kv.vh
      /\ new = [key |-> kv.key, vh |-> kv.vh, n_ethernet_frame |-> e, n_h265_frame |-> h,
                has_lost_frame |-> lost, has_fec_frame |-> fec]
  <2>1. new \in Kv /\ new.key = kv.key /\ new.vh = kv.vh
    BY <1>1, <1>2 DEF Kv
  <2>2. new = [key |-> kv.key, vh |-> kv.vh, n_ethernet_frame |-> e, n_h265_frame |-> h,
               has_lost_frame |-> lost, has_fec_frame |-> fec]
    BY <1>1, <1>2 DEF Kv
  <2> QED
    BY <2>1, <2>2
<1> QED
  BY <1>3 DEF e, h, lost, fec, new

(* A block has finitely many sequence numbers.                             *)
LEMMA VerdictsFinite ==
  ASSUME NEW s, Indexed(s), NEW kv
  PROVE  IsFiniteSet(VerdictsOf(s, kv))
<1> DEFINE J == {i \in DOMAIN s.kvh : BlockOf(s, s.kvh[i]).key = kv.key}
           g == [i \in J |-> <<s.kvh[i].key, Verdict(s, s.kvh[i])>>]
           T == VerdictsOf(s, kv)
<1>1. T = {g[i] : i \in J}
  BY DEF VerdictsOf, ToSet
<1>2. s.kvh \in Seq(Kv)
  BY StoreTypes DEF Indexed
<1>3. IsFiniteSet(DOMAIN s.kvh)
  BY <1>2, KvTypes, FS_Interval
<1>4. IsFiniteSet(J)
  BY <1>3, FS_Subset
<1>5. g \in [J -> T] /\ \A y \in T : \E i \in J : g[i] = y
  <2>1. DOMAIN g = J
    OBVIOUS
  <2>2. g = [i \in J |-> g[i]]
    OBVIOUS
  <2> HIDE DEF g, T, J
  <2> QED
    BY <1>1, <2>1, <2>2
<1>6. g \in Surjection(J, T)
  <2> HIDE DEF g, T, J
  <2> QED
    BY <1>5 DEF Surjection
<1> HIDE DEF g, J, T
<1>7. IsFiniteSet(T)
  BY <1>4, <1>6, FS_Surjection
<1> QED
  BY <1>7 DEF T

Regained(s, kv) == Cardinality({p \in VerdictsOf(s, kv) : p[2] \in {"kept", "fec"}})

(* The same of a block's entry.                                            *)
LEMMA BlockUpdated ==
  ASSUME NEW s, Indexed(s), NEW kv \in Kv
  PROVE  /\ UpdateBlock(s, kv) \in Kv /\ UpdateBlock(s, kv).key = kv.key
         /\ UpdateBlock(s, kv).vh = kv.vh
         /\ UpdateBlock(s, kv) =
              [key |-> kv.key, vh |-> kv.vh, n_ethernet_frame |-> Ethernet(s, kv),
               n_h265_frame |-> Regained(s, kv),
               has_lost_frame |-> \/ Ethernet(s, kv) < s.fec_k
                                  \/ \E p \in VerdictsOf(s, kv) : p[2] = "lost",
               has_fec_frame |-> \E p \in VerdictsOf(s, kv) : p[2] = "fec"]
<1> DEFINE e == Ethernet(s, kv)
           h == Regained(s, kv)
           lost == \/ Ethernet(s, kv) < s.fec_k
                   \/ \E p \in VerdictsOf(s, kv) : p[2] = "lost"
           fec == \E p \in VerdictsOf(s, kv) : p[2] = "fec"
           new == UpdateBlock(s, kv)
<1>1. e \in Nat /\ lost \in BOOLEAN /\ fec \in BOOLEAN
  BY EthernetType
<1>2. h \in Nat
  <2> DEFINE T == VerdictsOf(s, kv)
             U == {p \in T : p[2] \in {"kept", "fec"}}
  <2>1. IsFiniteSet(T)
    BY VerdictsFinite
  <2>2. U \in SUBSET T
    OBVIOUS
  <2>3. h = Cardinality(U)
    BY DEF Regained
  <2> HIDE DEF T, U, h
  <2>4. IsFiniteSet(U)
    BY <2>1, <2>2, FS_Subset
  <2> QED
    BY <2>3, <2>4, FS_CardinalityType
<1>3. new = [kv EXCEPT !.n_ethernet_frame = e, !.n_h265_frame = h,
                       !.has_lost_frame = lost, !.has_fec_frame = fec]
  BY DEF UpdateBlock, Regained
<1> HIDE DEF e, h, lost, fec, new
<1>4. /\ new \in Kv /\ new.key = kv.key /\ new.vh = kv.vh
      /\ new = [key |-> kv.key, vh |-> kv.vh, n_ethernet_frame |-> e, n_h265_frame |-> h,
                has_lost_frame |-> lost, has_fec_frame |-> fec]
  <2>1. new \in Kv /\ new.key = kv.key /\ new.vh = kv.vh
    BY <1>1, <1>2, <1>3 DEF Kv
  <2>2. new = [key |-> kv.key, vh |-> kv.vh, n_ethernet_frame |-> e, n_h265_frame |-> h,
               has_lost_frame |-> lost, has_fec_frame |-> fec]
    BY <1>1, <1>2, <1>3 DEF Kv
  <2> QED
    BY <2>1, <2>2
<1> QED
  BY <1>4 DEF e, h, lost, fec, new

(* The records after a filter: each keeps all but its mark.                *)
SameRecords(v, w) ==
  /\ w \in Seq(VRec) /\ DOMAIN w = DOMAIN v
  /\ \A n \in DOMAIN v : \E f \in BOOLEAN :
       /\ w[n] = [v[n] EXCEPT !.filtered = f]
       /\ IsMessage(v[n].type) => w[n] = v[n]

(* Records with other marks are records.                                   *)
LEMMA Remarked ==
  ASSUME NEW v \in Seq(VRec), NEW w, DOMAIN w = DOMAIN v,
         w = [n \in DOMAIN v |-> w[n]],
         \A n \in DOMAIN v : \E f \in BOOLEAN :
           /\ w[n] = [v[n] EXCEPT !.filtered = f]
           /\ IsMessage(v[n].type) => w[n] = v[n]
  PROVE  SameRecords(v, w)
<1>1. Len(v) \in Nat /\ DOMAIN v = 1 .. Len(v) /\ \A n \in DOMAIN v : v[n] \in VRec
  BY VTypes
<1>2. \A x \in VRec : \A f \in BOOLEAN : [x EXCEPT !.filtered = f] \in VRec
  BY DEF VRec
<1>3. \A n \in DOMAIN v : w[n] \in VRec
  BY <1>1, <1>2
<1>4. w \in [1 .. Len(v) -> VRec]
  BY <1>1, <1>3
<1>5. w \in Seq(VRec)
  BY <1>1, <1>4, SeqDef
<1> QED
  BY <1>5 DEF SameRecords

(* What no filter changes.                                                 *)
SameStore(s, t) ==
  /\ t \in Store /\ SameRecords(s.v, t.v) /\ SameList(s.kvh, t.kvh)
  /\ SameList(s.block_kvh, t.block_kvh)
  /\ t.msg_kvh = s.msg_kvh /\ t.n_pkts = s.n_pkts /\ t.n_frames = s.n_frames
  /\ t.fec_k = s.fec_k /\ t.ended = s.ended

(* The last mark counts.                                                   *)
LEMMA UnmarkTwice ==
  /\ \A x \in VRec : \A f \in BOOLEAN : \A g \in BOOLEAN :
       [[x EXCEPT !.filtered = f] EXCEPT !.filtered = g] = [x EXCEPT !.filtered = g]
  /\ \A x \in VRec : [x EXCEPT !.filtered = x.filtered] = x /\ x.filtered \in BOOLEAN
<1>1. \A x \in VRec : \A f \in BOOLEAN : \A g \in BOOLEAN :
        [[x EXCEPT !.filtered = f] EXCEPT !.filtered = g] = [x EXCEPT !.filtered = g]
  BY DEF VRec
<1>2. \A x \in VRec : [x EXCEPT !.filtered = x.filtered] = x /\ x.filtered \in BOOLEAN
  BY DEF VRec
<1> QED
  BY <1>1, <1>2

(* Records differ from themselves in no more than their marks ...          *)
LEMMA SameRecordsRefl ==
  ASSUME NEW v \in Seq(VRec)
  PROVE  SameRecords(v, v)
<1>1. \A n \in DOMAIN v : v[n] \in VRec
  BY VTypes
<1>2. ASSUME NEW n \in DOMAIN v
      PROVE  \E f \in BOOLEAN : v[n] = [v[n] EXCEPT !.filtered = f]
  <2>1. v[n].filtered \in BOOLEAN /\ v[n] = [v[n] EXCEPT !.filtered = v[n].filtered]
    BY <1>1, UnmarkTwice
  <2> QED
    BY <2>1
<1> QED
  BY <1>2 DEF SameRecords

(* ... nor after several changes of marks.                                 *)
LEMMA SameRecordsTrans ==
  ASSUME NEW u \in Seq(VRec), NEW v, NEW w, SameRecords(u, v), SameRecords(v, w)
  PROVE  SameRecords(u, w)
<1>1. w \in Seq(VRec) /\ DOMAIN w = DOMAIN u /\ DOMAIN v = DOMAIN u
  BY DEF SameRecords
<1>2. \A n \in DOMAIN u : u[n] \in VRec
  BY VTypes
<1>3. ASSUME NEW n \in DOMAIN u
      PROVE  \E f \in BOOLEAN : /\ w[n] = [u[n] EXCEPT !.filtered = f]
                                /\ IsMessage(u[n].type) => w[n] = u[n]
  <2>1. PICK f \in BOOLEAN : /\ v[n] = [u[n] EXCEPT !.filtered = f]
                             /\ IsMessage(u[n].type) => v[n] = u[n]
    BY DEF SameRecords
  <2>2. PICK g \in BOOLEAN : /\ w[n] = [v[n] EXCEPT !.filtered = g]
                             /\ IsMessage(v[n].type) => w[n] = v[n]
    BY <1>1 DEF SameRecords
  <2>3. w[n] = [u[n] EXCEPT !.filtered = g]
    BY <1>2, <2>1, <2>2, UnmarkTwice
  <2>4. IsMessage(u[n].type) => w[n] = u[n]
    BY <2>1, <2>2
  <2> QED
    BY <2>3, <2>4
<1> QED
  BY <1>1, <1>3 DEF SameRecords

(* The same of stores.                                                     *)
LEMMA SameStoreTrans ==
  ASSUME NEW s \in Store, NEW t, NEW u, SameStore(s, t), SameStore(t, u)
  PROVE  SameStore(s, u)
<1>1. s.v \in Seq(VRec)
  BY StoreTypes
<1>2. SameRecords(s.v, u.v)
  BY <1>1, SameRecordsTrans DEF SameStore
<1>3. SameList(s.kvh, u.kvh) /\ SameList(s.block_kvh, u.block_kvh)
  BY DEF SameStore, SameList
<1> QED
  BY <1>2, <1>3 DEF SameStore

(* A store is the same as itself.                                          *)
LEMMA SameStoreRefl ==
  ASSUME NEW s \in Store
  PROVE  SameStore(s, s)
BY StoreTypes, SameRecordsRefl, SameListRefl DEF SameStore

(* What holds of one holds of the other.                                   *)
LEMMA SameStoreSound ==
  ASSUME NEW s, NEW t, Sound(s), SameStore(s, t)
  PROVE  Sound(t)
<1>1. s \in Store /\ t \in Store /\ s.v \in Seq(VRec) /\ s.msg_kvh \in Seq(Kv)
  BY StoreTypes DEF Sound, Indexed, SameStore
<1>2. DOMAIN t.v = DOMAIN s.v /\ \A n \in DOMAIN s.v : s.v[n] \in VRec
  BY <1>1, VTypes DEF SameStore, SameRecords
<1>3. ASSUME NEW n \in DOMAIN s.v
      PROVE  /\ t.v[n].type = s.v[n].type /\ t.v[n].key = s.v[n].key
             /\ t.v[n].block = s.v[n].block /\ t.v[n].size = s.v[n].size
             /\ t.v[n].buf = s.v[n].buf
  <2>1. PICK f \in BOOLEAN : t.v[n] = [s.v[n] EXCEPT !.filtered = f]
    BY DEF SameStore, SameRecords
  <2>2. s.v[n] \in VRec
    BY <1>2
  <2> QED
    BY <2>1, <2>2 DEF VRec
<1>4. SameKeys(s.v, t.v)
  BY <1>2, <1>3 DEF SameKeys
<1>5. Indexed(t)
  BY <1>1, <1>4, SameIndexed, SameListRefl DEF Sound, SameStore
<1>6. Backed(t.v)
  BY <1>2, <1>3 DEF Sound, Backed
<1> QED
  BY <1>5, <1>6 DEF Sound

(* Other records alone.                                                    *)
LEMMA RecordsSet ==
  ASSUME NEW s \in Store, NEW w, SameRecords(s.v, w)
  PROVE  /\ SameStore(s, [s EXCEPT !.v = w])
         /\ [s EXCEPT !.v = w].v = w /\ [s EXCEPT !.v = w].kvh = s.kvh
         /\ [s EXCEPT !.v = w].block_kvh = s.block_kvh
<1> DEFINE t == [s EXCEPT !.v = w]
<1>1. w \in Seq(VRec)
  BY DEF SameRecords
<1>2. /\ t \in Store /\ t.v = w /\ t.kvh = s.kvh /\ t.block_kvh = s.block_kvh
      /\ t.msg_kvh = s.msg_kvh /\ t.n_pkts = s.n_pkts /\ t.n_frames = s.n_frames
      /\ t.fec_k = s.fec_k /\ t.ended = s.ended
  BY <1>1 DEF Store
<1> HIDE DEF t
<1>3. SameStore(s, t)
  BY <1>2, StoreTypes, SameListRefl DEF SameStore
<1> QED
  BY <1>2, <1>3 DEF t

(* log_filter_reset sets marks alone.                                      *)
LEMMA ResetKeeps ==
  ASSUME NEW s \in Store
  PROVE  SameStore(s, FilterReset(s))
<1> DEFINE w == [n \in DOMAIN s.v |-> IF IsMessage(s.v[n].type) THEN s.v[n]
                                      ELSE [s.v[n] EXCEPT !.filtered = FALSE]]
<1>1. s.v \in Seq(VRec) /\ \A n \in DOMAIN s.v : s.v[n] \in VRec
  BY StoreTypes, VTypes
<1>2. ASSUME NEW n \in DOMAIN s.v
      PROVE  \E f \in BOOLEAN : /\ w[n] = [s.v[n] EXCEPT !.filtered = f]
                                /\ IsMessage(s.v[n].type) => w[n] = s.v[n]
  <2>1. CASE IsMessage(s.v[n].type)
    <3>1. s.v[n].filtered \in BOOLEAN /\ w[n] = [s.v[n] EXCEPT !.filtered = s.v[n].filtered]
      BY <1>1, <2>1, UnmarkTwice
    <3> QED
      BY <2>1, <3>1
  <2>2. CASE ~IsMessage(s.v[n].type)
    <3>1. FALSE \in BOOLEAN /\ w[n] = [s.v[n] EXCEPT !.filtered = FALSE]
      BY <2>2
    <3> QED
      BY <2>2, <3>1
  <2> QED
    BY <2>1, <2>2
<1>3. DOMAIN w = DOMAIN s.v /\ w = [n \in DOMAIN s.v |-> w[n]]
  OBVIOUS
<1>4. FilterReset(s) = [s EXCEPT !.v = w]
  BY DEF FilterReset
<1> HIDE DEF w
<1>5. SameRecords(s.v, w)
  BY <1>1, <1>2, <1>3, Remarked
<1> QED
  BY <1>4, <1>5, RecordsSet

(* The loop of log_filter_dbm sets marks alone.                            *)
LEMMA WeakKeeps ==
  ASSUME NEW s \in Store, NEW c
  PROVE  SameStore(s, MarkWeak(s, c))
<1> DEFINE weak(n) == s.v[n].dbm <= c
           w == [n \in DOMAIN s.v |-> IF s.v[n].type = "inet6" /\ s.v[n].dbm # DbmInval
                                      THEN [s.v[n] EXCEPT !.filtered = weak(n)]
                                      ELSE s.v[n]]
<1>1. s.v \in Seq(VRec) /\ \A n \in DOMAIN s.v : s.v[n] \in VRec
  BY StoreTypes, VTypes
<1>2. ASSUME NEW n \in DOMAIN s.v
      PROVE  \E f \in BOOLEAN : /\ w[n] = [s.v[n] EXCEPT !.filtered = f]
                                /\ IsMessage(s.v[n].type) => w[n] = s.v[n]
  <2>1. CASE s.v[n].type = "inet6" /\ s.v[n].dbm # DbmInval
    <3>1. weak(n) \in BOOLEAN
      OBVIOUS
    <3>2. w[n] = [s.v[n] EXCEPT !.filtered = weak(n)]
      BY <2>1
    <3> HIDE DEF w, weak
    <3>3. ~IsMessage(s.v[n].type)
      BY <2>1 DEF IsMessage
    <3> QED
      BY <3>1, <3>2, <3>3
  <2>2. CASE ~(s.v[n].type = "inet6" /\ s.v[n].dbm # DbmInval)
    <3>1. s.v[n].filtered \in BOOLEAN /\ s.v[n] = [s.v[n] EXCEPT !.filtered = s.v[n].filtered]
      BY <1>1, UnmarkTwice
    <3>2. w[n] = s.v[n]
      BY <2>2
    <3> QED
      BY <3>1, <3>2
  <2> QED
    BY <2>1, <2>2
<1>3. DOMAIN w = DOMAIN s.v /\ w = [n \in DOMAIN s.v |-> w[n]]
  OBVIOUS
<1>4. MarkWeak(s, c) = [s EXCEPT !.v = w]
  BY DEF MarkWeak
<1> HIDE DEF w
<1>5. SameRecords(s.v, w)
  BY <1>1, <1>2, <1>3, Remarked
<1> QED
  BY <1>4, <1>5, RecordsSet

(* What log_update_kv drops is the frame it judged.                        *)
LEMMA DroppedBy ==
  ASSUME NEW s
  PROVE  \A n : n \in Dropped(s) <=> \E i \in DOMAIN s.kvh :
           /\ Left(s, s.kvh[i], "decode") # {} /\ Verdict(s, s.kvh[i]) = "lost"
           /\ n = Judged(s, s.kvh[i])
BY DEF Dropped, ToSet

(* It is a decoded one.                                                    *)
LEMMA DroppedLast ==
  ASSUME NEW s, Indexed(s), NEW n \in Dropped(s)
  PROVE  s.v[n].type = "decode"
<1>1. PICK i \in DOMAIN s.kvh :
        Left(s, s.kvh[i], "decode") # {} /\ n = Judged(s, s.kvh[i])
  BY DroppedBy
<1> QED
  BY <1>1, JudgedLeft

(* log_update_kv sets marks and counters alone.                            *)
LEMMA UpdateKeeps ==
  ASSUME NEW s, Indexed(s)
  PROVE  SameStore(s, UpdateKv(s))
<1> DEFINE w == [n \in DOMAIN s.v |->
                   IF n \in Dropped(s) THEN [s.v[n] EXCEPT !.filtered = TRUE] ELSE s.v[n]]
           a == [i \in DOMAIN s.kvh |-> UpdateSeq(s, s.kvh[i])]
           b == [i \in DOMAIN s.block_kvh |-> UpdateBlock(s, s.block_kvh[i])]
           t == UpdateKv(s)
<1>1. /\ s \in Store /\ s.v \in Seq(VRec) /\ s.kvh \in Seq(Kv) /\ s.block_kvh \in Seq(Kv)
      /\ s.msg_kvh \in Seq(Kv)
  BY StoreTypes DEF Indexed
<1>2. \A n \in DOMAIN s.v : s.v[n] \in VRec
  BY <1>1, VTypes
<1>3. SameRecords(s.v, w)
  <2>1. ASSUME NEW n \in DOMAIN s.v
        PROVE  \E f \in BOOLEAN : /\ w[n] = [s.v[n] EXCEPT !.filtered = f]
                                  /\ IsMessage(s.v[n].type) => w[n] = s.v[n]
    <3>1. CASE n \in Dropped(s)
      <4>1. TRUE \in BOOLEAN /\ w[n] = [s.v[n] EXCEPT !.filtered = TRUE]
        BY <3>1
      <4>2. s.v[n].type = "decode"
        BY <3>1, DroppedLast
      <4> QED
        BY <4>1, <4>2 DEF IsMessage
    <3>2. CASE n \notin Dropped(s)
      <4>1. s.v[n].filtered \in BOOLEAN /\ s.v[n] = [s.v[n] EXCEPT !.filtered = s.v[n].filtered]
        BY <1>2, UnmarkTwice
      <4>2. w[n] = s.v[n]
        BY <3>2
      <4> QED
        BY <4>1, <4>2
    <3> QED
      BY <3>1, <3>2
  <2>2. DOMAIN w = DOMAIN s.v /\ w = [n \in DOMAIN s.v |-> w[n]]
    OBVIOUS
  <2> HIDE DEF w
  <2> QED
    BY <1>1, <2>1, <2>2, Remarked
<1>4. SameList(s.kvh, a)
  <2>1. Len(s.kvh) \in Nat /\ DOMAIN s.kvh = 1 .. Len(s.kvh) /\ \A i \in 1 .. Len(s.kvh) : s.kvh[i] \in Kv
    BY <1>1, KvTypes
  <2>2. \A i \in DOMAIN s.kvh : a[i] \in Kv /\ a[i].key = s.kvh[i].key /\ a[i].vh = s.kvh[i].vh
    BY <2>1, SeqUpdated
  <2>3. a = [i \in DOMAIN s.kvh |-> a[i]]
    OBVIOUS
  <2> HIDE DEF a
  <2>4. a \in [1 .. Len(s.kvh) -> Kv]
    BY <2>1, <2>2, <2>3
  <2>5. a \in Seq(Kv)
    BY <2>1, <2>4, SeqDef
  <2> QED
    BY <2>1, <2>2, <2>4, <2>5 DEF SameList
<1>5. SameList(s.block_kvh, b)
  <2>1. /\ Len(s.block_kvh) \in Nat /\ DOMAIN s.block_kvh = 1 .. Len(s.block_kvh)
        /\ \A i \in 1 .. Len(s.block_kvh) : s.block_kvh[i] \in Kv
    BY <1>1, KvTypes
  <2>2. \A i \in DOMAIN s.block_kvh :
          b[i] \in Kv /\ b[i].key = s.block_kvh[i].key /\ b[i].vh = s.block_kvh[i].vh
    BY <2>1, BlockUpdated
  <2>3. b = [i \in DOMAIN s.block_kvh |-> b[i]]
    OBVIOUS
  <2> HIDE DEF b
  <2>4. b \in [1 .. Len(s.block_kvh) -> Kv]
    BY <2>1, <2>2, <2>3
  <2>5. b \in Seq(Kv)
    BY <2>1, <2>4, SeqDef
  <2> QED
    BY <2>1, <2>2, <2>4, <2>5 DEF SameList
<1>6. t = [s EXCEPT !.v = w, !.kvh = a, !.block_kvh = b]
  BY DEF UpdateKv
<1> HIDE DEF w, a, b, t
<1>7. w \in Seq(VRec) /\ a \in Seq(Kv) /\ b \in Seq(Kv)
  BY <1>3, <1>4, <1>5 DEF SameRecords, SameList
<1>8. /\ t \in Store /\ t.v = w /\ t.kvh = a /\ t.block_kvh = b /\ t.msg_kvh = s.msg_kvh
      /\ t.fec_k = s.fec_k /\ t.n_pkts = s.n_pkts /\ t.n_frames = s.n_frames
      /\ t.ended = s.ended
  BY <1>1, <1>6, <1>7 DEF Store
<1>9. SameStore(s, t)
  BY <1>3, <1>4, <1>5, <1>8 DEF SameStore
<1> QED
  BY <1>9 DEF t

(* A filter changes marks and counters, and nothing else.                  *)
LEMMA FilterKeeps ==
  ASSUME NEW s, Sound(s), NEW c
  PROVE  SameStore(s, FilterDbm(s, c)) /\ Sound(FilterDbm(s, c))
<1> DEFINE a == FilterReset(s)
           b == MarkWeak(a, c)
<1>1. s \in Store /\ SameStore(s, a)
  BY ResetKeeps DEF Sound, Indexed
<1>2. a \in Store /\ SameStore(a, b)
  BY <1>1, WeakKeeps DEF SameStore
<1>3. SameStore(s, b)
  BY <1>1, <1>2, SameStoreTrans
<1>4. Sound(b)
  BY <1>3, SameStoreSound
<1>5. SameStore(b, UpdateKv(b))
  BY <1>4, UpdateKeeps DEF Sound
<1>6. SameStore(s, UpdateKv(b))
  BY <1>1, <1>3, <1>5, SameStoreTrans
<1> QED
  BY <1>6, SameStoreSound DEF FilterDbm

(* log_filter_reset forgets the marks of the filters before.               *)
LEMMA ResetAlike ==
  ASSUME NEW s, NEW t, s \in Store, SameStore(s, t)
  PROVE  Alike(FilterReset(s), FilterReset(t))
<1> DEFINE w(x) == [n \in DOMAIN x.v |-> IF IsMessage(x.v[n].type) THEN x.v[n]
                                         ELSE [x.v[n] EXCEPT !.filtered = FALSE]]
<1>1. t \in Store /\ DOMAIN s.v = DOMAIN t.v /\ \A n \in DOMAIN s.v : s.v[n] \in VRec
  BY StoreTypes, VTypes DEF SameStore, SameRecords
<1>2. ASSUME NEW n \in DOMAIN s.v
      PROVE  w(s)[n] = w(t)[n]
  <2>1. PICK f \in BOOLEAN : /\ t.v[n] = [s.v[n] EXCEPT !.filtered = f]
                             /\ IsMessage(s.v[n].type) => t.v[n] = s.v[n]
    BY DEF SameStore, SameRecords
  <2>2. t.v[n].type = s.v[n].type
    BY <1>1, <2>1 DEF VRec
  <2>3. [t.v[n] EXCEPT !.filtered = FALSE] = [s.v[n] EXCEPT !.filtered = FALSE]
    BY <1>1, <2>1, UnmarkTwice
  <2> QED
    BY <1>1, <2>1, <2>2, <2>3
<1>3. w(s) = w(t)
  BY <1>1, <1>2
<1>4. FilterReset(s) = [s EXCEPT !.v = w(s)] /\ FilterReset(t) = [t EXCEPT !.v = w(t)]
  BY DEF FilterReset
<1> HIDE DEF w
<1> DEFINE a == FilterReset(s)
           b == FilterReset(t)
<1>5. /\ a.v = w(s) /\ a.kvh = s.kvh /\ a.block_kvh = s.block_kvh /\ a.msg_kvh = s.msg_kvh
      /\ a.n_pkts = s.n_pkts /\ a.n_frames = s.n_frames /\ a.ended = s.ended
      /\ a.fec_k = s.fec_k
  BY <1>4 DEF Store
<1>6. /\ b.v = w(t) /\ b.kvh = t.kvh /\ b.block_kvh = t.block_kvh /\ b.msg_kvh = t.msg_kvh
      /\ b.n_pkts = t.n_pkts /\ b.n_frames = t.n_frames /\ b.ended = t.ended
      /\ b.fec_k = t.fec_k
  BY <1>1, <1>4 DEF Store
<1> QED
  BY <1>3, <1>5, <1>6 DEF Alike, SameStore

(* The loop of log_filter_dbm reads records alone.                         *)
LEMMA WeakAlike ==
  ASSUME NEW s \in Store, NEW t \in Store, Alike(s, t), NEW c
  PROVE  Alike(MarkWeak(s, c), MarkWeak(t, c))
<1> DEFINE w(x) == [n \in DOMAIN x.v |-> IF x.v[n].type = "inet6" /\ x.v[n].dbm # DbmInval
                                         THEN [x.v[n] EXCEPT !.filtered = x.v[n].dbm <= c]
                                         ELSE x.v[n]]
<1>1. s.v = t.v
  BY DEF Alike
<1>2. w(s) = w(t)
  BY <1>1
<1>3. MarkWeak(s, c) = [s EXCEPT !.v = w(s)] /\ MarkWeak(t, c) = [t EXCEPT !.v = w(t)]
  BY DEF MarkWeak
<1> HIDE DEF w
<1> DEFINE a == MarkWeak(s, c)
           b == MarkWeak(t, c)
<1>5. /\ a.v = w(s) /\ a.kvh = s.kvh /\ a.block_kvh = s.block_kvh /\ a.msg_kvh = s.msg_kvh
      /\ a.n_pkts = s.n_pkts /\ a.n_frames = s.n_frames /\ a.ended = s.ended
      /\ a.fec_k = s.fec_k
  BY <1>3 DEF Store
<1>6. /\ b.v = w(t) /\ b.kvh = t.kvh /\ b.block_kvh = t.block_kvh /\ b.msg_kvh = t.msg_kvh
      /\ b.n_pkts = t.n_pkts /\ b.n_frames = t.n_frames /\ b.ended = t.ended
      /\ b.fec_k = t.fec_k
  BY <1>3 DEF Store
<1> QED
  BY <1>2, <1>5, <1>6 DEF Alike

(* log_update_kv reads no counter or mark it has not set.                  *)
LEMMA UpdateAlike ==
  ASSUME NEW s, NEW t, Indexed(s), Indexed(t), Alike(s, t)
  PROVE  UpdateKv(s) = UpdateKv(t)
<1>1. /\ s \in Store /\ t \in Store /\ s.kvh \in Seq(Kv) /\ t.kvh \in Seq(Kv)
      /\ s.block_kvh \in Seq(Kv) /\ t.block_kvh \in Seq(Kv)
  BY StoreTypes DEF Indexed
<1>2. /\ s.v = t.v /\ DOMAIN s.kvh = DOMAIN t.kvh /\ DOMAIN s.block_kvh = DOMAIN t.block_kvh
      /\ \A i \in DOMAIN s.kvh : s.kvh[i].key = t.kvh[i].key /\ s.kvh[i].vh = t.kvh[i].vh
      /\ \A i \in DOMAIN s.block_kvh :
           s.block_kvh[i].key = t.block_kvh[i].key /\ s.block_kvh[i].vh = t.block_kvh[i].vh
  BY DEF Alike, SameList
<1>3. \A i \in DOMAIN s.kvh : s.kvh[i] \in Kv /\ t.kvh[i] \in Kv
  BY <1>1, <1>2, KvTypes
<1>4. \A i \in DOMAIN s.block_kvh : s.block_kvh[i] \in Kv /\ t.block_kvh[i] \in Kv
  BY <1>1, <1>2, KvTypes
<1>5. \A i \in DOMAIN s.kvh : UpdateSeq(s, s.kvh[i]) = UpdateSeq(t, t.kvh[i])
  <2> SUFFICES ASSUME NEW i \in DOMAIN s.kvh
               PROVE  UpdateSeq(s, s.kvh[i]) = UpdateSeq(t, t.kvh[i])
    OBVIOUS
  <2> DEFINE kv == s.kvh[i]
             kw == t.kvh[i]
  <2>1. Ethernet(s, kv) = Ethernet(t, kw) /\ Left(s, kv, "decode") = Left(t, kw, "decode")
    BY <1>2, LeftAlike
  <2>2. Verdict(s, kv) = Verdict(t, kw)
    BY VerdictAlike
  <2>3. kv \in Kv /\ kw \in Kv /\ kv.key = kw.key /\ kv.vh = kw.vh
    BY <1>2, <1>3
  <2> HIDE DEF kv, kw
  <2>4. UpdateSeq(s, kv) =
              [key |-> kv.key, vh |-> kv.vh, n_ethernet_frame |-> Ethernet(s, kv),
               n_h265_frame |-> IF Verdict(s, kv) \in {"kept", "fec"} THEN 1 ELSE 0,
               has_lost_frame |-> Verdict(s, kv) = "lost",
               has_fec_frame |-> Verdict(s, kv) = "fec"]
    BY <2>3, SeqUpdated
  <2>5. UpdateSeq(t, kw) =
              [key |-> kw.key, vh |-> kw.vh, n_ethernet_frame |-> Ethernet(t, kw),
               n_h265_frame |-> IF Verdict(t, kw) \in {"kept", "fec"} THEN 1 ELSE 0,
               has_lost_frame |-> Verdict(t, kw) = "lost",
               has_fec_frame |-> Verdict(t, kw) = "fec"]
    BY <2>3, SeqUpdated
  <2>6. UpdateSeq(s, kv) = UpdateSeq(t, kw)
    BY <2>1, <2>2, <2>3, <2>4, <2>5
  <2> QED
    BY <2>6 DEF kv, kw
<1>6. \A i \in DOMAIN s.block_kvh :
        UpdateBlock(s, s.block_kvh[i]) = UpdateBlock(t, t.block_kvh[i])
  <2> SUFFICES ASSUME NEW i \in DOMAIN s.block_kvh
               PROVE  UpdateBlock(s, s.block_kvh[i]) = UpdateBlock(t, t.block_kvh[i])
    OBVIOUS
  <2> DEFINE kv == s.block_kvh[i]
             kw == t.block_kvh[i]
             B(x, k) == [key |-> k.key, vh |-> k.vh, n_ethernet_frame |-> Ethernet(x, k),
               n_h265_frame |-> Regained(x, k),
               has_lost_frame |-> \/ Ethernet(x, k) < x.fec_k
                                  \/ \E p \in VerdictsOf(x, k) : p[2] = "lost",
               has_fec_frame |-> \E p \in VerdictsOf(x, k) : p[2] = "fec"]
  <2>1. Ethernet(s, kv) = Ethernet(t, kw) /\ Left(s, kv, "decode") = Left(t, kw, "decode")
    BY <1>2, LeftAlike
  <2>2. VerdictsOf(s, kv) = VerdictsOf(t, kw)
    BY <1>2, VerdictsAlike
  <2>3. kv \in Kv /\ kw \in Kv /\ kv.key = kw.key /\ kv.vh = kw.vh
    BY <1>2, <1>4
  <2> HIDE DEF kv, kw
  <2>4. Regained(s, kv) = Regained(t, kw)
    BY <2>2 DEF Regained
  <2>5. UpdateBlock(s, kv) = B(s, kv) /\ UpdateBlock(t, kw) = B(t, kw)
    BY <2>3, BlockUpdated
  <2>6. B(s, kv) = B(t, kw)
    BY <2>1, <2>2, <2>3, <2>4 DEF Alike
  <2> QED
    BY <2>5, <2>6 DEF kv, kw
<1>7. Dropped(s) = Dropped(t)
  <2>1. \A i \in DOMAIN s.kvh :
          /\ Verdict(s, s.kvh[i]) = Verdict(t, t.kvh[i])
          /\ Left(s, s.kvh[i], "decode") = Left(t, t.kvh[i], "decode")
    BY <1>2, VerdictAlike, LeftAlike
  <2>2. \A i \in DOMAIN s.kvh : Judged(s, s.kvh[i]) = Judged(t, t.kvh[i])
    BY <1>2, <2>1 DEF Judged
  <2>3. \A n : n \in Dropped(s) <=> \E i \in DOMAIN s.kvh :
          /\ Left(s, s.kvh[i], "decode") # {} /\ Verdict(s, s.kvh[i]) = "lost"
          /\ n = Judged(s, s.kvh[i])
    BY DroppedBy
  <2>4. \A n : n \in Dropped(t) <=> \E i \in DOMAIN t.kvh :
          /\ Left(t, t.kvh[i], "decode") # {} /\ Verdict(t, t.kvh[i]) = "lost"
          /\ n = Judged(t, t.kvh[i])
    BY DroppedBy
  <2>5. ASSUME NEW n \in Dropped(s) PROVE n \in Dropped(t)
    <3>1. PICK i \in DOMAIN s.kvh :
            /\ Left(s, s.kvh[i], "decode") # {} /\ Verdict(s, s.kvh[i]) = "lost"
            /\ n = Judged(s, s.kvh[i])
      BY <2>3
    <3>2. /\ i \in DOMAIN t.kvh /\ Left(t, t.kvh[i], "decode") # {}
          /\ Verdict(t, t.kvh[i]) = "lost" /\ n = Judged(t, t.kvh[i])
      BY <1>2, <2>1, <2>2, <3>1
    <3> QED
      BY <2>4, <3>2
  <2>6. ASSUME NEW n \in Dropped(t) PROVE n \in Dropped(s)
    <3>1. PICK i \in DOMAIN t.kvh :
            /\ Left(t, t.kvh[i], "decode") # {} /\ Verdict(t, t.kvh[i]) = "lost"
            /\ n = Judged(t, t.kvh[i])
      BY <2>4
    <3>2. /\ i \in DOMAIN s.kvh /\ Left(s, s.kvh[i], "decode") # {}
          /\ Verdict(s, s.kvh[i]) = "lost" /\ n = Judged(s, s.kvh[i])
      BY <1>2, <2>1, <2>2, <3>1
    <3> QED
      BY <2>3, <3>2
  <2> QED
    BY <2>5, <2>6
<1> DEFINE w(x) == [n \in DOMAIN x.v |->
                   IF n \in Dropped(x) THEN [x.v[n] EXCEPT !.filtered = TRUE] ELSE x.v[n]]
           a(x) == [i \in DOMAIN x.kvh |-> UpdateSeq(x, x.kvh[i])]
           b(x) == [i \in DOMAIN x.block_kvh |-> UpdateBlock(x, x.block_kvh[i])]
<1>8. w(s) = w(t) /\ a(s) = a(t) /\ b(s) = b(t)
  BY <1>2, <1>5, <1>6, <1>7
<1>9. /\ UpdateKv(s) = [s EXCEPT !.v = w(s), !.kvh = a(s), !.block_kvh = b(s)]
      /\ UpdateKv(t) = [t EXCEPT !.v = w(t), !.kvh = a(t), !.block_kvh = b(t)]
  BY DEF UpdateKv
<1> HIDE DEF w, a, b
<1>10. UpdateKv(s) =
         [v |-> w(s), kvh |-> a(s), block_kvh |-> b(s), msg_kvh |-> s.msg_kvh,
          fec_k |-> s.fec_k, n_pkts |-> s.n_pkts, n_frames |-> s.n_frames,
          ended |-> s.ended]
  BY <1>1, <1>9 DEF Store
<1>11. UpdateKv(t) =
         [v |-> w(t), kvh |-> a(t), block_kvh |-> b(t), msg_kvh |-> t.msg_kvh,
          fec_k |-> t.fec_k, n_pkts |-> t.n_pkts, n_frames |-> t.n_frames,
          ended |-> t.ended]
  BY <1>1, <1>9 DEF Store
<1> QED
  BY <1>8, <1>10, <1>11 DEF Alike

(* What a filter leaves does not depend on earlier marks and counters.     *)
LEMMA FilterAlike ==
  ASSUME NEW s, NEW t, Sound(s), SameStore(s, t), NEW c
  PROVE  FilterDbm(s, c) = FilterDbm(t, c)
<1> DEFINE a == FilterReset(s)
           b == FilterReset(t)
<1>1. s \in Store /\ t \in Store /\ Sound(t)
  BY SameStoreSound DEF Sound, Indexed, SameStore
<1>2. Alike(a, b)
  BY <1>1, ResetAlike
<1>3. SameStore(s, a) /\ SameStore(t, b)
  BY <1>1, ResetKeeps
<1>4. a \in Store /\ b \in Store /\ Sound(a) /\ Sound(b)
  BY <1>1, <1>3, SameStoreSound DEF SameStore
<1> HIDE DEF a, b
<1>5. Alike(MarkWeak(a, c), MarkWeak(b, c))
  BY <1>2, <1>4, WeakAlike
<1>6. SameStore(a, MarkWeak(a, c)) /\ SameStore(b, MarkWeak(b, c))
  BY <1>4, WeakKeeps
<1>7. Indexed(MarkWeak(a, c)) /\ Indexed(MarkWeak(b, c))
  BY <1>4, <1>6, SameStoreSound DEF Sound
<1>8. UpdateKv(MarkWeak(a, c)) = UpdateKv(MarkWeak(b, c))
  BY <1>5, <1>7, UpdateAlike
<1> QED
  BY <1>8 DEF FilterDbm, a, b

-----------------------------------------------------------------------------
(* The median                                                              *)

(* Sets in one-to-one correspondence are equally large.                    *)
LEMMA SameCount ==
  ASSUME NEW S, IsFiniteSet(S), NEW T, NEW f \in [S -> T],
         \A x, y \in S : x # y => f[x] # f[y],
         \A y \in T : \E x \in S : f[x] = y
  PROVE  IsFiniteSet(T) /\ Cardinality(T) = Cardinality(S)
<1>1. f \in Bijection(S, T)
  BY DEF Bijection, Injection, Surjection, IsInjective
<1>2. ExistsBijection(S, T)
  BY <1>1 DEF ExistsBijection
<1> QED
  BY <1>2, FS_Bijection

(* The frames log_hist counts are finitely many.                           *)
LEMMA StrongTypes ==
  ASSUME NEW s \in Store
  PROVE  /\ IsFiniteSet(Strong(s)) /\ \A n \in Strong(s) : s.v[n].dbm \in Int
         /\ \A T : T \subseteq Strong(s) =>
              /\ IsFiniteSet(T) /\ Cardinality(T) \in Nat
              /\ Cardinality(T) <= Cardinality(Strong(s))
<1>1. Len(s.v) \in Nat /\ DOMAIN s.v = 1 .. Len(s.v) /\ \A n \in DOMAIN s.v : s.v[n].dbm \in Int
  BY StoreTypes, VTypes
<1>2. IsFiniteSet(DOMAIN s.v)
  BY <1>1, FS_Interval
<1>3. Strong(s) \in SUBSET DOMAIN s.v
  BY DEF Strong
<1>4. IsFiniteSet(Strong(s))
  BY <1>2, <1>3, FS_Subset
<1>5. \A T : T \subseteq Strong(s) =>
        /\ IsFiniteSet(T) /\ Cardinality(T) \in Nat /\ Cardinality(T) <= Cardinality(Strong(s))
  BY <1>4, FS_Subset, FS_CardinalityType
<1> QED
  BY <1>1, <1>3, <1>4, <1>5

(* The histogram of the frames, as log_hist fills it.                      *)
Hist(s) == {<<n, HistIdx(s.v[n].dbm)>> : n \in Strong(s)}

UpTo(s, idx) == {n \in Strong(s) : HistIdx(s.v[n].dbm) <= idx}

(* The index of a strength within the histogram.                           *)
LEMMA HistPlace ==
  ASSUME NEW dbm \in -128 .. 126
  PROVE  HistIdx(dbm) = dbm + 128 /\ HistIdx(dbm) <= 254
<1>1. dbm + 128 \in 0 .. 254
  OBVIOUS
<1>2. \A x \in 0 .. 254 : x % 256 = x
  OBVIOUS
<1>3. HistIdx(dbm) = dbm + 128
  BY <1>1, <1>2 DEF HistIdx
<1> QED
  BY <1>1, <1>3

(* A frame is counted once, whatever else has its strength.                *)
LEMMA CumulativeCounts ==
  ASSUME NEW s \in Store, NEW idx
  PROVE  Cumulative(Hist(s), idx) = Cardinality(UpTo(s, idx))
<1> DEFINE A == UpTo(s, idx)
           B == {p \in Hist(s) : p[2] <= idx}
           g == [n \in A |-> <<n, HistIdx(s.v[n].dbm)>>]
<1>1. A \subseteq Strong(s)
  BY DEF UpTo
<1>2. IsFiniteSet(A)
  BY <1>1, StrongTypes
<1>3. \A n \in A : g[n] \in B
  BY DEF UpTo, Hist
<1>4. g \in [A -> B]
  <2>1. g = [n \in A |-> g[n]]
    OBVIOUS
  <2> HIDE DEF g, A, B
  <2> QED
    BY <1>3, <2>1
<1>5. \A m, n \in A : m # n => g[m] # g[n]
  OBVIOUS
<1>6. \A p \in B : \E n \in A : g[n] = p
  BY DEF UpTo, Hist
<1> HIDE DEF A, B, g
<1>7. Cardinality(B) = Cardinality(A)
  BY <1>2, <1>4, <1>5, <1>6, SameCount
<1> QED
  BY <1>7 DEF Cumulative, A, B

(* log_hist's loop stops at the first index past half the frames, and not  *)
(* before the second.                                                      *)
LEMMA MedianFound ==
  ASSUME NEW s \in Store, Strong(s) # {}, \A n \in Strong(s) : s.v[n].dbm \in -128 .. 126
  PROVE  \E m \in 1 .. 254 :
           /\ Median(s) = m - 128
           /\ Cardinality(UpTo(s, m)) > Half(s)
           /\ m > 1 => Cardinality(UpTo(s, m - 1)) <= Half(s)
<1> DEFINE z == Cardinality(Strong(s))
           over == {idx \in 1 .. 254 : Cumulative(Hist(s), idx) > Half(s)}
           m == Min(over)
<1>1. \A T : T \subseteq Strong(s) => IsFiniteSet(T) /\ Cardinality(T) \in Nat
  BY StrongTypes
<1>2. z \in Nat /\ z > 0
  BY <1>1, FS_EmptySet
<1>3. Half(s) = z \div 2
  BY DEF Half
<1>4. Half(s) \in Nat /\ Half(s) < z
  BY <1>2, <1>3
<1>5. \A idx : Cumulative(Hist(s), idx) = Cardinality(UpTo(s, idx))
  BY CumulativeCounts
<1>6. \A idx : Cardinality(UpTo(s, idx)) \in Nat
  BY <1>1 DEF UpTo
<1>7. 254 \in over
  <2>1. \A n \in Strong(s) : HistIdx(s.v[n].dbm) <= 254
    BY HistPlace
  <2>2. UpTo(s, 254) = Strong(s)
    BY <2>1 DEF UpTo
  <2> QED
    BY <1>4, <1>5, <2>2
<1>8. Median(s) = m - 128
  BY <1>7 DEF Median, Hist
<1>9. over \subseteq Nat
  OBVIOUS
<1>10. m \in over /\ \A y \in over : m <= y
  <2> HIDE DEF over
  <2>1. PICK x \in over : \A y \in over : x <= y
    BY <1>7, <1>9, LeastNat
  <2> QED
    BY <2>1 DEF Min
<1>11. m \in over /\ \A y \in over : m <= y
  BY <1>10
<1>12. m \in 1 .. 254 /\ Cardinality(UpTo(s, m)) > Half(s)
  BY <1>5, <1>11
<1> HIDE DEF m
<1>13. ASSUME m > 1 PROVE Cardinality(UpTo(s, m - 1)) <= Half(s)
  <2>1. m - 1 \in 1 .. 254 /\ ~(m <= m - 1)
    BY <1>12, <1>13
  <2>2. m - 1 \notin over
    BY <1>11, <2>1
  <2>3. ~(Cumulative(Hist(s), m - 1) > Half(s))
    BY <2>1, <2>2
  <2> QED
    BY <1>4, <1>5, <1>6, <2>3
<1> QED
  BY <1>8, <1>12, <1>13

(* At least half of the frames are no stronger, and half no weaker.        *)
LEMMA MedianMiddle ==
  ASSUME NEW s \in Store, Strong(s) # {}, \A n \in Strong(s) : s.v[n].dbm \in -128 .. 126
  PROVE  /\ 2 * Cardinality({n \in Strong(s) : Shown(s.v[n].dbm) <= Median(s)})
              >= Cardinality(Strong(s))
         /\ 2 * Cardinality({n \in Strong(s) : Shown(s.v[n].dbm) >= Median(s)})
              >= Cardinality(Strong(s))
<1> DEFINE z == Cardinality(Strong(s))
           below == {n \in Strong(s) : Shown(s.v[n].dbm) <= Median(s)}
           above == {n \in Strong(s) : Shown(s.v[n].dbm) >= Median(s)}
<1>1. PICK m \in 1 .. 254 : /\ Median(s) = m - 128
                            /\ Cardinality(UpTo(s, m)) > Half(s)
                            /\ m > 1 => Cardinality(UpTo(s, m - 1)) <= Half(s)
  BY MedianFound
<1>2. \A n \in Strong(s) : HistIdx(s.v[n].dbm) = s.v[n].dbm + 128
  BY HistPlace
<1>3. /\ IsFiniteSet(Strong(s)) /\ z \in Nat
      /\ \A idx : Cardinality(UpTo(s, idx)) \in Nat
  <2>1. \A idx : UpTo(s, idx) \subseteq Strong(s)
    BY DEF UpTo
  <2> QED
    BY <2>1, StrongTypes
<1>4. Half(s) \in Nat /\ 2 * Half(s) <= z /\ z <= 2 * Half(s) + 1
  <2>1. Half(s) = z \div 2
    BY DEF Half
  <2> QED
    BY <1>3, <2>1
<1> DEFINE place(n) == HistIdx(s.v[n].dbm)
           shown(n) == Shown(s.v[n].dbm)
<1>0. ASSUME NEW n \in Strong(s)
      PROVE  /\ shown(n) <= Median(s) <=> place(n) <= m
             /\ m = 1 => shown(n) >= Median(s)
             /\ m > 1 => (shown(n) >= Median(s) <=> ~(place(n) <= m - 1))
  <2> DEFINE d == s.v[n].dbm
  <2>1. d \in -128 .. 126 /\ place(n) = d + 128
    BY <1>2
  <2>2. shown(n) = IF d = -128 THEN -127 ELSE d
    BY DEF Shown
  <2> HIDE DEF place, shown, d
  <2>3. CASE d = -128
    BY <1>1, <2>1, <2>2, <2>3
  <2>4. CASE d # -128
    BY <1>1, <2>1, <2>2, <2>4
  <2> QED
    BY <2>3, <2>4
<1>5. below = UpTo(s, m)
  BY <1>0 DEF UpTo
<1>6. 2 * Cardinality(below) >= z
  <2> HIDE DEF below, z
  <2> QED
    BY <1>1, <1>3, <1>4, <1>5
<1>7. 2 * Cardinality(above) >= z
  <2>1. CASE m = 1
    <3>1. above = Strong(s)
      BY <1>0, <2>1
    <3> HIDE DEF above
    <3> QED
      BY <1>3, <3>1
  <2>2. CASE m > 1
    <3> DEFINE low == UpTo(s, m - 1)
    <3>1. above = Strong(s) \ low /\ Strong(s) \cap low = low
      BY <1>0, <2>2 DEF UpTo
    <3>2. Cardinality(low) \in Nat /\ Cardinality(low) <= Half(s)
      BY <1>1, <1>3, <2>2
    <3> HIDE DEF above, low
    <3>3. Cardinality(above) = z - Cardinality(low)
      BY <1>3, <3>1, FS_Difference
    <3> QED
      BY <1>3, <1>4, <3>2, <3>3
  <2> QED
    BY <2>1, <2>2
<1> QED
  BY <1>6, <1>7

-----------------------------------------------------------------------------
(* The shell's commands                                                    *)

(* A record is in the list of its key and in no other.                     *)
LEMMA OnlyListed ==
  ASSUME NEW kvh \in Seq(Kv), NEW keyOf, Indexes(kvh, keyOf), NEW n \in DOMAIN keyOf
  PROVE  \A kv \in ToSet(kvh) : n \in ToSet(kv.vh) <=> kv.key = keyOf[n]
<1>1. /\ Len(kvh) \in Nat /\ DOMAIN kvh = 1 .. Len(kvh)
      /\ \A i \in 1 .. Len(kvh) : kvh[i].key \in Int /\ kvh[i].vh \in Seq(Nat)
  BY KvTypes
<1> SUFFICES ASSUME NEW i \in 1 .. Len(kvh)
             PROVE  n \in ToSet(kvh[i].vh) <=> kvh[i].key = keyOf[n]
  BY <1>1 DEF ToSet
<1>2. \A j \in 1 .. Len(kvh) : DOMAIN kvh[j].vh = 1 .. Len(kvh[j].vh)
  BY <1>1
<1>3. ASSUME n \in ToSet(kvh[i].vh) PROVE kvh[i].key = keyOf[n]
  <2>1. PICK k \in 1 .. Len(kvh[i].vh) : kvh[i].vh[k] = n
    BY <1>2, <1>3 DEF ToSet
  <2> QED
    BY <1>1, <2>1 DEF Indexes
<1>4. ASSUME kvh[i].key = keyOf[n] PROVE n \in ToSet(kvh[i].vh)
  <2>1. PICK j \in 1 .. Len(kvh) : \E k \in 1 .. Len(kvh[j].vh) : kvh[j].vh[k] = n
    BY <1>1 DEF Indexes
  <2>2. kvh[j].key = keyOf[n]
    <3>1. j \in DOMAIN kvh
      BY <1>1
    <3>2. \A k \in 1 .. Len(kvh[j].vh) : keyOf[kvh[j].vh[k]] = kvh[j].key
      BY <3>1 DEF Indexes
    <3> QED
      BY <2>1, <3>2
  <2>3. \A x, y \in 1 .. Len(kvh) : x < y => kvh[x].key < kvh[y].key
    BY <1>1 DEF Indexes, Ascending
  <2>4. i = j
    BY <1>1, <1>4, <2>2, <2>3
  <2> QED
    BY <1>2, <2>1, <2>4 DEF ToSet
<1> QED
  BY <1>3, <1>4

(* What the proof keeps of the store is what the property asks of it.      *)
LEMMA SoundOK ==
  ASSUME Sound(ls)
  PROVE  StoreOK
<1>1. /\ ls.kvh \in Seq(Kv) /\ ls.block_kvh \in Seq(Kv) /\ ls.msg_kvh \in Seq(Kv)
      /\ Indexes(ls.kvh, KeyOfSeq(ls.v)) /\ Indexes(ls.block_kvh, KeyOfBlock(ls.v))
      /\ Indexes(ls.msg_kvh, KeyOfMsg(ls.v))
  BY StoreTypes DEF Sound, Indexed
<1>2. Ascending(ls.kvh) /\ Ascending(ls.block_kvh) /\ Ascending(ls.msg_kvh)
  BY <1>1 DEF Indexes
<1>3. ASSUME NEW n \in DOMAIN ls.v, ~IsMessage(ls.v[n].type)
      PROVE  /\ \A kv \in ToSet(ls.kvh) : n \in ToSet(kv.vh) <=> kv.key = ls.v[n].key
             /\ \A kv \in ToSet(ls.block_kvh) : n \in ToSet(kv.vh) <=> kv.key = ls.v[n].block
  <2>1. /\ n \in DOMAIN KeyOfSeq(ls.v) /\ KeyOfSeq(ls.v)[n] = ls.v[n].key
        /\ n \in DOMAIN KeyOfBlock(ls.v) /\ KeyOfBlock(ls.v)[n] = ls.v[n].block
    BY <1>3 DEF KeyOfSeq, KeyOfBlock, Sequenced
  <2>2. \A kv \in ToSet(ls.kvh) : n \in ToSet(kv.vh) <=> kv.key = ls.v[n].key
    BY <1>1, <2>1, OnlyListed
  <2>3. \A kv \in ToSet(ls.block_kvh) : n \in ToSet(kv.vh) <=> kv.key = ls.v[n].block
    BY <1>1, <2>1, OnlyListed
  <2> QED
    BY <2>2, <2>3
<1>4. ASSUME NEW n \in DOMAIN ls.v, IsMessage(ls.v[n].type)
      PROVE  \A kv \in ToSet(ls.msg_kvh) : n \in ToSet(kv.vh) <=> kv.key = ls.v[n].key
  <2>1. n \in DOMAIN KeyOfMsg(ls.v) /\ KeyOfMsg(ls.v)[n] = ls.v[n].key
    BY <1>4 DEF KeyOfMsg, Sequenced
  <2> QED
    BY <1>1, <2>1, OnlyListed
<1>5. \A n \in DOMAIN ls.v :
        ls.v[n].type = "decode" \/ IsMessage(ls.v[n].type) => (ls.v[n].size > 0 <=> ls.v[n].buf)
  BY DEF Sound, Backed
<1> QED
  BY <1>2, <1>3, <1>4, <1>5 DEF StoreOK

(* The store is that of its log but for marks and counters, and these are  *)
(* the last filter's.                                                      *)
ShellInv ==
  /\ Sound(ls) /\ cut \in Int
  /\ source = NoLog => cut = NoCut
  /\ source # NoLog =>
       /\ source \in DOMAIN logs
       /\ SameStore(LoadLog(logs[source]), ls)
       /\ cut # NoCut => ls = FilterDbm(LoadLog(logs[source]), cut)

(* Without a log the store is empty.                                       *)
LEMMA ShellInitially == Init => ChunkInv /\ ShellInv
<1> SUFFICES ASSUME Init PROVE ChunkInv /\ ShellInv
  OBVIOUS
<1>2. ChunkInv
  BY ChunkInitially
<1>3. Sound(NoStore)
  BY NewSound, EndedKeeps DEF NoStore
<1> QED
  BY <1>2, <1>3 DEF Init, ShellInv, NoCut

(* Loading makes a sound store, and a filter keeps it that of its log.     *)
LEMMA ShellStep ==
  ASSUME ChunkInv, ShellInv, [Next]_vars
  PROVE  ShellInv'
<1>1. CASE Listener
  BY <1>1 DEF Listener, shellVars, ShellInv
<1>2. CASE UNCHANGED vars
  BY <1>2 DEF vars, logVars, shellVars, ShellInv
<1>3. CASE Load
  <2>1. logs' = logs
    BY <1>3 DEF Load, logVars
  <2>2. CASE UNCHANGED <<ls, source, cut>>
    BY <2>1, <2>2 DEF ShellInv
  <2>3. ASSUME NEW n \in DOMAIN logs, ls' = LoadLog(logs[n]), source' = n, cut' = NoCut
        PROVE  ShellInv'
    <3>1. logs[n] \in Seq(Chunk)
      BY DEF ChunkInv
    <3>2. Sound(LoadLog(logs[n])) /\ LoadLog(logs[n]) \in Store
      BY <3>1, LogLoaded
    <3>3. SameStore(LoadLog(logs[n]), LoadLog(logs[n]))
      BY <3>2, SameStoreRefl
    <3>4. cut' \in Int
      BY <2>3 DEF NoCut
    <3> QED
      BY <2>1, <2>3, <3>2, <3>3, <3>4 DEF ShellInv
  <2> QED
    BY <1>3, <2>2, <2>3 DEF Load
<1>4. CASE Filter
  <2>1. PICK c \in CutOffs : ls' = FilterDbm(ls, -c) /\ cut' = -c
    BY <1>4 DEF Filter
  <2>2. source # NoLog /\ source' = source /\ logs' = logs
    BY <1>4 DEF Filter, logVars
  <2> DEFINE s == LoadLog(logs[source])
             d == -c
  <2>3. source \in DOMAIN logs /\ SameStore(s, ls)
    BY <2>2 DEF ShellInv
  <2>4. logs[source] \in Seq(Chunk)
    BY <2>3 DEF ChunkInv
  <2>5. Sound(s) /\ s \in Store
    BY <2>4, LogLoaded
  <2>6. ls' = FilterDbm(ls, d) /\ cut' = d /\ d \in Int
    BY <2>1, CutOffAssumption
  <2>7. s' = s
    BY <2>2
  <2> HIDE DEF s, d
  <2>8. FilterDbm(ls, d) = FilterDbm(s, d)
    BY <2>3, <2>5, FilterAlike
  <2>9. SameStore(s, FilterDbm(s, d)) /\ Sound(FilterDbm(s, d))
    BY <2>5, FilterKeeps
  <2>10. Sound(ls')
    BY <2>6, <2>8, <2>9
  <2>11. SameStore(s, ls') /\ (cut' # NoCut => ls' = FilterDbm(s, cut'))
    BY <2>6, <2>8, <2>9
  <2> QED
    BY <2>2, <2>3, <2>6, <2>10, <2>11 DEF ShellInv, s
<1> QED
  BY <1>1, <1>2, <1>3, <1>4 DEF Next

(* Both together hold of every behaviour.                                  *)
LEMMA ShellAlways == Spec => [](ChunkInv /\ ShellInv)
<1>1. ChunkInv /\ ShellInv /\ [Next]_vars => (ChunkInv /\ ShellInv)'
  BY ChunkStep, ShellStep
<1> QED
  BY <1>1, ShellInitially, PTL DEF Spec

(* Whatever is in the log, whole or cut off or mixed up by two threads,    *)
(* the lists of the store stay sorted, each record is where its keys say,  *)
(* and what has a size has its data: log_kv_alloc's search from the tail,  *)
(* process_payload's way out at the end of the file and any filter keep it *)
(* so.                                                                     *)
THEOREM StoreIntact == Spec => []StoreOK
<1>1. ChunkInv /\ ShellInv => StoreOK
  BY SoundOK DEF ShellInv
<1> QED
  BY <1>1, ShellAlways, PTL

(* A filter forgets the filters before it, whatever the log and the        *)
(* cut-offs: log_filter_reset clears every mark that log_update_kv reads,  *)
(* and log_update_kv sets every counter anew.                              *)
THEOREM FilterForgets == Spec => []FilterFresh
<1>1. ChunkInv /\ ShellInv => FilterFresh
  BY DEF ShellInv, FilterFresh
<1> QED
  BY <1>1, ShellAlways, PTL

(* The median log_hist shows splits the strengths in halves, for any       *)
(* number of frames of -128 to 126 dBm, with the loop that starts at the   *)
(* second place of the histogram: -128 dBm is shown as -127.               *)
THEOREM MedianShown == Spec => []MedianInMiddle
<1>1. ChunkInv /\ ShellInv => MedianInMiddle
  <2> SUFFICES ASSUME ShellInv PROVE MedianInMiddle
    OBVIOUS
  <2>1. ls \in Store
    BY DEF ShellInv, Sound, Indexed
  <2> QED
    BY <2>1, MedianMiddle DEF MedianInMiddle, Shown
<1> QED
  BY <1>1, ShellAlways, PTL

-----------------------------------------------------------------------------
(* What load_log counts                                                    *)

InetRecords(v) == {n \in DOMAIN v : v[n].type = "inet6"}

DecodeRecords(v) == {n \in DOMAIN v : v[n].type = "decode" /\ v[n].buf}

InBlock(v, D, b) == {n \in D : v[n].block = b}

(* The counters are those of the frames P and the decoded frames D.        *)
Tallied(s, P, D) ==
  /\ P \subseteq DOMAIN s.v /\ D \subseteq Sequenced(s.v)
  /\ s.n_pkts = Cardinality(P) /\ s.n_frames = Cardinality(D)
  /\ \A j \in DOMAIN s.block_kvh :
       /\ s.block_kvh[j].n_h265_frame = Cardinality(InBlock(s.v, D, s.block_kvh[j].key))
       /\ s.block_kvh[j].has_lost_frame => s.block_kvh[j].n_h265_frame < s.fec_k

(* The records of a store with one record more.                            *)
OneLonger(v, w) ==
  w \in Seq(VRec) /\ Len(w) = Len(v) + 1 /\ \A n \in 1 .. Len(v) : w[n] = v[n]

(* The last record is the new one.                                         *)
LEMMA LongerTypes ==
  ASSUME NEW v \in Seq(VRec), NEW w, OneLonger(v, w)
  PROVE  /\ DOMAIN v = 1 .. Len(v) /\ Len(v) \in Nat /\ DOMAIN w = 1 .. Len(w)
         /\ DOMAIN w = DOMAIN v \cup {Len(w)} /\ Len(w) \notin DOMAIN v
         /\ \A n \in DOMAIN v : w[n] = v[n]
         /\ w[Len(w)] \in VRec
<1>1. DOMAIN v = 1 .. Len(v) /\ Len(v) \in Nat
  BY VTypes
<1>2. DOMAIN w = 1 .. Len(w) /\ w[Len(w)] \in VRec
  BY <1>1, VTypes DEF OneLonger
<1> QED
  BY <1>1, <1>2 DEF OneLonger

(* A record that is not counted changes no count.                          *)
LEMMA TallyGrown ==
  ASSUME NEW s, Indexed(s), NEW P, NEW D, Tallied(s, P, D), NEW u,
         OneLonger(s.v, u.v), CountersKept(s.block_kvh, u.block_kvh),
         u.n_pkts = s.n_pkts, u.n_frames = s.n_frames, u.fec_k = s.fec_k
  PROVE  Tallied(u, P, D)
<1>1. s.v \in Seq(VRec)
  BY StoreTypes DEF Indexed
<1>2. DOMAIN s.v \subseteq DOMAIN u.v /\ \A n \in DOMAIN s.v : u.v[n] = s.v[n]
  <2> DEFINE v == s.v
             w == u.v
  <2>1. v \in Seq(VRec) /\ OneLonger(v, w)
    BY <1>1
  <2> HIDE DEF v, w
  <2>2. DOMAIN w = DOMAIN v \cup {Len(w)} /\ \A n \in DOMAIN v : w[n] = v[n]
    BY <2>1, LongerTypes
  <2> QED
    BY <2>2 DEF v, w
<1>3. P \subseteq DOMAIN s.v /\ D \subseteq Sequenced(s.v) /\ Sequenced(s.v) \subseteq DOMAIN s.v
  BY DEF Tallied, Sequenced
<1>4. P \subseteq DOMAIN u.v /\ D \subseteq Sequenced(u.v)
  BY <1>2, <1>3 DEF Sequenced
<1>5. \A b : InBlock(u.v, D, b) = InBlock(s.v, D, b)
  BY <1>2, <1>3 DEF InBlock
<1>6. ASSUME NEW i \in DOMAIN u.block_kvh
      PROVE  /\ u.block_kvh[i].n_h265_frame = Cardinality(InBlock(s.v, D, u.block_kvh[i].key))
             /\ u.block_kvh[i].has_lost_frame => u.block_kvh[i].n_h265_frame < s.fec_k
  <2>1. CASE \E j \in DOMAIN s.block_kvh :
               /\ u.block_kvh[i].key = s.block_kvh[j].key
               /\ u.block_kvh[i].n_h265_frame = s.block_kvh[j].n_h265_frame
               /\ u.block_kvh[i].has_lost_frame = s.block_kvh[j].has_lost_frame
    BY <2>1 DEF Tallied
  <2>2. CASE /\ u.block_kvh[i].n_h265_frame = 0 /\ u.block_kvh[i].has_lost_frame = FALSE
             /\ \A j \in DOMAIN s.block_kvh : s.block_kvh[j].key # u.block_kvh[i].key
    <3>1. \A n \in Sequenced(s.v) : \E j \in DOMAIN s.block_kvh : s.block_kvh[j].key = s.v[n].block
      BY ListsOf
    <3>2. InBlock(s.v, D, u.block_kvh[i].key) = {}
      BY <1>3, <2>2, <3>1 DEF InBlock
    <3> QED
      BY <2>2, <3>2, FS_EmptySet
  <2> QED
    BY <2>1, <2>2 DEF CountersKept
<1> QED
  BY <1>4, <1>5, <1>6 DEF Tallied

(* Records are finitely many.                                              *)
LEMMA Finite ==
  ASSUME NEW s \in Store, NEW D, D \subseteq DOMAIN s.v
  PROVE  /\ IsFiniteSet(D) /\ Cardinality(D) \in Nat
         /\ \A n \in DOMAIN s.v \ D : Cardinality(D \cup {n}) = Cardinality(D) + 1
<1>1. DOMAIN s.v = 1 .. Len(s.v) /\ Len(s.v) \in Nat
  BY StoreTypes, VTypes
<1>2. IsFiniteSet(1 .. Len(s.v))
  BY <1>1, FS_Interval
<1>3. IsFiniteSet(D)
  BY <1>1, <1>2, FS_Subset
<1> QED
  BY <1>3, FS_CardinalityType, FS_AddElement

(* mark_inet6 counts the frame ...                                         *)
LEMMA TallyInet6 ==
  ASSUME NEW s, Indexed(s), NEW P, NEW D, Tallied(s, P, D), NEW n \in DOMAIN s.v, n \notin P,
         NEW u, u.v = s.v, u.n_pkts = s.n_pkts + 1, u.n_frames = s.n_frames,
         u.fec_k = s.fec_k,
         SameFrames(s.block_kvh, u.block_kvh)
  PROVE  Tallied(u, P \cup {n}, D)
<1>1. s \in Store /\ P \subseteq DOMAIN s.v
  BY DEF Indexed, Tallied
<1>2. Cardinality(P \cup {n}) = Cardinality(P) + 1
  BY <1>1, Finite
<1> QED
  BY <1>1, <1>2 DEF Tallied, SameFrames

(* ... and mark_h265 the decoded frame, also in its block.                 *)
LEMMA TallyH265 ==
  ASSUME NEW s, Indexed(s), NEW P, NEW D, Tallied(s, P, D), NEW n \in Sequenced(s.v), n \notin D,
         NEW u, u.v = s.v, u.n_pkts = s.n_pkts, u.n_frames = s.n_frames + 1,
         u.fec_k = s.fec_k, OneMore(s.block_kvh, u.block_kvh, s.v[n].block, s.fec_k)
  PROVE  Tallied(u, P, D \cup {n})
<1>1. s \in Store /\ D \subseteq DOMAIN s.v /\ n \in DOMAIN s.v
  BY DEF Indexed, Tallied, Sequenced
<1>2. Cardinality(D \cup {n}) = Cardinality(D) + 1
  BY <1>1, Finite
<1>3. ASSUME NEW j \in DOMAIN u.block_kvh
      PROVE  /\ u.block_kvh[j].n_h265_frame = Cardinality(InBlock(u.v, D \cup {n}, u.block_kvh[j].key))
             /\ u.block_kvh[j].has_lost_frame => u.block_kvh[j].n_h265_frame < s.fec_k
  <2> DEFINE old == s.block_kvh[j]
             new == u.block_kvh[j]
             B == InBlock(s.v, D, old.key)
  <2>1. j \in DOMAIN s.block_kvh /\ new.key = old.key
    BY DEF OneMore
  <2>2. /\ old.n_h265_frame = Cardinality(B)
        /\ old.has_lost_frame => old.n_h265_frame < s.fec_k
    BY <2>1 DEF Tallied
  <2>3. B \subseteq DOMAIN s.v /\ n \notin B
    BY <1>1 DEF InBlock
  <2>4. CASE old.key = s.v[n].block
    <3>1. InBlock(u.v, D \cup {n}, new.key) = B \cup {n}
      BY <2>1, <2>4 DEF InBlock
    <3>2. Cardinality(B \cup {n}) = Cardinality(B) + 1
      BY <1>1, <2>3, Finite
    <3>3. /\ new.n_h265_frame = old.n_h265_frame + 1
          /\ new.has_lost_frame => old.n_h265_frame + 1 < s.fec_k
      BY <2>1, <2>4 DEF OneMore
    <3> HIDE DEF B, old, new
    <3>4. new.n_h265_frame = Cardinality(B \cup {n})
      BY <2>2, <3>2, <3>3
    <3>5. new.has_lost_frame => new.n_h265_frame < s.fec_k
      BY <3>3
    <3> QED
      BY <3>1, <3>4, <3>5 DEF new
  <2>5. CASE old.key # s.v[n].block
    <3>1. InBlock(u.v, D \cup {n}, new.key) = B
      BY <2>1, <2>5 DEF InBlock
    <3>2. new.n_h265_frame = old.n_h265_frame /\ new.has_lost_frame = old.has_lost_frame
      BY <2>1, <2>5 DEF OneMore
    <3> QED
      BY <2>2, <3>1, <3>2
  <2> QED
    BY <2>4, <2>5
<1> QED
  BY <1>1, <1>2, <1>3 DEF Tallied

(* The types of records that log_v_alloc knows.                            *)
Known == {"inet6", "corrupt", "decode", "msg", "msg_debug"}

(* A record of a type that load_log knows: it is the last of the store,    *)
(* with what its header says, the counters are right if they were, and     *)
(* load_log goes on unless the data are not there.                         *)
LEMMA HeaderTaken ==
  ASSUME NEW s, Sound(s), Tallied(s, InetRecords(s.v), DecodeRecords(s.v)), ~s.ended,
         NEW r \in Chunk, r.kind = "head", r.type \in Known, NEW more \in BOOLEAN
  PROVE  LET u == ProcessFrameHeader(s, r, HasData(r) => more)
         IN  /\ Sound(u) /\ OneLonger(s.v, u.v) /\ Copies(u.v[Len(u.v)], r, more)
             /\ Tallied(u, InetRecords(u.v), DecodeRecords(u.v))
             /\ u.fec_k = s.fec_k /\ (u.ended <=> HasData(r) /\ ~more)
<1> DEFINE whole == HasData(r) => more
           a == VAlloc(s, r)
           t == ProcessPayload(a, whole)
           u == ProcessFrameHeader(s, r, whole)
           P == InetRecords(s.v)
           D == DecodeRecords(s.v)
<1>1. Sound(u)
  BY HeaderRead
<1>2. /\ Indexed(s) /\ Backed(s.v) /\ s.v \in Seq(VRec) /\ s \in Store
      /\ P \subseteq DOMAIN s.v /\ D \subseteq DOMAIN s.v
  BY StoreTypes DEF Sound, Indexed, InetRecords, DecodeRecords
<1>3. /\ Indexed(a) /\ a.v = Append(s.v, Fresh(r)) /\ a.ended = s.ended
      /\ a.n_pkts = s.n_pkts /\ a.n_frames = s.n_frames
      /\ a.fec_k = s.fec_k /\ CountersKept(s.block_kvh, a.block_kvh)
  BY <1>2, VAlloced
<1>4. Fresh(r) \in VRec
  BY FreshTypes
<1>5. /\ OneLonger(s.v, a.v) /\ a.v[Len(a.v)] = Fresh(r)
  <2> DEFINE v == s.v
             x == Fresh(r)
             w == a.v
  <2>1. v \in Seq(VRec) /\ x \in VRec /\ w = Append(v, x)
    BY <1>2, <1>3, <1>4
  <2> HIDE DEF v, x, w
  <2>2. /\ w \in Seq(VRec) /\ Len(w) = Len(v) + 1 /\ (\A n \in 1 .. Len(v) : w[n] = v[n])
        /\ w[Len(w)] = x
    BY <2>1
  <2> QED
    BY <2>2 DEF OneLonger, v, x, w
(* What the new record x adds to the two sets.                             *)
<1>6. ASSUME NEW w, OneLonger(s.v, w)
      PROVE  /\ Len(w) \notin P /\ Len(w) \notin D /\ Len(w) \in DOMAIN w
             /\ InetRecords(w) = IF w[Len(w)].type = "inet6" THEN P \cup {Len(w)} ELSE P
             /\ DecodeRecords(w) = IF w[Len(w)].type = "decode" /\ w[Len(w)].buf
                                   THEN D \cup {Len(w)} ELSE D
  <2> DEFINE v == s.v
             z == Len(w)
  <2>1. v \in Seq(VRec) /\ OneLonger(v, w)
    BY <1>2, <1>6
  <2> HIDE DEF v
  <2>2. /\ DOMAIN w = DOMAIN v \cup {z} /\ z \notin DOMAIN v
        /\ \A n \in DOMAIN v : w[n] = v[n]
    BY <2>1, LongerTypes
  <2> HIDE DEF z
  <2>3. InetRecords(w) = IF w[z].type = "inet6" THEN InetRecords(v) \cup {z} ELSE InetRecords(v)
    BY <2>2 DEF InetRecords
  <2>4. DecodeRecords(w) = IF w[z].type = "decode" /\ w[z].buf
                           THEN DecodeRecords(v) \cup {z} ELSE DecodeRecords(v)
    BY <2>2 DEF DecodeRecords
  <2>5. z \notin InetRecords(v) /\ z \notin DecodeRecords(v)
    BY <2>2 DEF InetRecords, DecodeRecords
  <2> QED
    BY <2>2, <2>3, <2>4, <2>5 DEF v, z
<1>7. Tallied(a, P, D)
  BY <1>2, <1>3, <1>5, TallyGrown
<1>8. CASE r.type \in {"inet6", "corrupt"}
  <2>0. ~HasData(r) /\ a.ended = FALSE
    BY <1>2, <1>3, <1>8, StoreTypes DEF HasData
  <2>1. Copies(a.v[Len(a.v)], r, more) /\ a.v[Len(a.v)].type = r.type
    BY <1>5, <2>0, FreshCopies, FreshTypes
  <2>2. /\ InetRecords(a.v) = IF r.type = "inet6" THEN P \cup {Len(a.v)} ELSE P
        /\ DecodeRecords(a.v) = D /\ Len(a.v) \notin P /\ Len(a.v) \in DOMAIN a.v
    BY <1>5, <1>6, <1>8, <2>1
  <2>3. CASE r.type = "corrupt"
    <3>1. u = a
      BY <2>3 DEF ProcessFrameHeader, Unknown, IsMessage
    <3> HIDE DEF a, u
    <3> QED
      BY <1>1, <1>3, <1>5, <1>7, <2>0, <2>1, <2>2, <2>3, <3>1 DEF u
  <2>4. CASE r.type = "inet6"
    <3>1. u = MarkInet6(a, r)
      BY <2>4 DEF ProcessFrameHeader, Unknown, IsMessage
    <3>2. Len(a.v) \in Sequenced(a.v)
      BY <2>1, <2>2, <2>4 DEF Sequenced, IsMessage
    <3>3. a.v[Len(a.v)].key = r.seq /\ a.v[Len(a.v)].block = r.block
      BY <2>1 DEF Copies
    <3> HIDE DEF a, u
    <3>4. /\ u.v = a.v /\ u.ended = a.ended /\ u.n_pkts = a.n_pkts + 1
          /\ u.n_frames = a.n_frames /\ u.fec_k = a.fec_k /\ SameFrames(a.block_kvh, u.block_kvh)
      BY <1>3, <3>1, <3>2, <3>3, MarkedInet6
    <3>5. Tallied(u, P \cup {Len(a.v)}, D)
      BY <1>3, <1>7, <2>2, <3>4, TallyInet6
    <3> QED
      BY <1>1, <1>3, <1>5, <2>0, <2>1, <2>2, <2>4, <3>4, <3>5 DEF u
  <2> QED
    BY <1>8, <2>3, <2>4
<1>9. CASE r.type \in {"decode", "msg", "msg_debug"}
  <2>0. HasData(r) /\ (whole <=> more) /\ a.ended = FALSE
    BY <1>2, <1>3, <1>9, StoreTypes DEF HasData
  <2>1. /\ Indexed(t) /\ Len(t.v) \in DOMAIN t.v
        /\ t.v[Len(t.v)].type = r.type /\ t.v[Len(t.v)].key = r.seq
        /\ t.v[Len(t.v)].block = r.block
        /\ Len(t.v) = Len(s.v) + 1 /\ (\A n \in 1 .. Len(s.v) : t.v[n] = s.v[n])
        /\ Copies(t.v[Len(t.v)], r, whole)
        /\ t.n_pkts = a.n_pkts /\ t.n_frames = a.n_frames /\ t.block_kvh = a.block_kvh
        /\ t.fec_k = a.fec_k /\ (t.ended <=> a.ended \/ ~whole)
    BY <1>2, <2>0, PayloadRead
  <2>2. OneLonger(s.v, t.v)
    BY <2>1, StoreTypes DEF OneLonger, Indexed
  <2>3. Copies(t.v[Len(t.v)], r, more) /\ (t.v[Len(t.v)].buf <=> more)
    BY <2>0, <2>1 DEF Copies
  <2>4. /\ InetRecords(t.v) = P /\ Len(t.v) \notin D
        /\ DecodeRecords(t.v) = IF r.type = "decode" /\ more THEN D \cup {Len(t.v)} ELSE D
    BY <1>6, <1>9, <2>1, <2>2, <2>3
  <2>5. Tallied(t, P, D)
    BY <1>2, <1>3, <2>1, <2>2, TallyGrown
  <2>6. t.ended <=> ~more
    BY <2>0, <2>1
  <2>7. CASE r.type # "decode" \/ ~more
    <3>1. u = t
      BY <1>9, <2>6, <2>7 DEF ProcessFrameHeader, Unknown, IsMessage
    <3> HIDE DEF t, u
    <3> QED
      BY <1>1, <1>3, <2>0, <2>1, <2>2, <2>3, <2>4, <2>5, <2>6, <2>7, <3>1 DEF u
  <2>8. CASE r.type = "decode" /\ more
    <3>1. u = MarkH265(t, r)
      BY <2>6, <2>8 DEF ProcessFrameHeader, Unknown, IsMessage
    <3>2. Len(t.v) \in Sequenced(t.v)
      BY <2>1, <2>8 DEF Sequenced, IsMessage
    <3> HIDE DEF t, u
    <3>3. /\ u.v = t.v /\ u.ended = t.ended /\ u.n_pkts = t.n_pkts
          /\ u.n_frames = t.n_frames + 1 /\ u.fec_k = t.fec_k
          /\ OneMore(t.block_kvh, u.block_kvh, r.block, t.fec_k)
      BY <2>1, <3>1, <3>2, MarkedH265
    <3>4. Tallied(u, P, D \cup {Len(t.v)})
      BY <2>1, <2>4, <2>5, <3>2, <3>3, TallyH265
    <3> QED
      BY <1>1, <1>3, <2>0, <2>1, <2>2, <2>3, <2>4, <2>6, <2>8, <3>3, <3>4 DEF u
  <2> QED
    BY <2>7, <2>8
<1> QED
  BY <1>8, <1>9 DEF Known

-----------------------------------------------------------------------------
(* Which chunk of the log each record of the store was read from           *)

Heads(log, i) == {k \in 1 .. i : log[k].kind = "head"}

Traces(log, i, v, pos) ==
  /\ pos \in [DOMAIN v -> Heads(log, i)]
  /\ \A m, n \in DOMAIN v : m # n => pos[m] # pos[n]
  /\ \A k \in Heads(log, i) : \E n \in DOMAIN v : pos[n] = k
  /\ \A n \in DOMAIN v : Copies(v[n], log[pos[n]], pos[n] < Len(log))

(* What every turn of load_log's loop keeps, of a log it knows.            *)
Turn(log, i, s) ==
  /\ Sound(s)
  /\ Tallied(s, InetRecords(s.v), DecodeRecords(s.v))
  /\ s.fec_k = log[1].fec_k
  /\ s.ended => i = Len(log)
  /\ \E pos : Traces(log, i, s.v, pos)

(* One record more, of the header at i.                                    *)
LEMMA TraceGrows ==
  ASSUME NEW log \in Seq(Chunk), NEW i \in 1 .. Len(log), log[i].kind = "head",
         NEW v \in Seq(VRec), NEW pos, Traces(log, i - 1, v, pos),
         NEW w, OneLonger(v, w), Copies(w[Len(w)], log[i], i < Len(log))
  PROVE  \E p : Traces(log, i, w, p)
<1> DEFINE z == Len(w)
           p == [n \in DOMAIN w |-> IF n = z THEN i ELSE pos[n]]
<1>1. /\ DOMAIN w = DOMAIN v \cup {z} /\ z \notin DOMAIN v
      /\ \A n \in DOMAIN v : w[n] = v[n]
  BY LongerTypes
<1>2. Len(log) \in Nat /\ i \in Nat /\ i >= 1
  OBVIOUS
<1>3. Heads(log, i) = Heads(log, i - 1) \cup {i} /\ i \notin Heads(log, i - 1)
  BY <1>2 DEF Heads
<1> HIDE DEF z
<1>4. /\ p[z] = i /\ \A n \in DOMAIN v : p[n] = pos[n]
      /\ DOMAIN p = DOMAIN w
  BY <1>1
<1>5. p \in [DOMAIN w -> Heads(log, i)]
  BY <1>1, <1>3, <1>4 DEF Traces
<1>6. \A n \in DOMAIN v : pos[n] \in Heads(log, i - 1)
  BY DEF Traces
<1> HIDE DEF p
<1>7. \A m, n \in DOMAIN w : m # n => p[m] # p[n]
  BY <1>1, <1>3, <1>4, <1>6 DEF Traces
<1>8. \A k \in Heads(log, i) : \E n \in DOMAIN w : p[n] = k
  BY <1>1, <1>3, <1>4 DEF Traces
<1>9. \A n \in DOMAIN w : Copies(w[n], log[p[n]], p[n] < Len(log))
  BY <1>1, <1>4 DEF Traces, z
<1> QED
  BY <1>5, <1>7, <1>8, <1>9 DEF Traces

(* A turn of the loop keeps it ...                                         *)
LEMMA TurnTaken ==
  ASSUME NEW log \in Seq(Chunk), NEW i \in 1 .. Len(log),
         log[i].kind = "head" => log[i].type \in Known,
         NEW s, Turn(log, i - 1, s)
  PROVE  Turn(log, i, LoadRecord(s, log, i))
<1>0. log[i] \in Chunk /\ Len(log) \in Nat /\ i \in Nat
  OBVIOUS
<1>1. ~s.ended /\ s.v \in Seq(VRec) /\ s.ended \in BOOLEAN
  BY <1>0, StoreTypes DEF Turn, Sound, Indexed
<1>2. PICK pos : Traces(log, i - 1, s.v, pos)
  BY DEF Turn
<1>3. CASE log[i].kind # "head"
  <2>1. LoadRecord(s, log, i) = s
    BY <1>3 DEF LoadRecord
  <2>2. Heads(log, i) = Heads(log, i - 1)
    BY <1>0, <1>3 DEF Heads
  <2>3. Traces(log, i, s.v, pos)
    BY <1>2, <2>2 DEF Traces
  <2> QED
    BY <1>1, <2>1, <2>3 DEF Turn
<1>4. CASE log[i].kind = "head"
  <2> DEFINE r == log[i]
             more == i < Len(log)
             u == ProcessFrameHeader(s, r, HasData(r) => more)
  <2>1. LoadRecord(s, log, i) = u
    BY <1>4 DEF LoadRecord
  <2>2. r \in Chunk /\ r.kind = "head" /\ r.type \in Known /\ more \in BOOLEAN
    BY <1>0, <1>4
  <2>3. (~more) => i = Len(log)
    BY <1>0
  <2> HIDE DEF r, more
  <2>4. /\ Sound(u) /\ OneLonger(s.v, u.v) /\ Copies(u.v[Len(u.v)], r, more)
        /\ Tallied(u, InetRecords(u.v), DecodeRecords(u.v))
        /\ u.fec_k = s.fec_k /\ (u.ended <=> HasData(r) /\ ~more)
    BY <1>1, <2>2, HeaderTaken DEF Turn
  <2> HIDE DEF u
  <2>5. \E p : Traces(log, i, u.v, p)
    <3> DEFINE v == s.v
               w == u.v
    <3>1. v \in Seq(VRec) /\ OneLonger(v, w) /\ Traces(log, i - 1, v, pos)
      BY <1>1, <1>2, <2>4
    <3>2. Copies(w[Len(w)], log[i], i < Len(log))
      BY <2>4 DEF r, more
    <3> HIDE DEF v, w
    <3>3. \E p : Traces(log, i, w, p)
      BY <1>4, <3>1, <3>2, TraceGrows
    <3> QED
      BY <3>3 DEF w
  <2> QED
    BY <2>1, <2>3, <2>4, <2>5 DEF Turn
<1> QED
  BY <1>3, <1>4

(* ... and it holds before the first.                                      *)
LEMMA FirstTurn ==
  ASSUME NEW log \in Seq(Chunk), log # <<>>
  PROVE  Turn(log, 0, ProcessFileHeader(log))
<1> DEFINE s == ProcessFileHeader(log)
           k == log[1].fec_k
<1>0. k \in Nat /\ s = [NewStore EXCEPT !.fec_k = k]
  <2>1. log[1] \in Chunk
    OBVIOUS
  <2>2. k \in Nat
    BY <2>1 DEF Chunk
  <2> QED
    BY <2>2 DEF ProcessFileHeader
<1> HIDE DEF k, s
<1>1. Sound(s)
  BY <1>0, NewSound
<1>2. /\ s.v = <<>> /\ s.block_kvh = <<>> /\ s.n_pkts = 0 /\ s.n_frames = 0 /\ s.ended = FALSE
      /\ s.fec_k = log[1].fec_k
  BY <1>0, NewFields DEF k
<1> HIDE DEF s
<1>3. DOMAIN s.v = {} /\ DOMAIN s.block_kvh = {}
  BY <1>2
<1>4. InetRecords(s.v) = {} /\ DecodeRecords(s.v) = {}
  BY <1>3 DEF InetRecords, DecodeRecords
<1>5. Tallied(s, InetRecords(s.v), DecodeRecords(s.v))
  BY <1>2, <1>3, <1>4, FS_EmptySet DEF Tallied
<1>6. Heads(log, 0) = {}
  BY DEF Heads
<1>7. Traces(log, 0, s.v, [n \in {} |-> 0])
  BY <1>3, <1>6 DEF Traces
<1> QED
  BY <1>1, <1>2, <1>5, <1>7 DEF Turn, s

(* load_log, of a log whose records it knows: the store has a record for   *)
(* every header, with what the header says, and the counts are right.      *)
LEMMA LogTraced ==
  ASSUME NEW log \in Seq(Chunk), ValidSignature(log),
         \A i \in 1 .. Len(log) : log[i].kind = "head" => log[i].type \in Known
  PROVE  LET s == LoadLog(log)
         IN  /\ Sound(s) /\ s \in Store
             /\ Tallied(s, InetRecords(s.v), DecodeRecords(s.v))
             /\ s.fec_k = log[1].fec_k
             /\ \E pos : Traces(log, Len(log), s.v, pos)
<1> DEFINE L == Loaded(log)
           Bad == {i \in 0 .. Len(log) : ~ Turn(log, i, L[i])}
<1>1. Len(log) \in Nat
  OBVIOUS
<1>2. \A i \in 0 .. Len(log) :
        L[i] = IF i = 0 THEN ProcessFileHeader(log) ELSE LoadRecord(L[i - 1], log, i)
  BY <1>1, LoadedBy
<1> HIDE DEF L
<1>3. Bad = {}
  <2> SUFFICES ASSUME Bad # {} PROVE FALSE
    OBVIOUS
  <2>1. Bad \subseteq Nat
    BY <1>1
  <2>2. PICK n \in Bad : \A m \in Bad : n <= m
    BY <2>1, LeastNat
  <2>3. n # 0
    BY <1>1, <1>2, <2>2, FirstTurn DEF ValidSignature
  <2>4. n \in 1 .. Len(log) /\ n - 1 \in 0 .. Len(log) /\ n - 1 \notin Bad
    BY <1>1, <2>2, <2>3
  <2>5. Turn(log, n - 1, L[n - 1]) /\ L[n] = LoadRecord(L[n - 1], log, n) /\ ~Turn(log, n, L[n])
    BY <1>2, <2>2, <2>3, <2>4
  <2> QED
    BY <2>4, <2>5, TurnTaken
<1>4. Turn(log, Len(log), L[Len(log)])
  BY <1>1, <1>3
<1> DEFINE t == L[Len(log)]
           s == [t EXCEPT !.ended = FALSE]
<1>5. LoadLog(log) = s
  BY DEF LoadLog, L
<1>6. Sound(s) /\ s \in Store
  BY <1>4, EndedKeeps DEF Turn, Sound, Indexed
<1>7. t \in Store /\ Turn(log, Len(log), t)
  BY <1>4 DEF Turn, Sound, Indexed
<1> HIDE DEF t
<1>8. s.v = t.v /\ s.block_kvh = t.block_kvh /\ s.n_pkts = t.n_pkts /\ s.n_frames = t.n_frames
      /\ s.fec_k = t.fec_k
  BY <1>7 DEF Store
<1> HIDE DEF s
<1>9. Tallied(s, InetRecords(s.v), DecodeRecords(s.v))
  BY <1>7, <1>8 DEF Turn, Tallied
<1>10. \E pos : Traces(log, Len(log), s.v, pos)
  BY <1>7, <1>8 DEF Turn
<1>11. s.fec_k = log[1].fec_k
  BY <1>7, <1>8 DEF Turn
<1> QED
  BY <1>5, <1>6, <1>9, <1>10, <1>11

-----------------------------------------------------------------------------
(* What the logs of a listener hold                                        *)

(* c is the header of a record of a type.                                  *)
Is(c, type) == c.kind = "head" /\ c.type = type

(* A frame is where its block and its fragment say, in a session's code.   *)
Placed(c, code) ==
  c.block \in Nat /\ c.frag \in 0 .. code.n - 1 /\ c.seq = Seq2Key(code, c.block, c.frag)

SameFragment(c, d) == c.block = d.block /\ c.frag = d.frag

(* The log has decoded fragment f of block b.                              *)
Decoded(log, b, f) ==
  \E i \in 1 .. Len(log) : Is(log[i], "decode") /\ log[i].block = b /\ log[i].frag = f

(* A log of sessions in which sent was delivered: the first session's code *)
(* in the file header, known records, the data of a record after it, and   *)
(* what was delivered with a payload.  In a log of one session a fragment  *)
(* is decoded once, and its key tells which it is.                         *)
Recorded(log, codes, sent) ==
  /\ \A i \in 1 .. Len(log) : log[i].kind = "file" => log[i].fec_k = codes[1].k
  /\ \A i \in 1 .. Len(log) : log[i].kind = "head" => log[i].type \in Known
  /\ \A i \in 1 .. Len(log) : log[i].kind = "data" =>
       i > 1 /\ HasData(log[i - 1]) /\ log[i] = Payload(log[i - 1])
  /\ \A j, b, f : <<j, b, f, TRUE>> \in sent => Decoded(log, b, f)
  /\ \A b, f : Decoded(log, b, f) => \E j \in 1 .. Len(codes) : <<j, b, f, TRUE>> \in sent
  /\ Len(codes) = 1 => \A i \in 1 .. Len(log) :
       Is(log[i], "decode") => Placed(log[i], codes[1])
  /\ Len(codes) = 1 => \A i, j \in 1 .. Len(log) :
       i # j /\ Is(log[i], "decode") /\ Is(log[j], "decode") => ~SameFragment(log[i], log[j])

(* Chunk c may come next, after which more is delivered.                   *)
Fits(log, codes, sent, c, more) ==
  /\ c.kind = "file" => c.fec_k = codes[1].k
  /\ c.kind = "head" => c.type \in Known
  /\ c.kind = "data" =>
       log # <<>> /\ HasData(log[Len(log)]) /\ c = Payload(log[Len(log)])
  /\ sent \subseteq more
  /\ \A j, b, f : <<j, b, f, TRUE>> \in more =>
       <<j, b, f, TRUE>> \in sent \/ (Is(c, "decode") /\ c.block = b /\ c.frag = f)
  /\ Is(c, "decode") => \E j \in 1 .. Len(codes) : <<j, c.block, c.frag, TRUE>> \in more
  /\ Len(codes) = 1 /\ Is(c, "decode") =>
       /\ Placed(c, codes[1])
       /\ \A i \in 1 .. Len(log) : Is(log[i], "decode") => ~SameFragment(log[i], c)

(* A record that is not the open log's last is whole, unless the listener  *)
(* was killed.                                                             *)
Complete(log) == log = <<>> \/ ~HasData(log[Len(log)])

RecordInv ==
  /\ DOMAIN delivered = DOMAIN logs
  /\ \A n \in DOMAIN logs : Recorded(logs[n], sessions[n], delivered[n])
  /\ \A n \in DOMAIN logs : n # fp /\ n \notin torn => Complete(logs[n])
  /\ fp # NoLog /\ logs[fp] = <<>> => pending["net"][1].fec_k = sessions[fp][1].k
  /\ ~running => fp = NoLog

(* One chunk more keeps a log such a log.                                  *)
LEMMA RecordedMore ==
  ASSUME NEW log \in Seq(Chunk), NEW codes, NEW sent, Recorded(log, codes, sent),
         NEW c \in Chunk, NEW more, Fits(log, codes, sent, c, more)
  PROVE  Recorded(Append(log, c), codes, more)
<1> DEFINE new == Append(log, c)
           z == Len(log) + 1
<1>1. /\ Len(new) = z /\ Len(log) \in Nat /\ new[z] = c
      /\ \A i \in 1 .. Len(log) : new[i] = log[i]
      /\ log # <<>> => Len(log) # 0
  OBVIOUS
<1> HIDE DEF new
<1>2. \A i \in 1 .. Len(new) : i \in 1 .. Len(log) \/ i = z
  BY <1>1
<1>3. \A i \in 1 .. Len(new) :
        /\ new[i].kind = "file" => new[i].fec_k = codes[1].k
        /\ new[i].kind = "head" => new[i].type \in Known
  BY <1>1, <1>2 DEF Recorded, Fits
<1>4. ASSUME NEW i \in 1 .. Len(new), new[i].kind = "data"
      PROVE  i > 1 /\ HasData(new[i - 1]) /\ new[i] = Payload(new[i - 1])
  <2>1. CASE i = z
    <3>1. log # <<>> /\ HasData(log[Len(log)]) /\ c = Payload(log[Len(log)])
      BY <1>1, <1>4, <2>1 DEF Fits
    <3>2. i > 1 /\ i - 1 = Len(log) /\ new[i - 1] = log[Len(log)]
      BY <1>1, <2>1, <3>1
    <3> QED
      BY <1>1, <2>1, <3>1, <3>2
  <2>2. CASE i \in 1 .. Len(log)
    <3>1. i > 1 /\ HasData(log[i - 1]) /\ log[i] = Payload(log[i - 1])
      BY <1>1, <1>4, <2>2 DEF Recorded
    <3>2. new[i - 1] = log[i - 1]
      BY <1>1, <2>2, <3>1
    <3> QED
      BY <1>1, <2>2, <3>1, <3>2
  <2> QED
    BY <1>2, <2>1, <2>2
<1>5. ASSUME Len(codes) = 1, NEW i \in 1 .. Len(new), Is(new[i], "decode")
      PROVE  Placed(new[i], codes[1])
  BY <1>1, <1>2, <1>5 DEF Recorded, Fits
<1>6. ASSUME Len(codes) = 1, NEW i \in 1 .. Len(new), NEW j \in 1 .. Len(new), i # j,
             Is(new[i], "decode"), Is(new[j], "decode")
      PROVE  ~SameFragment(new[i], new[j])
  <2>1. ASSUME NEW x \in 1 .. Len(log), NEW y \in 1 .. Len(log), x # y,
               Is(log[x], "decode"), Is(log[y], "decode")
        PROVE  ~SameFragment(log[x], log[y])
    BY <1>6, <2>1 DEF Recorded
  <2>2. ASSUME NEW x \in 1 .. Len(log), Is(log[x], "decode"), Is(c, "decode")
        PROVE  ~SameFragment(log[x], c) /\ ~SameFragment(c, log[x])
    BY <1>6, <2>2 DEF Fits, SameFragment
  <2> QED
    BY <1>1, <1>2, <1>6, <2>1, <2>2
<1>7. \A b, f : Decoded(new, b, f)
        <=> Decoded(log, b, f) \/ (Is(c, "decode") /\ c.block = b /\ c.frag = f)
  <2> SUFFICES ASSUME NEW b, NEW f
               PROVE  Decoded(new, b, f)
                        <=> Decoded(log, b, f) \/ (Is(c, "decode") /\ c.block = b /\ c.frag = f)
    OBVIOUS
  <2>1. z \in 1 .. Len(new) /\ \A i \in 1 .. Len(log) : i \in 1 .. Len(new)
    BY <1>1
  <2> HIDE DEF z
  <2> QED
    BY <1>1, <1>2, <2>1 DEF Decoded
<1>8. ASSUME NEW j, NEW b, NEW f, <<j, b, f, TRUE>> \in more
      PROVE  Decoded(new, b, f)
  <2>1. <<j, b, f, TRUE>> \in sent \/ (Is(c, "decode") /\ c.block = b /\ c.frag = f)
    BY Zenon, <1>8 DEF Fits
  <2>2. <<j, b, f, TRUE>> \in sent => Decoded(log, b, f)
    BY Zenon DEF Recorded
  <2> QED
    BY <1>7, <2>1, <2>2
<1>9. ASSUME NEW b, NEW f, Decoded(new, b, f)
      PROVE  \E j \in 1 .. Len(codes) : <<j, b, f, TRUE>> \in more
  <2>1. CASE Decoded(log, b, f)
    <3>1. \E j \in 1 .. Len(codes) : <<j, b, f, TRUE>> \in sent
      BY Zenon, <2>1 DEF Recorded
    <3>2. sent \subseteq more
      BY DEF Fits
    <3> QED
      BY <3>1, <3>2
  <2>2. CASE Is(c, "decode") /\ c.block = b /\ c.frag = f
    BY <2>2 DEF Fits
  <2> QED
    BY <1>7, <1>9, <2>1, <2>2
<1>10. Recorded(new, codes, more)
  BY <1>3, <1>4, <1>5, <1>6, <1>8, <1>9 DEF Recorded
<1> QED
  BY <1>10 DEF new

(* A step that writes a chunk to the open log.                             *)
LEMMA RecordWritten ==
  ASSUME LogInv, RecordInv, fp # NoLog, UNCHANGED <<fp, sessions, torn, running>>,
         NEW c \in Chunk, logs' = [logs EXCEPT ![fp] = Append(@, c)],
         DOMAIN delivered' = DOMAIN delivered,
         \A n \in DOMAIN delivered : n # fp => delivered'[n] = delivered[n],
         Fits(logs[fp], sessions[fp], delivered[fp], c, delivered'[fp])
  PROVE  RecordInv'
<1>1. /\ DOMAIN logs' = DOMAIN logs /\ fp \in DOMAIN logs
      /\ logs'[fp] = Append(logs[fp], c) /\ logs'[fp] # <<>>
      /\ \A n \in DOMAIN logs : n # fp => logs'[n] = logs[n]
  BY ChunkWritten DEF LogInv
<1>2. logs[fp] \in Seq(Chunk)
  BY <1>1 DEF LogInv, LogTypes
<1>3. Recorded(logs'[fp], sessions[fp], delivered'[fp])
  BY <1>1, <1>2, RecordedMore DEF RecordInv
<1>4. \A n \in DOMAIN logs : Recorded(logs'[n], sessions[n], delivered'[n])
  BY <1>1, <1>3 DEF RecordInv
<1>5. \A n \in DOMAIN logs : n # fp /\ n \notin torn => Complete(logs'[n])
  BY <1>1 DEF RecordInv
<1> QED
  BY <1>1, <1>4, <1>5 DEF RecordInv

(* h is the header of a frame.                                             *)
HeadOf(h, type, seq, block, frag) ==
  /\ h \in Chunk /\ h.kind = "head" /\ h.type = type /\ h.seq = seq
  /\ h.block = block /\ h.frag = frag

(* The fields rx_log_frame fills in ...                                    *)
LEMMA FrameFields ==
  ASSUME NEW type \in Types, NEW seq \in Int, NEW block \in Int, NEW frag \in Int,
         NEW dbm \in Int, NEW src \in Mirrors \cup {"none", "capture"}
  PROVE  HeadOf([Header(type) EXCEPT !.seq = seq, !.block = block,
                   !.frag = frag, !.dbm = dbm, !.src = src], type, seq, block, frag)
<1> DEFINE c == Header(type)
<1>1. c \in Chunk /\ c.kind = "head" /\ c.type = type
  BY ChunkTypes
<1> HIDE DEF c
<1> DEFINE h == [c EXCEPT !.seq = seq, !.block = block, !.frag = frag, !.dbm = dbm, !.src = src]
<1>2. /\ h \in Chunk /\ h.kind = "head" /\ h.type = type /\ h.seq = seq
      /\ h.block = block /\ h.frag = frag
  BY <1>1 DEF Chunk
<1> QED
  BY <1>2 DEF c, HeadOf

(* ... and rx_log_decode.                                                  *)
LEMMA DecodeFields ==
  ASSUME NEW type \in Types, NEW seq \in Int, NEW block \in Int, NEW frag \in Int,
         NEW dbm \in Int
  PROVE  HeadOf([Header(type) EXCEPT !.seq = seq, !.block = block,
                   !.frag = frag, !.dbm = dbm], type, seq, block, frag)
<1> DEFINE c == Header(type)
<1>1. c \in Chunk /\ c.kind = "head" /\ c.type = type
  BY ChunkTypes
<1> HIDE DEF c
<1> DEFINE h == [c EXCEPT !.seq = seq, !.block = block, !.frag = frag, !.dbm = dbm]
<1>2. /\ h \in Chunk /\ h.kind = "head" /\ h.type = type /\ h.seq = seq
      /\ h.block = block /\ h.frag = frag
  BY <1>1 DEF Chunk
<1> QED
  BY <1>2 DEF c, HeadOf

(* h is a header.                                                          *)
HeadFor(h, type) == h \in Chunk /\ h.kind = "head" /\ h.type = type

(* Those of rx_log_hook and rx_log_corrupt.                                *)
LEMMA PlainFields ==
  ASSUME NEW type \in Types, NEW x \in Int
  PROVE  /\ HeadFor([Header(type) EXCEPT !.seq = x], type)
         /\ HeadFor([Header(type) EXCEPT !.dbm = x], type)
<1> DEFINE c == Header(type)
<1>1. c \in Chunk /\ c.kind = "head" /\ c.type = type
  BY ChunkTypes
<1> HIDE DEF c
<1>2. HeadFor([c EXCEPT !.seq = x], type)
  BY <1>1 DEF Chunk, HeadFor
<1>3. HeadFor([c EXCEPT !.dbm = x], type)
  BY <1>1 DEF Chunk, HeadFor
<1> QED
  BY <1>2, <1>3 DEF c

(* A header that delivers nothing.                                         *)
LEMMA PlainFits ==
  ASSUME NEW log, NEW codes, NEW sent, NEW c, c.kind = "head",
         c.type \in {"inet6", "msg", "corrupt"}
  PROVE  Fits(log, codes, sent, c, sent)
BY DEF Fits, Known, Is

(* Frames, notices and messages deliver nothing.                           *)
LEMMA PlainRecorded ==
  ASSUME LogInv, ChunkInv, RecordInv, ~Debug, ~Captures,
         LogFrame \/ LogCorrupt \/ Message("net")
  PROVE  RecordInv'
<1>1. PICK head \in Chunk :
        /\ head.kind = "head" /\ head.type \in {"inet6", "msg", "corrupt"}
        /\ logs' = [logs EXCEPT ![fp] = Append(@, head)]
  <2>1. "msg" \in Types /\ "corrupt" \in Types /\ "inet6" \in Types
    BY DEF Types
  <2>2. \A src \in Sources : \A dbm \in Dbms[src] : dbm \in Int
    BY RxLogAssumption
  <2>3. CASE LogFrame
    <3>1. PICK b \in Blocks, f \in 0 .. Session.n - 1, src \in Sources :
             \E dbm \in Dbms[src] :
               Emit("net", Append(<<>>,
                 [Header(FrameType(src)) EXCEPT !.seq = Seq2Key(Session, b, f), !.block = b,
                    !.frag = f, !.dbm = dbm, !.src = src]))
      BY <2>3 DEF LogFrame, DebugRecord
    <3>2. PICK dbm \in Dbms[src] :
               Emit("net", Append(<<>>,
                 [Header(FrameType(src)) EXCEPT !.seq = Seq2Key(Session, b, f), !.block = b,
                    !.frag = f, !.dbm = dbm, !.src = src]))
      BY <3>1
    <3>3. b \in Int /\ f \in Int /\ Seq2Key(Session, b, f) \in Int /\ dbm \in Int
      <4>1. Session.n \in Nat
        BY <2>3, CurrentSession DEF LogFrame
      <4> QED
        BY <2>2, <4>1, RxLogAssumption DEF Seq2Key
    <3>4. FrameType(src) = "inet6" /\ src \in Mirrors \cup {"none", "capture"}
      BY RxLogAssumption DEF FrameType, Sources
    <3> DEFINE head == [Header(FrameType(src)) EXCEPT !.seq = Seq2Key(Session, b, f),
                          !.block = b, !.frag = f, !.dbm = dbm, !.src = src]
    <3>5. HeadOf(head, FrameType(src), Seq2Key(Session, b, f), b, f)
      <4>1. FrameType(src) \in Types
        BY <2>1, <3>4
      <4> QED
        BY <3>3, <3>4, <4>1, FrameFields
    <3> HIDE DEF head
    <3>6. head \in Chunk /\ head.kind = "head" /\ head.type = "inet6"
      BY <3>4, <3>5 DEF HeadOf
    <3>7. Append(<<>>, head)[1] = head
      OBVIOUS
    <3>8. logs' = [logs EXCEPT ![fp] = Append(@, head)]
      BY <3>2, <3>7 DEF Emit, head
    <3> QED
      BY <3>6, <3>8
  <2>4. CASE LogCorrupt
    <3>1. PICK src \in Sources : \E dbm \in Dbms[src] :
            Emit("net", <<[Header("corrupt") EXCEPT !.dbm = dbm]>>)
      BY <2>4 DEF LogCorrupt
    <3>2. PICK dbm \in Dbms[src] : Emit("net", <<[Header("corrupt") EXCEPT !.dbm = dbm]>>)
      BY <3>1
    <3> DEFINE head == [Header("corrupt") EXCEPT !.dbm = dbm]
    <3>3. HeadFor(head, "corrupt")
      <4>1. dbm \in Int
        BY <2>2
      <4> QED
        BY <2>1, <4>1, PlainFields
    <3> HIDE DEF head
    <3>4. logs' = [logs EXCEPT ![fp] = Append(@, head)]
      BY <3>2 DEF Emit, head
    <3> QED
      BY <3>3, <3>4 DEF HeadFor
  <2>5. CASE Message("net")
    <3>1. msgSeq \in Int
      BY DEF LogInv, LogTypes
    <3> DEFINE head == [Header("msg") EXCEPT !.seq = msgSeq]
    <3>2. HeadFor(head, "msg")
      BY <2>1, <3>1, PlainFields
    <3>3. Emit("net", <<head, Payload(head)>>)
      BY <2>5 DEF Message, MessageRecord
    <3> HIDE DEF head
    <3>4. logs' = [logs EXCEPT ![fp] = Append(@, head)]
      BY <3>3 DEF Emit
    <3> QED
      BY <3>2, <3>4 DEF HeadFor
  <2> QED
    BY <2>3, <2>4, <2>5
<1>2. fp # NoLog /\ UNCHANGED <<fp, sessions, torn, running, delivered>>
  BY DEF LogFrame, LogCorrupt, Message
<1>3. Fits(logs[fp], sessions[fp], delivered[fp], head, delivered'[fp])
  BY <1>1, <1>2, PlainFits
<1> QED
  BY <1>1, <1>2, <1>3, RecordWritten

(* The data of a record follow their header.                               *)
LEMMA WriteRecorded ==
  ASSUME LogInv, RecordInv, Write("net")
  PROVE  RecordInv'
<1>1. /\ pending["net"] # <<>> /\ fp # NoLog
      /\ UNCHANGED <<fp, sessions, torn, running, delivered>>
  BY DEF Write, LogInv, Shape
<1>2. Midway(logs[fp], pending["net"]) /\ logs[fp] \in Seq(Chunk) /\ fp \in DOMAIN logs
  BY <1>1 DEF LogInv, Shape, LogTypes
<1>3. PICK c \in Chunk :
        /\ pending["net"] = <<c>>
        /\ \/ c.kind = "file" /\ c.fec_k = sessions[fp][1].k
           \/ /\ c.kind = "data" /\ logs[fp] # <<>> /\ HasData(logs[fp][Len(logs[fp])])
              /\ c = Payload(logs[fp][Len(logs[fp])])
  <2>1. CASE logs[fp] = <<>> /\ \E code \in Codes : pending["net"] = <<FileHeader(code)>>
    <3>1. PICK code \in Codes : pending["net"] = <<FileHeader(code)>>
      BY <2>1
    <3> DEFINE c == FileHeader(code)
    <3>2. c \in Chunk /\ c.kind = "file" /\ pending["net"] = <<c>>
      BY <3>1, ChunkTypes
    <3> HIDE DEF c
    <3>3. pending["net"][1] = c
      BY <3>2
    <3>4. c.fec_k = sessions[fp][1].k
      BY <1>1, <2>1, <3>3 DEF RecordInv
    <3> QED
      BY <3>2, <3>4
  <2>2. CASE /\ pending["net"] = <<Payload(logs[fp][Len(logs[fp])])>>
             /\ logs[fp] # <<>> /\ HasData(logs[fp][Len(logs[fp])])
    <3>1. logs[fp][Len(logs[fp])] \in Chunk
      BY <1>2, <2>2
    <3> QED
      BY <2>2, <3>1, ChunkTypes
  <2> QED
    BY <1>1, <1>2, <2>1, <2>2 DEF Midway
<1>4. logs' = [logs EXCEPT ![fp] = Append(@, c)]
  <2>1. pending["net"][1] = c
    BY <1>3
  <2> QED
    BY <2>1 DEF Write
<1>5. Fits(logs[fp], sessions[fp], delivered[fp], c, delivered'[fp])
  BY <1>1, <1>3 DEF Fits, Is
<1> QED
  BY <1>1, <1>4, <1>5, RecordWritten

(* The receiver delivers a fragment once in a session: its record is the   *)
(* first of that session.                                                  *)
LEMMA DeliverRecorded ==
  ASSUME LogInv, ChunkInv, RecordInv, ~Debug, Deliver
  PROVE  RecordInv'
<1>1. fp # NoLog /\ UNCHANGED <<fp, sessions, torn, running>> /\ fp \in DOMAIN logs
      /\ fp \in DOMAIN delivered
  BY DEF Deliver, LogInv, LogTypes, RecordInv
<1>2. PICK b \in Blocks, f \in 0 .. Session.k - 1 :
        LET head == [Header("decode") EXCEPT !.seq = Seq2Key(Session, b, f), !.block = b,
                       !.frag = f, !.dbm = DbmInval]
        IN
        /\ \A d \in delivered[fp] : d[1] = Current /\ d[2] = b => d[3] < f
        /\ \/ /\ Emit("net", DebugRecord \o <<head, Payload(head)>>)
              /\ delivered' = [delivered EXCEPT ![fp] = @ \cup {<<Current, b, f, TRUE>>}]
           \/ /\ UNCHANGED <<logs, pending>>
              /\ delivered' = [delivered EXCEPT ![fp] = @ \cup {<<Current, b, f, FALSE>>}]
  BY DEF Deliver
<1> DEFINE seq == Seq2Key(Session, b, f)
           head == [Header("decode") EXCEPT !.seq = seq, !.block = b,
                      !.frag = f, !.dbm = DbmInval]
           codes == sessions[fp]
           log == logs[fp]
           sent == delivered[fp]
           me == Current
<1>3. /\ Session.k \in Nat /\ Session.n \in Nat /\ Session.k <= Session.n
      /\ me \in 1 .. Len(codes) /\ me = Len(codes) /\ Session = codes[me]
  <2>1. codes \in Seq(SessionRec)
    BY <1>1 DEF ChunkInv
  <2>2. DOMAIN codes = 1 .. Len(codes)
    BY <2>1
  <2> QED
    BY <1>1, <2>2, CurrentSession
<1>4. b \in Int /\ f \in Int /\ seq \in Int /\ DbmInval \in Int /\ b \in Nat
  BY <1>3, RxLogAssumption DEF Seq2Key, DbmInval
<1>5. /\ head \in Chunk /\ head.kind = "head" /\ head.type = "decode"
      /\ head.seq = seq /\ head.block = b /\ head.frag = f
  <2>1. "decode" \in Types
    BY DEF Types
  <2> HIDE DEF seq
  <2>2. HeadOf(head, "decode", seq, b, f)
    BY <1>4, <2>1, DecodeFields
  <2> HIDE DEF head
  <2> QED
    BY <2>2 DEF HeadOf
<1>6. \/ /\ Emit("net", DebugRecord \o <<head, Payload(head)>>)
         /\ delivered' = [delivered EXCEPT ![fp] = @ \cup {<<me, b, f, TRUE>>}]
      \/ /\ UNCHANGED <<logs, pending>>
         /\ delivered' = [delivered EXCEPT ![fp] = @ \cup {<<me, b, f, FALSE>>}]
  BY <1>2
<1>7. \A d \in sent : d[1] = me /\ d[2] = b => d[3] < f
  BY <1>2
<1>8. Recorded(log, codes, sent)
  BY <1>1 DEF RecordInv
<1> HIDE DEF head, me
<1>9. CASE /\ UNCHANGED <<logs, pending>>
           /\ delivered' = [delivered EXCEPT ![fp] = @ \cup {<<me, b, f, FALSE>>}]
  <2>1. /\ DOMAIN delivered' = DOMAIN delivered
        /\ \A n \in DOMAIN delivered : n # fp => delivered'[n] = delivered[n]
        /\ delivered'[fp] = delivered[fp] \cup {<<me, b, f, FALSE>>}
    BY <1>1, <1>9
  <2>2. \A j, x, y : <<j, x, y, TRUE>> \in delivered'[fp] <=> <<j, x, y, TRUE>> \in delivered[fp]
    <3>1. \A j, x, y : <<j, x, y, TRUE>> # <<me, b, f, FALSE>>
      <4> SUFFICES ASSUME NEW j, NEW x, NEW y, <<j, x, y, TRUE>> = <<me, b, f, FALSE>> PROVE FALSE
        OBVIOUS
      <4>1. <<j, x, y, TRUE>>[4] = TRUE /\ <<me, b, f, FALSE>>[4] = FALSE
        BY Zenon
      <4> QED
        BY <4>1
    <3> QED
      BY <2>1, <3>1
  <2>3. Recorded(log, codes, delivered'[fp])
    BY <1>8, <2>2 DEF Recorded
  <2>4. \A n \in DOMAIN logs : Recorded(logs[n], sessions[n], delivered'[n])
    BY <2>1, <2>3 DEF RecordInv
  <2> QED
    BY <1>1, <1>9, <2>1, <2>4 DEF RecordInv
<1>10. CASE /\ Emit("net", DebugRecord \o <<head, Payload(head)>>)
            /\ delivered' = [delivered EXCEPT ![fp] = @ \cup {<<me, b, f, TRUE>>}]
  <2>1. Payload(head) \in Chunk
    BY <1>5, ChunkTypes
  <2>2. DebugRecord \o <<head, Payload(head)>> = <<head, Payload(head)>>
    BY <1>5, <2>1 DEF DebugRecord
  <2>3. logs' = [logs EXCEPT ![fp] = Append(@, head)]
    <3>1. Emit("net", <<head, Payload(head)>>)
      BY <1>10, <2>2
    <3> QED
      BY <3>1 DEF Emit
  <2>4. /\ DOMAIN delivered' = DOMAIN delivered
        /\ \A n \in DOMAIN delivered : n # fp => delivered'[n] = delivered[n]
        /\ delivered'[fp] = delivered[fp] \cup {<<me, b, f, TRUE>>}
    BY <1>1, <1>10
  <2>5. <<me, b, f, TRUE>> \notin sent
    <3> SUFFICES ASSUME <<me, b, f, TRUE>> \in sent PROVE FALSE
      OBVIOUS
    <3> DEFINE d == <<me, b, f, TRUE>>
    <3>1. d[1] = me /\ d[2] = b /\ d[3] = f
      OBVIOUS
    <3>2. d \in sent
      OBVIOUS
    <3> HIDE DEF d
    <3>3. f < f
      BY <1>7, <3>1, <3>2
    <3> QED
      BY <1>4, <3>3
  <2>6. ASSUME Len(codes) = 1
        PROVE  /\ Placed(head, codes[1])
               /\ \A i \in 1 .. Len(log) : Is(log[i], "decode") => ~SameFragment(log[i], head)
    <3>1. me = 1 /\ Session = codes[1]
      BY <1>3, <2>6
    <3>2. f \in 0 .. Session.n - 1
      BY <1>3
    <3>3. Placed(head, codes[1])
      BY <1>4, <1>5, <3>1, <3>2 DEF Placed
    <3>4. ~Decoded(log, b, f)
      <4> SUFFICES ASSUME Decoded(log, b, f) PROVE FALSE
        OBVIOUS
      <4>1. \E j \in 1 .. Len(codes) : <<j, b, f, TRUE>> \in sent
        BY Zenon, <1>8 DEF Recorded
      <4>2. \A j \in 1 .. Len(codes) : j = me
        BY <2>6, <3>1
      <4> QED
        BY <2>5, <4>1, <4>2
    <3> QED
      BY <1>5, <3>3, <3>4 DEF SameFragment, Decoded
  <2>7. \E j \in 1 .. Len(codes) : <<j, head.block, head.frag, TRUE>> \in delivered'[fp]
    BY <1>3, <1>5, <2>4
  <2>8. ASSUME NEW j, NEW x, NEW y, <<j, x, y, TRUE>> \in delivered'[fp]
        PROVE  <<j, x, y, TRUE>> \in sent \/ (Is(head, "decode") /\ head.block = x /\ head.frag = y)
    BY <1>5, <2>4, <2>8 DEF Is
  <2>9. head.kind = "head" /\ head.type = "decode" /\ head.type \in Known
    BY <1>5 DEF Known
  <2>10. sent \subseteq delivered'[fp]
    BY <2>4
  <2> HIDE DEF codes, log, sent
  <2>11. Fits(log, codes, sent, head, delivered'[fp])
    BY <2>6, <2>7, <2>8, <2>9, <2>10 DEF Fits
  <2> QED
    BY <1>1, <1>5, <2>3, <2>4, <2>11, RecordWritten DEF codes, log, sent
<1> QED
  BY <1>6, <1>9, <1>10

(* A new log has no records, and the log before it ends with a whole one.  *)
LEMMA CreateRecorded ==
  ASSUME LogInv, ChunkInv, RecordInv, ~Debug, Create
  PROVE  RecordInv'
<1> DEFINE name == FixupFilename(logSeq)
<1>1. name \in Nat /\ name \notin DOMAIN logs
  BY FreshName DEF LogInv, LogTypes
<1>2. /\ fp' = name /\ UNCHANGED <<torn, running>> /\ running /\ pending["net"] = <<>>
      /\ logs' = [n \in DOMAIN logs \cup {name} |-> IF n = name THEN <<>> ELSE logs[n]]
      /\ delivered' = [n \in DOMAIN delivered \cup {name} |->
                         IF n = name THEN {} ELSE delivered[n]]
  BY DEF Create, Idle
<1>3. PICK code \in Codes :
        /\ pending' = [pending EXCEPT !["net"] = Append(<<>>, FileHeader(code))]
        /\ sessions' = [n \in DOMAIN sessions \cup {name} |->
                          IF n = name THEN <<[k |-> code.k, n |-> code.n, at |-> 0]>>
                          ELSE sessions[n]]
  BY DEF Create, DebugRecord
<1> DEFINE first == [k |-> code.k, n |-> code.n, at |-> 0]
<1> HIDE DEF name
<1>4. /\ DOMAIN logs' = DOMAIN logs \cup {name} /\ DOMAIN delivered' = DOMAIN logs'
      /\ logs'[name] = <<>> /\ delivered'[name] = {}
      /\ \A n \in DOMAIN logs : logs'[n] = logs[n] /\ delivered'[n] = delivered[n]
  BY <1>1, <1>2 DEF RecordInv
<1>5. /\ sessions'[name] = <<first>>
      /\ \A n \in DOMAIN logs : sessions'[n] = sessions[n]
  BY <1>1, <1>3 DEF ChunkInv
<1>6. pending'["net"][1].fec_k = sessions'[name][1].k
  <2>1. "net" \in DOMAIN pending
    BY DEF LogInv, LogTypes, Threads
  <2>2. pending'["net"][1] = FileHeader(code)
    BY <1>3, <2>1
  <2>3. sessions'[name][1].k = code.k
    BY <1>5
  <2> QED
    BY <2>2, <2>3, ChunkTypes
<1>7. \A codes : Recorded(<<>>, codes, {})
  <2>1. \A b, f : ~Decoded(<<>>, b, f)
    BY DEF Decoded
  <2> QED
    BY <2>1 DEF Recorded
<1>8. \A n \in DOMAIN logs' : Recorded(logs'[n], sessions'[n], delivered'[n])
  BY <1>4, <1>5, <1>7 DEF RecordInv
<1>9. fp # NoLog => Complete(logs[fp])
  BY <1>2 DEF LogInv, Shape, Midway, Complete
<1>10. \A n \in DOMAIN logs : n \in Nat
  BY DEF LogInv, LogTypes
<1>11. \A n \in DOMAIN logs' : n # name /\ n \notin torn => Complete(logs'[n])
  BY <1>4, <1>9, <1>10 DEF RecordInv, NoLog
<1> QED
  BY <1>2, <1>4, <1>6, <1>8, <1>11 DEF RecordInv

(* The log goes on in another session: what only a log of one session has  *)
(* is no longer said of it.                                                *)
LEMMA RekeyRecorded ==
  ASSUME ChunkInv, RecordInv, Rekey
  PROVE  RecordInv'
<1>1. PICK code \in Codes :
        sessions' = [sessions EXCEPT ![fp] =
                       Append(@, [k |-> code.k, n |-> code.n, at |-> Len(logs[fp])])]
  BY DEF Rekey
<1> DEFINE next == [k |-> code.k, n |-> code.n, at |-> Len(logs[fp])]
           codes == sessions[fp]
           more == Append(codes, next)
<1>2. /\ fp # NoLog /\ UNCHANGED <<logs, fp, pending, delivered, torn, running>>
      /\ fp \in DOMAIN logs /\ DOMAIN sessions = DOMAIN logs
      /\ codes \in Seq(SessionRec) /\ codes # <<>>
  BY DEF Rekey, ChunkInv
<1>3. sessions'[fp] = more /\ \A n \in DOMAIN logs : n # fp => sessions'[n] = sessions[n]
  BY <1>1, <1>2
<1> HIDE DEF next
<1>4. /\ more[1] = codes[1] /\ Len(more) # 1 /\ \A j \in 1 .. Len(codes) : j \in 1 .. Len(more)
  BY <1>2
<1>5. Recorded(logs[fp], codes, delivered[fp])
  BY <1>2 DEF RecordInv
<1> HIDE DEF codes, more
<1>6. Recorded(logs[fp], more, delivered[fp])
  BY <1>4, <1>5 DEF Recorded
<1>7. \A n \in DOMAIN logs : Recorded(logs[n], sessions'[n], delivered[n])
  BY <1>3, <1>6 DEF RecordInv
<1>8. logs[fp] = <<>> => pending["net"][1].fec_k = sessions'[fp][1].k
  BY <1>2, <1>3, <1>4 DEF RecordInv, codes
<1> QED
  BY <1>2, <1>7, <1>8 DEF RecordInv

(* The listener ends: a log within a record is torn.                       *)
LEMMA EndRecorded ==
  ASSUME LogInv, RecordInv, ~PlayerThread, End \/ Restart
  PROVE  RecordInv'
<1>1. UNCHANGED <<logs, sessions, delivered>>
  BY DEF End, Restart
<1>2. CASE Restart
  BY <1>1, <1>2 DEF Restart, RecordInv
<1>3. CASE End
  <2>1. fp # NoLog /\ fp' = NoLog
    BY <1>3 DEF End
  <2>2. fp \in torn' \/ pending["net"] = <<>>
    BY <1>3 DEF End, Threads
  <2>3. torn \subseteq torn'
    BY <1>3 DEF End
  <2>4. fp \in torn' \/ Complete(logs[fp])
    <3>1. CASE pending["net"] = <<>>
      <4>1. Midway(logs[fp], <<>>)
        BY <2>1, <3>1 DEF LogInv, Shape
      <4> QED
        BY <4>1 DEF Midway, Complete
    <3> QED
      BY <2>2, <3>1
  <2> QED
    BY <1>1, <2>1, <2>3, <2>4 DEF RecordInv
<1> QED
  BY <1>2, <1>3

(* One step of the listener or of the shell.                               *)
LEMMA RecordStep ==
  ASSUME LogInv, ChunkInv, RecordInv, ~Debug, ~PlayerThread, ~Captures, [Next]_vars
  PROVE  RecordInv'
<1>1. Threads = {"net"}
  BY DEF Threads
<1>2. UNCHANGED logVars \/ LogNext
  BY DEF Next, Listener, Load, Filter, vars
<1>3. CASE UNCHANGED logVars
  BY <1>3 DEF logVars, RecordInv
<1>4. CASE LogNext
  BY <1>1, <1>4, CreateRecorded, RekeyRecorded, PlainRecorded, DeliverRecorded, WriteRecorded,
     EndRecorded DEF LogNext
<1> QED
  BY <1>2, <1>3, <1>4

(* At first there is no log.                                               *)
LEMMA RecordInitially == Init => RecordInv
<1> SUFFICES ASSUME Init PROVE RecordInv
  OBVIOUS
<1>1. DOMAIN logs = {} /\ DOMAIN delivered = {} /\ running = TRUE /\ fp = NoLog
  BY DEF Init, LogInit
<1> QED
  BY <1>1 DEF RecordInv

(* What the shell has loaded was left by a listener that is gone; unless a *)
(* filter was applied, the store is as it was loaded.                      *)
SourceInv ==
  /\ cut \in Int
  /\ \A log \in failed : log = <<>>
  /\ source = NoLog => ls = NoStore
  /\ source # NoLog =>
       /\ source \in DOMAIN logs /\ ValidSignature(logs[source])
       /\ ~running
       /\ cut = NoCut => ls = LoadLog(logs[source])

(* Only a filter changes what was loaded, and its cut-off tells so.        *)
LEMMA SourceStep ==
  ASSUME LogInv, SourceInv, [Next]_vars
  PROVE  SourceInv'
<1>1. CASE UNCHANGED vars
  BY <1>1 DEF vars, logVars, shellVars, SourceInv
<1>2. CASE Listener
  BY <1>2 DEF Listener, shellVars, SourceInv
<1>3. CASE Load
  <2>1. UNCHANGED logs /\ UNCHANGED running /\ ~running
    BY <1>3 DEF Load, logVars
  <2>2. PICK n \in DOMAIN logs :
          \/ /\ ValidSignature(logs[n]) /\ ls' = LoadLog(logs[n]) /\ source' = n
             /\ cut' = NoCut /\ UNCHANGED failed
          \/ /\ ~ValidSignature(logs[n]) /\ failed' = failed \cup {logs[n]}
             /\ UNCHANGED <<ls, source, cut>>
    BY <1>3 DEF Load
  <2>3. Formed(logs[n])
    BY DEF LogInv, Shape
  <2>4. CASE ValidSignature(logs[n])
    <3>1. n # NoLog
      BY DEF LogInv, LogTypes, NoLog
    <3> QED
      BY <2>1, <2>2, <2>4, <3>1 DEF SourceInv, NoCut
  <2>5. CASE ~ValidSignature(logs[n])
    <3>1. logs[n] = <<>>
      BY <2>3, <2>5 DEF Formed, ValidSignature
    <3> QED
      BY <2>1, <2>2, <2>5, <3>1 DEF SourceInv
  <2> QED
    BY <2>4, <2>5
<1>4. CASE Filter
  <2>1. PICK c \in CutOffs : cut' = -c
    BY <1>4 DEF Filter
  <2>2. cut' # NoCut /\ cut' \in Int
    BY <2>1, CutOffAssumption DEF NoCut
  <2>3. UNCHANGED <<logs, running, source, failed>> /\ source # NoLog
    BY <1>4 DEF Filter, logVars
  <2> QED
    BY <2>2, <2>3 DEF SourceInv
<1> QED
  BY <1>1, <1>2, <1>3, <1>4 DEF Next

(* At first nothing is loaded.                                             *)
LEMMA SourceInitially == Init => SourceInv
BY DEF Init, SourceInv, NoCut

(* All of it holds of every behaviour.                                     *)
Logging == LogInv /\ RecordInv /\ ChunkInv /\ ShellInv /\ SourceInv

(* The invariant of the listener and the shell together.                   *)
LEMMA LoggingAlways ==
  ASSUME ~Debug, ~PlayerThread, ~Captures
  PROVE  Spec => []Logging
<1>1. Init => Logging
  BY LogInitially, RecordInitially, ShellInitially, SourceInitially DEF Logging
<1>2. Logging /\ [Next]_vars => Logging'
  BY LogStep, RecordStep, ChunkStep, ShellStep, SourceStep DEF Logging
<1> QED
  BY <1>1, <1>2, PTL DEF Spec

-----------------------------------------------------------------------------
(* What is loaded is what was logged                                       *)

(* A log that a listener left, and the store it loads into.                *)
LoadedFrom(log, codes, sent, s, pos) ==
  /\ log \in Seq(Chunk) /\ Formed(log) /\ Recorded(log, codes, sent)
  /\ codes \in Seq(SessionRec) /\ codes # <<>> /\ s.fec_k = codes[1].k
  /\ Sound(s) /\ s \in Store
  /\ Tallied(s, InetRecords(s.v), DecodeRecords(s.v))
  /\ Traces(log, Len(log), s.v, pos)

(* The log that is loaded is one of these.                                 *)
LEMMA LogLeft ==
  ASSUME Logging, source # NoLog
  PROVE  \E pos : LoadedFrom(logs[source], sessions[source], delivered[source],
                            LoadLog(logs[source]), pos)
<1> DEFINE log == logs[source]
           codes == sessions[source]
           sent == delivered[source]
<1>1. /\ log \in Seq(Chunk) /\ Formed(log) /\ Recorded(log, codes, sent) /\ ValidSignature(log)
      /\ codes \in Seq(SessionRec) /\ codes # <<>>
  BY DEF Logging, SourceInv, ChunkInv, LogInv, Shape, RecordInv
<1> HIDE DEF log, codes, sent
<1>2. \A i \in 1 .. Len(log) : log[i].kind = "head" => log[i].type \in Known
  BY <1>1 DEF Recorded
<1>3. LET s == LoadLog(log)
      IN  /\ Sound(s) /\ s \in Store
          /\ Tallied(s, InetRecords(s.v), DecodeRecords(s.v))
          /\ s.fec_k = log[1].fec_k
          /\ \E pos : Traces(log, Len(log), s.v, pos)
  BY <1>1, <1>2, LogTraced
<1>4. log[1].fec_k = codes[1].k
  <2>1. 1 \in 1 .. Len(log) /\ log[1].kind = "file"
    BY <1>1 DEF ValidSignature
  <2> QED
    BY <1>1, <2>1 DEF Recorded
<1>5. \E pos : LoadedFrom(log, codes, sent, LoadLog(log), pos)
  BY <1>1, <1>3, <1>4 DEF LoadedFrom
<1> QED
  BY <1>5 DEF log, codes, sent

(* The records of some types that have their data.                         *)
Bodied(v, types) == {n \in DOMAIN v : v[n].type \in types /\ v[n].buf}

(* The record of a header ...                                              *)
LEMMA RecordOf ==
  ASSUME NEW log, NEW v, NEW pos, Traces(log, Len(log), v, pos), NEW n \in DOMAIN v
  PROVE  /\ pos[n] \in 1 .. Len(log) /\ log[pos[n]].kind = "head"
         /\ v[n].type = log[pos[n]].type /\ v[n].key = log[pos[n]].seq
         /\ v[n].block = log[pos[n]].block /\ v[n].frag = log[pos[n]].frag
         /\ v[n].dbm = log[pos[n]].dbm
         /\ v[n].buf <=> HasData(log[pos[n]]) /\ pos[n] < Len(log)
         /\ ~v[n].filtered
BY DEF Traces, Copies, Heads

(* ... and that there is one.                                              *)
LEMMA HeaderOf ==
  ASSUME NEW log, NEW v, NEW pos, Traces(log, Len(log), v, pos), NEW i \in 1 .. Len(log),
         log[i].kind = "head"
  PROVE  \E n \in DOMAIN v : pos[n] = i
BY DEF Traces, Heads

(* Each frame logged is a record of the store ...                          *)
LEMMA FramesLoaded ==
  ASSUME NEW log, NEW codes, NEW sent, NEW s, NEW pos, LoadedFrom(log, codes, sent, s, pos)
  PROVE  Logged(log, {"inet6", "unspec"}) = Cardinality(InetRecords(s.v))
<1> DEFINE L == {i \in 1 .. Len(log) :
                   log[i].type \in {"inet6", "unspec"} /\
                   log[i].kind = IF HasData(log[i]) \/ log[i].kind = "data"
                                 THEN "data" ELSE "head"}
           v == s.v
           R == InetRecords(v)
           f == [n \in R |-> pos[n]]
<1>1. log \in Seq(Chunk) /\ Recorded(log, codes, sent) /\ Traces(log, Len(log), v, pos)
  BY DEF LoadedFrom
<1>2. R \subseteq DOMAIN v /\ IsFiniteSet(R)
  BY Finite DEF LoadedFrom, InetRecords
<1>3. ASSUME NEW i \in 1 .. Len(log)
      PROVE  i \in L <=> Is(log[i], "inet6")
  <2>1. log[i].kind = "data" => log[i].type \in {"decode", "msg", "msg_debug"}
    <3> SUFFICES ASSUME log[i].kind = "data" PROVE log[i].type \in {"decode", "msg", "msg_debug"}
      OBVIOUS
    <3>1. i > 1 /\ HasData(log[i - 1]) /\ log[i] = Payload(log[i - 1])
      BY <1>1 DEF Recorded
    <3>2. i - 1 \in 1 .. Len(log) /\ log[i - 1] \in Chunk
      BY <1>1, <3>1
    <3>3. Payload(log[i - 1]).type = log[i - 1].type
      BY <3>2 DEF Payload, Chunk
    <3> QED
      BY <3>1, <3>3 DEF HasData
  <2>2. log[i].kind = "head" => log[i].type # "unspec"
    BY <1>1 DEF Recorded, Known
  <2> QED
    BY <2>1, <2>2 DEF Is, HasData
<1> HIDE DEF L
<1>4. L \subseteq 1 .. Len(log)
  BY DEF L
<1> HIDE DEF v
<1>5. ASSUME NEW n \in R PROVE f[n] \in L
  BY <1>1, <1>2, <1>3, RecordOf DEF Is, InetRecords
<1>6. \A x, y \in R : x # y => f[x] # f[y]
  BY <1>1, <1>2 DEF Traces
<1>7. ASSUME NEW i \in L PROVE \E n \in R : f[n] = i
  <2>1. log[i].kind = "head" /\ log[i].type = "inet6" /\ i \in 1 .. Len(log)
    BY <1>3, <1>4 DEF Is
  <2>2. PICK n \in DOMAIN v : pos[n] = i
    BY <1>1, <2>1, HeaderOf
  <2>3. v[n].type = "inet6"
    BY <1>1, <2>1, <2>2, RecordOf
  <2> QED
    BY <2>2, <2>3 DEF InetRecords
<1>8. f \in [R -> L]
  BY <1>5
<1> HIDE DEF f, R
<1>9. Cardinality(L) = Cardinality(R)
  BY <1>2, <1>6, <1>7, <1>8, SameCount
<1> QED
  BY <1>9 DEF Logged, L, R, v

(* ... and so is each decoded frame or message that was logged whole.      *)
LEMMA BodiesLoaded ==
  ASSUME NEW log, NEW codes, NEW sent, NEW s, NEW pos, LoadedFrom(log, codes, sent, s, pos),
         NEW types, types \subseteq {"decode", "msg", "msg_debug"}
  PROVE  Logged(log, types) = Cardinality(Bodied(s.v, types))
<1> DEFINE L == {i \in 1 .. Len(log) :
                   log[i].type \in types /\
                   log[i].kind = IF HasData(log[i]) \/ log[i].kind = "data"
                                 THEN "data" ELSE "head"}
           v == s.v
           R == Bodied(v, types)
           f == [n \in R |-> pos[n] + 1]
<1>1. /\ log \in Seq(Chunk) /\ Recorded(log, codes, sent) /\ Traces(log, Len(log), v, pos)
      /\ Formed(log) /\ Len(log) \in Nat
  BY DEF LoadedFrom
<1>2. R \subseteq DOMAIN v /\ IsFiniteSet(R)
  BY Finite DEF LoadedFrom, Bodied
<1>3. ASSUME NEW i \in 1 .. Len(log)
      PROVE  i \in L <=> log[i].type \in types /\ log[i].kind = "data"
  <2>0. log[i] \in Chunk
    BY <1>1
  <2>1. log[i].kind \in {"file", "head", "data"}
    BY <2>0 DEF Chunk
  <2> QED
    BY <2>1 DEF HasData
<1> HIDE DEF L
<1>4. L \subseteq 1 .. Len(log)
  BY DEF L
<1> HIDE DEF v
<1>5. ASSUME NEW n \in R PROVE f[n] \in L /\ pos[n] \in Nat
  <2> DEFINE i == pos[n]
  <2>1. n \in DOMAIN v /\ v[n].type \in types /\ v[n].buf
    BY DEF Bodied
  <2>2. /\ i \in 1 .. Len(log) /\ v[n].type = log[i].type /\ HasData(log[i]) /\ i < Len(log)
    BY <1>1, <2>1, RecordOf
  <2> HIDE DEF i
  <2>3. i + 1 \in 1 .. Len(log) /\ i \in 1 .. Len(log) - 1 /\ (i + 1) - 1 = i /\ log[i] \in Chunk
    BY <1>1, <2>2
  <2>4. log[i + 1].kind = "data"
    BY <1>1, <2>2, <2>3 DEF Formed
  <2>5. log[i + 1] = Payload(log[i])
    BY <1>1, <2>3, <2>4 DEF Recorded
  <2>6. log[i + 1].type = log[i].type
    BY <2>3, <2>5 DEF Payload, Chunk
  <2>7. i + 1 \in L /\ i \in Nat
    BY <1>3, <2>1, <2>2, <2>3, <2>4, <2>6
  <2> QED
    BY <2>7 DEF i
<1>6. \A x, y \in R : x # y => f[x] # f[y]
  <2>1. \A x, y \in R : x # y => pos[x] # pos[y]
    BY <1>1, <1>2 DEF Traces
  <2> QED
    BY <1>5, <2>1
<1>7. ASSUME NEW i \in L PROVE \E n \in R : f[n] = i
  <2>1. log[i].kind = "data" /\ log[i].type \in types /\ i \in 1 .. Len(log)
    BY <1>3, <1>4
  <2>2. i > 1 /\ HasData(log[i - 1]) /\ log[i] = Payload(log[i - 1])
    BY <1>1, <2>1 DEF Recorded
  <2>3. i - 1 \in 1 .. Len(log) /\ log[i - 1] \in Chunk /\ i - 1 < Len(log)
    BY <1>1, <2>1, <2>2
  <2>4. log[i - 1].type = log[i].type /\ log[i - 1].kind = "head"
    BY <2>2, <2>3 DEF Payload, Chunk, HasData
  <2>5. PICK n \in DOMAIN v : pos[n] = i - 1
    BY <1>1, <2>3, <2>4, HeaderOf
  <2>6. v[n].type \in types /\ v[n].buf
    BY <1>1, <2>1, <2>2, <2>3, <2>4, <2>5, RecordOf
  <2>7. n \in R
    BY <2>6 DEF Bodied
  <2>8. f[n] = pos[n] + 1
    BY <2>7
  <2> HIDE DEF f
  <2>9. f[n] = i
    BY <2>1, <2>5, <2>8
  <2> QED
    BY <2>7, <2>9
<1>8. f \in [R -> L]
  BY <1>5
<1> HIDE DEF f, R
<1>9. Cardinality(L) = Cardinality(R)
  BY <1>2, <1>6, <1>7, <1>8, SameCount
<1> QED
  BY <1>9 DEF Logged, L, R, v

(* A filter keeps what a record says.                                      *)
LEMMA MarkedFields ==
  ASSUME NEW v \in Seq(VRec), NEW w, SameRecords(v, w), NEW n \in DOMAIN v
  PROVE  /\ DOMAIN w = DOMAIN v
         /\ w[n].type = v[n].type /\ w[n].key = v[n].key /\ w[n].block = v[n].block
         /\ w[n].frag = v[n].frag /\ w[n].dbm = v[n].dbm /\ w[n].buf = v[n].buf
<1>1. PICK f \in BOOLEAN : w[n] = [v[n] EXCEPT !.filtered = f]
  BY DEF SameRecords
<1>2. v[n] \in VRec
  BY VTypes
<1>3. /\ w[n].type = v[n].type /\ w[n].key = v[n].key /\ w[n].block = v[n].block
      /\ w[n].frag = v[n].frag /\ w[n].dbm = v[n].dbm /\ w[n].buf = v[n].buf
  BY <1>1, <1>2 DEF VRec
<1> QED
  BY <1>3 DEF SameRecords

(* Without -d, -l and -w, the analyser loads every log of a session, and   *)
(* counts each frame, decoded frame and message that was logged whole, for *)
(* any number of them: no record load_log meets stops it before the end of *)
(* the file, and the one that a kill cut off is not counted.               *)
THEOREM AllLoaded ==
  ASSUME ~Debug, ~PlayerThread, ~Captures
  PROVE  Spec => []LoadedAll
<1>1. Logging => LoadedAll
  <2> SUFFICES ASSUME Logging PROVE LoadedAll
    OBVIOUS
  <2>1. \A log \in failed : \A c \in ToSet(log) : c.kind # "file"
    <3>1. \A c \in ToSet(<<>>) : c.kind # "file"
      BY DEF ToSet
    <3> QED
      BY <3>1 DEF Logging, SourceInv
  <2>2. ASSUME source # NoLog
        PROVE  /\ ls.n_pkts = Logged(logs[source], {"inet6", "unspec"})
               /\ ls.n_frames = Logged(logs[source], {"decode"})
               /\ Cardinality({n \in DOMAIN ls.v : IsMessage(ls.v[n].type) /\ ls.v[n].buf}) =
                    Logged(logs[source], {"msg", "msg_debug"})
    <3> DEFINE log == logs[source]
               codes == sessions[source]
               sent == delivered[source]
               s == LoadLog(log)
               M == {"msg", "msg_debug"}
    <3>1. PICK pos : LoadedFrom(log, codes, sent, s, pos)
      BY <2>2, LogLeft
    <3>2. SameStore(s, ls)
      BY <2>2 DEF Logging, ShellInv
    <3> HIDE DEF log, codes, sent, s, M
    <3>3. M \subseteq {"decode", "msg", "msg_debug"} /\ {"decode"} \subseteq {"decode", "msg", "msg_debug"}
      BY DEF M
    <3>4. /\ Logged(log, {"inet6", "unspec"}) = Cardinality(InetRecords(s.v))
          /\ Logged(log, {"decode"}) = Cardinality(Bodied(s.v, {"decode"}))
          /\ Logged(log, M) = Cardinality(Bodied(s.v, M))
      <4>1. Logged(log, {"inet6", "unspec"}) = Cardinality(InetRecords(s.v))
        BY <3>1, FramesLoaded
      <4>2. /\ Logged(log, {"decode"}) = Cardinality(Bodied(s.v, {"decode"}))
            /\ Logged(log, M) = Cardinality(Bodied(s.v, M))
        BY <3>1, <3>3, BodiesLoaded
      <4> QED
        BY <4>1, <4>2
    <3>5. DecodeRecords(s.v) = Bodied(s.v, {"decode"})
      BY DEF DecodeRecords, Bodied
    <3>6. s.n_pkts = Cardinality(InetRecords(s.v)) /\ s.n_frames = Cardinality(DecodeRecords(s.v))
      BY <3>1 DEF LoadedFrom, Tallied
    <3>7. ls.n_pkts = s.n_pkts /\ ls.n_frames = s.n_frames
      BY <3>2 DEF SameStore
    <3>8. {n \in DOMAIN ls.v : IsMessage(ls.v[n].type) /\ ls.v[n].buf} = Bodied(s.v, M)
      <4> DEFINE v == s.v
                 w == ls.v
      <4>1. v \in Seq(VRec) /\ SameRecords(v, w)
        BY <3>1, <3>2, StoreTypes DEF LoadedFrom, SameStore
      <4> HIDE DEF v, w
      <4>2. DOMAIN w = DOMAIN v
        BY <4>1 DEF SameRecords
      <4>3. \A n \in DOMAIN v : w[n].type = v[n].type /\ w[n].buf = v[n].buf
        BY <4>1, MarkedFields
      <4>4. {n \in DOMAIN w : IsMessage(w[n].type) /\ w[n].buf} = Bodied(v, M)
        BY <4>2, <4>3 DEF IsMessage, Bodied, M
      <4> QED
        BY <4>4 DEF v, w
    <3> QED
      BY <3>4, <3>5, <3>6, <3>7, <3>8 DEF log, M
  <2> QED
    BY <2>1, <2>2 DEF LoadedAll
<1> QED
  BY <1>1, LoggingAlways, PTL

(* A block of which load_log found fewer decoded frames than the file      *)
(* header's fec_k lacks a fragment of every session that has as many.      *)
LEMMA FragmentMissing ==
  ASSUME NEW log, NEW codes, NEW sent, NEW s, NEW pos, LoadedFrom(log, codes, sent, s, pos),
         Complete(log), NEW b, Cardinality(InBlock(s.v, DecodeRecords(s.v), b)) < s.fec_k,
         NEW j \in DOMAIN codes, codes[j].k >= codes[1].k
  PROVE  \E f \in 0 .. codes[j].k - 1 : <<j, b, f, TRUE>> \notin sent
<1> SUFFICES ASSUME \A f \in 0 .. codes[j].k - 1 : <<j, b, f, TRUE>> \in sent PROVE FALSE
  OBVIOUS
<1> DEFINE v == s.v
           K == codes[j].k
           B == InBlock(v, DecodeRecords(v), b)
           F == 0 .. K - 1
           R == {n \in B : v[n].frag \in F}
           g == [n \in R |-> v[n].frag]
<1>1. /\ log \in Seq(Chunk) /\ Recorded(log, codes, sent) /\ Traces(log, Len(log), v, pos)
      /\ Formed(log) /\ Len(log) \in Nat
  BY DEF LoadedFrom
<1>2. B \subseteq DOMAIN v /\ IsFiniteSet(B) /\ Cardinality(B) \in Nat
  BY Finite DEF LoadedFrom, InBlock, DecodeRecords
<1>3. \A f \in F : Decoded(log, b, f)
  <2>1. \A f \in F : <<j, b, f, TRUE>> \in sent
    OBVIOUS
  <2> HIDE DEF F
  <2> QED
    BY Zenon, <1>1, <2>1 DEF Recorded
<1>4. K \in Nat \ {0} /\ Cardinality(B) < K
  <2>1. codes \in Seq(SessionRec) /\ codes # <<>> /\ s.fec_k = codes[1].k
    BY DEF LoadedFrom
  <2>2. codes[j] \in SessionRec /\ codes[1] \in SessionRec
    BY <2>1
  <2>3. K \in Nat \ {0} /\ codes[1].k \in Nat
    BY <2>2 DEF SessionRec
  <2>4. Cardinality(B) < codes[1].k /\ K >= codes[1].k
    BY <2>1
  <2> HIDE DEF K, B
  <2> QED
    BY <1>2, <2>3, <2>4
<1> HIDE DEF v, K
<1>5. R \subseteq B /\ IsFiniteSet(R) /\ Cardinality(R) <= Cardinality(B) /\ Cardinality(R) \in Nat
  <2>1. R \in SUBSET B
    OBVIOUS
  <2> HIDE DEF R, B
  <2> QED
    BY <1>2, <2>1, FS_Subset, FS_CardinalityType
<1>6. ASSUME NEW f \in F PROVE \E n \in R : g[n] = f
  <2>1. PICK i \in 1 .. Len(log) : Is(log[i], "decode") /\ log[i].block = b /\ log[i].frag = f
    BY <1>3 DEF Decoded
  <2>2. HasData(log[i]) /\ log[i].kind = "head" /\ log[i].type = "decode"
    BY <2>1 DEF Is, HasData
  <2>3. i < Len(log)
    <3>1. log # <<>>
      BY <1>1
    <3>2. i # Len(log)
      BY <2>2, <3>1 DEF Complete
    <3> QED
      BY <1>1, <3>2
  <2>4. PICK n \in DOMAIN v : pos[n] = i
    BY <1>1, <2>2, HeaderOf
  <2>5. v[n].type = "decode" /\ v[n].block = b /\ v[n].frag = f /\ v[n].buf
    BY <1>1, <2>1, <2>2, <2>3, <2>4, RecordOf
  <2>6. n \in B
    BY <2>5 DEF InBlock, DecodeRecords
  <2>7. n \in R
    BY <2>5, <2>6
  <2> QED
    BY <2>5, <2>7
<1>7. \A n \in R : g[n] \in F
  OBVIOUS
<1>8. g \in Surjection(R, F)
  BY <1>6, <1>7 DEF Surjection
<1> HIDE DEF g, R, B
<1>9. Cardinality(F) <= Cardinality(R)
  BY <1>5, <1>8, FS_Surjection
<1>10. Cardinality(F) = K
  <2>1. K \in Nat /\ 0 <= K - 1 /\ 0 \in Int /\ K - 1 \in Int
    BY <1>4
  <2>2. Cardinality(0 .. K - 1) = (K - 1) - 0 + 1
    BY <2>1, FS_Interval
  <2> QED
    BY <2>1, <2>2
<1> HIDE DEF F
<1> QED
  BY <1>2, <1>4, <1>5, <1>9, <1>10

(* A block that the summary counts as corrupted lacks a fragment with a    *)
(* payload of the session that began the log, and of every other with at   *)
(* least as large a fec_k, whatever the codes and the order in which       *)
(* frames were decoded, in any log whose listener was not killed within a  *)
(* record: mark_h265 clears the mark with the last of fec_k decoded        *)
(* frames.  Nothing is said of a session with a smaller fec_k than that of *)
(* the log's header, whose blocks are counted though nothing was lost.     *)
THEOREM CorruptionReal ==
  ASSUME ~Debug, ~PlayerThread, ~Captures
  PROVE  Spec => []CorruptedIsLost
<1>1. Logging => CorruptedIsLost
  <2> SUFFICES ASSUME Logging, source # NoLog, cut = NoCut, source \notin torn,
                      NEW i \in CorruptedBlocks(ls), NEW j \in DOMAIN sessions[source],
                      sessions[source][j].k >= sessions[source][1].k
               PROVE  \E f \in 0 .. sessions[source][j].k - 1 :
                        <<j, ls.block_kvh[i].key, f, TRUE>> \notin delivered[source]
    BY DEF CorruptedIsLost
  <2> DEFINE log == logs[source]
             codes == sessions[source]
             sent == delivered[source]
             b == ls.block_kvh[i].key
  <2>1. ls = LoadLog(log)
    BY DEF Logging, SourceInv
  <2>2. Complete(log)
    BY DEF Logging, SourceInv, RecordInv
  <2>3. PICK pos : LoadedFrom(log, codes, sent, ls, pos)
    BY <2>1, LogLeft
  <2>4. i \in DOMAIN ls.block_kvh /\ ls.block_kvh[i].has_lost_frame
    BY DEF CorruptedBlocks
  <2>5. Cardinality(InBlock(ls.v, DecodeRecords(ls.v), b)) < ls.fec_k
    BY <2>3, <2>4 DEF LoadedFrom, Tallied
  <2>6. j \in DOMAIN codes /\ codes[j].k >= codes[1].k
    OBVIOUS
  <2> HIDE DEF log, codes, sent, b
  <2>7. \E f \in 0 .. codes[j].k - 1 : <<j, b, f, TRUE>> \notin sent
    BY <2>2, <2>3, <2>5, <2>6, FragmentMissing
  <2> QED
    BY <2>7 DEF codes, sent, b
<1> QED
  BY <1>1, LoggingAlways, PTL

-----------------------------------------------------------------------------
(* What a filter leaves                                                    *)

(* A store whose frames that are too weak are marked, and nothing else.    *)
Weakened(s, t, c) ==
  /\ SameStore(s, t) /\ Sound(t) /\ t.kvh = s.kvh /\ t.block_kvh = s.block_kvh
  /\ \A n \in Sequenced(s.v) :
       t.v[n].filtered <=> s.v[n].type = "inet6" /\ s.v[n].dbm # DbmInval /\ s.v[n].dbm <= c

(* log_filter_reset and the loop of log_filter_dbm make one.               *)
LEMMA WeakMarked ==
  ASSUME NEW s, Sound(s), NEW c \in Int
  PROVE  Weakened(s, MarkWeak(FilterReset(s), c), c)
<1> DEFINE a == FilterReset(s)
           t == MarkWeak(a, c)
           wa == [n \in DOMAIN s.v |-> IF IsMessage(s.v[n].type) THEN s.v[n]
                                       ELSE [s.v[n] EXCEPT !.filtered = FALSE]]
           wt == [n \in DOMAIN a.v |-> IF a.v[n].type = "inet6" /\ a.v[n].dbm # DbmInval
                                       THEN [a.v[n] EXCEPT !.filtered = a.v[n].dbm <= c]
                                       ELSE a.v[n]]
<1>1. s \in Store /\ SameStore(s, a)
  BY ResetKeeps DEF Sound, Indexed
<1>2. a \in Store /\ SameStore(a, t)
  BY <1>1, WeakKeeps DEF SameStore
<1>3. SameStore(s, t)
  BY <1>1, <1>2, SameStoreTrans
<1>4. Sound(t)
  BY <1>3, SameStoreSound
<1>5. a = [s EXCEPT !.v = wa] /\ t = [a EXCEPT !.v = wt]
  BY DEF FilterReset, MarkWeak
<1>6. a.v = wa /\ a.kvh = s.kvh /\ a.block_kvh = s.block_kvh
  <2> HIDE DEF wa, a
  <2> QED
    BY <1>1, <1>5 DEF Store
<1>7. t.v = wt /\ t.kvh = a.kvh /\ t.block_kvh = a.block_kvh
  <2> HIDE DEF wa, a, wt, t
  <2> QED
    BY <1>2, <1>5 DEF Store
<1>8. ASSUME NEW n \in Sequenced(s.v)
      PROVE  t.v[n].filtered <=> s.v[n].type = "inet6" /\ s.v[n].dbm # DbmInval /\ s.v[n].dbm <= c
  <2> DEFINE x == s.v[n]
             y == [x EXCEPT !.filtered = FALSE]
             weak == y.dbm <= c
             z == [y EXCEPT !.filtered = weak]
  <2>1. n \in DOMAIN s.v /\ ~IsMessage(x.type)
    BY DEF Sequenced
  <2>2. x \in VRec
    BY <1>1, <2>1, StoreTypes, VTypes
  <2>3. n \in DOMAIN a.v /\ a.v[n] = y
    <3> HIDE DEF a
    <3> QED
      BY <1>6, <2>1
  <2>4. t.v[n] = IF y.type = "inet6" /\ y.dbm # DbmInval THEN z ELSE y
    <3> HIDE DEF a, t, y
    <3> QED
      BY <1>7, <2>3
  <2>5. y \in VRec /\ y.type = x.type /\ y.dbm = x.dbm /\ y.filtered = FALSE
    <3> HIDE DEF x
    <3> QED
      BY <2>2 DEF VRec
  <2> HIDE DEF y
  <2>6. weak \in BOOLEAN
    OBVIOUS
  <2>7. weak <=> x.dbm <= c
    BY <2>5
  <2> HIDE DEF weak
  <2>8. z.filtered = weak
    BY <2>5 DEF VRec
  <2> HIDE DEF z, x, t
  <2> QED
    BY <2>4, <2>5, <2>6, <2>7, <2>8 DEF x
<1> HIDE DEF a, t
<1> QED
  BY <1>3, <1>4, <1>6, <1>7, <1>8 DEF Weakened, a, t

(* What the marks of a cut-off say.                                        *)
LEMMA WeakenedFields ==
  ASSUME NEW s \in Store, NEW t, NEW c \in Int, Weakened(s, t, c)
  PROVE  /\ Indexed(t) /\ t.v \in Seq(VRec) /\ t.kvh \in Seq(Kv) /\ t.block_kvh \in Seq(Kv)
         /\ DOMAIN t.v = DOMAIN s.v /\ Sequenced(t.v) = Sequenced(s.v)
         /\ \A n \in DOMAIN s.v :
              /\ t.v[n].type = s.v[n].type /\ t.v[n].key = s.v[n].key
              /\ t.v[n].block = s.v[n].block /\ t.v[n].frag = s.v[n].frag
         /\ \A n \in DOMAIN s.v : s.v[n].type = "decode" => ~t.v[n].filtered
         /\ \A n \in DOMAIN s.v : s.v[n].type = "inet6" =>
              (~t.v[n].filtered <=> s.v[n].dbm = DbmInval \/ s.v[n].dbm > c)
<1>1. /\ Indexed(t) /\ t \in Store /\ SameRecords(s.v, t.v) /\ s.v \in Seq(VRec)
  BY StoreTypes DEF Weakened, Sound, Indexed, SameStore
<1>2. t.v \in Seq(VRec) /\ t.kvh \in Seq(Kv) /\ t.block_kvh \in Seq(Kv)
  BY <1>1, StoreTypes
<1> DEFINE v == s.v
           w == t.v
<1>3. v \in Seq(VRec) /\ SameRecords(v, w)
  BY <1>1
<1>4. \A n \in Sequenced(v) :
        w[n].filtered <=> v[n].type = "inet6" /\ v[n].dbm # DbmInval /\ v[n].dbm <= c
  BY DEF Weakened
<1> HIDE DEF v, w
<1>5. DOMAIN w = DOMAIN v
  BY <1>3 DEF SameRecords
<1>6. \A n \in DOMAIN v :
        /\ w[n].type = v[n].type /\ w[n].key = v[n].key
        /\ w[n].block = v[n].block /\ w[n].frag = v[n].frag
  BY <1>3, MarkedFields
<1>7. Sequenced(w) = Sequenced(v)
  BY <1>5, <1>6 DEF Sequenced
<1>8. ASSUME NEW n \in DOMAIN v, v[n].type \in {"decode", "inet6"}
      PROVE  n \in Sequenced(v)
  BY <1>8 DEF Sequenced, IsMessage
<1>9. \A n \in DOMAIN v : v[n].type = "decode" => ~w[n].filtered
  BY <1>4, <1>8
<1>10. ASSUME NEW n \in DOMAIN v, v[n].type = "inet6"
       PROVE  ~w[n].filtered <=> v[n].dbm = DbmInval \/ v[n].dbm > c
  <2>1. v[n].dbm \in Int
    BY <1>3, VTypes
  <2>2. w[n].filtered <=> v[n].dbm # DbmInval /\ v[n].dbm <= c
    BY <1>4, <1>8, <1>10
  <2> QED
    BY <2>1, <2>2
<1> QED
  BY <1>1, <1>2, <1>5, <1>6, <1>7, <1>9, <1>10 DEF v, w

(* What an index says of its list i.                                       *)
LEMMA ListAt ==
  ASSUME NEW kvh \in Seq(Kv), NEW keyOf, Indexes(kvh, keyOf), NEW i \in 1 .. Len(kvh)
  PROVE  /\ kvh[i].vh \in Seq(Nat) /\ kvh[i].key \in Int
         /\ \A k \in 1 .. Len(kvh[i].vh) :
              kvh[i].vh[k] \in DOMAIN keyOf /\ keyOf[kvh[i].vh[k]] = kvh[i].key
         /\ \A k, l \in 1 .. Len(kvh[i].vh) : k < l => kvh[i].vh[k] < kvh[i].vh[l]
         /\ \A n \in DOMAIN keyOf : keyOf[n] = kvh[i].key =>
              \E k \in 1 .. Len(kvh[i].vh) : kvh[i].vh[k] = n
         /\ \A n \in DOMAIN keyOf : keyOf[n] \in Int
         /\ \A n \in DOMAIN keyOf : \E j \in 1 .. Len(kvh) : keyOf[n] = kvh[j].key
<1>1. /\ Len(kvh) \in Nat /\ DOMAIN kvh = 1 .. Len(kvh)
      /\ \A j \in 1 .. Len(kvh) : kvh[j].key \in Int /\ kvh[j].vh \in Seq(Nat)
  BY KvTypes
<1>2. /\ \A k \in 1 .. Len(kvh[i].vh) :
              kvh[i].vh[k] \in DOMAIN keyOf /\ keyOf[kvh[i].vh[k]] = kvh[i].key
      /\ \A k, l \in 1 .. Len(kvh[i].vh) : k < l => kvh[i].vh[k] < kvh[i].vh[l]
  BY <1>1 DEF Indexes
<1>3. ASSUME NEW n \in DOMAIN keyOf PROVE \E j \in 1 .. Len(kvh) : keyOf[n] = kvh[j].key
  <2>1. PICK j \in 1 .. Len(kvh) : \E k \in 1 .. Len(kvh[j].vh) : kvh[j].vh[k] = n
    BY <1>1 DEF Indexes
  <2>2. \A k \in 1 .. Len(kvh[j].vh) : keyOf[kvh[j].vh[k]] = kvh[j].key
    BY <1>1 DEF Indexes
  <2> QED
    BY <2>1, <2>2
<1>4. \A n \in DOMAIN keyOf : keyOf[n] \in Int
  BY <1>1, <1>3
<1>5. ASSUME NEW n \in DOMAIN keyOf, keyOf[n] = kvh[i].key
      PROVE  \E k \in 1 .. Len(kvh[i].vh) : kvh[i].vh[k] = n
  <2>1. \A kv \in ToSet(kvh) : n \in ToSet(kv.vh) <=> kv.key = keyOf[n]
    BY OnlyListed
  <2>2. kvh[i] \in ToSet(kvh)
    BY <1>1 DEF ToSet
  <2>3. n \in ToSet(kvh[i].vh)
    BY <1>5, <2>1, <2>2
  <2>4. DOMAIN kvh[i].vh = 1 .. Len(kvh[i].vh)
    BY <1>1
  <2> QED
    BY <2>3, <2>4 DEF ToSet
<1> QED
  BY <1>1, <1>2, <1>3, <1>4, <1>5

(* The keys ascend from list to list.                                      *)
LEMMA ListsAscend ==
  ASSUME NEW kvh \in Seq(Kv), NEW keyOf, Indexes(kvh, keyOf)
  PROVE  \A i, j \in 1 .. Len(kvh) : i < j => kvh[i].key < kvh[j].key
<1>1. DOMAIN kvh = 1 .. Len(kvh)
  BY KvTypes
<1> QED
  BY <1>1 DEF Indexes, Ascending

(* The records of a type that are left with a key.                         *)
LeftWith(t, keyOf, key, type) ==
  {n \in DOMAIN keyOf : keyOf[n] = key /\ ~t.v[n].filtered /\ t.v[n].type = type}

(* S is finite and as large as L.                                          *)
AsMany(S, L) == IsFiniteSet(S) /\ Cardinality(S) = Cardinality(L)

(* What is left of a list is as much as there is left with its key.        *)
LEMMA LeftCounted ==
  ASSUME NEW t, NEW kvh \in Seq(Kv), NEW keyOf, Indexes(kvh, keyOf), NEW i \in 1 .. Len(kvh),
         NEW type
  PROVE  AsMany(LeftWith(t, keyOf, kvh[i].key, type), Left(t, kvh[i], type))
<1> DEFINE vh == kvh[i].vh
           key == kvh[i].key
           S == LeftWith(t, keyOf, key, type)
           L == Left(t, kvh[i], type)
           g == [k \in L |-> vh[k]]
<1>1. /\ vh \in Seq(Nat) /\ key \in Int
      /\ \A k \in 1 .. Len(vh) : vh[k] \in DOMAIN keyOf /\ keyOf[vh[k]] = key
      /\ \A k, l \in 1 .. Len(vh) : k < l => vh[k] < vh[l]
      /\ \A n \in DOMAIN keyOf : keyOf[n] = key => \E k \in 1 .. Len(vh) : vh[k] = n
  <2>1. vh \in Seq(Nat) /\ key \in Int
    BY ListAt
  <2>2. \A k \in 1 .. Len(vh) : vh[k] \in DOMAIN keyOf /\ keyOf[vh[k]] = key
    BY ListAt
  <2>3. \A k, l \in 1 .. Len(vh) : k < l => vh[k] < vh[l]
    BY ListAt
  <2>4. \A n \in DOMAIN keyOf : keyOf[n] = key => \E k \in 1 .. Len(vh) : vh[k] = n
    BY ListAt
  <2> QED
    BY <2>1, <2>2, <2>3, <2>4
<1>2. DOMAIN vh = 1 .. Len(vh) /\ Len(vh) \in Nat
  BY <1>1
<1>3. L = {k \in 1 .. Len(vh) : ~t.v[vh[k]].filtered /\ t.v[vh[k]].type = type}
  BY <1>2 DEF Left
<1> HIDE DEF vh, key, L
<1>4. IsFiniteSet(L)
  <2>1. IsFiniteSet(1 .. Len(vh))
    BY <1>2, FS_Interval
  <2> QED
    BY <1>3, <2>1, FS_Subset
<1>5. \A k \in L : vh[k] \in S
  BY <1>1, <1>3 DEF LeftWith
<1>6. \A n \in S : \E k \in L : vh[k] = n
  BY <1>1, <1>3 DEF LeftWith
<1>7. ASSUME NEW k \in L, NEW l \in L, k # l PROVE vh[k] # vh[l]
  <2>1. k \in 1 .. Len(vh) /\ l \in 1 .. Len(vh)
    BY <1>3
  <2>2. vh[k] \in Nat /\ vh[l] \in Nat
    BY <1>1, <2>1
  <2>3. k < l \/ l < k
    BY <1>2, <1>7, <2>1
  <2>4. vh[k] < vh[l] \/ vh[l] < vh[k]
    BY <1>1, <2>1, <2>3
  <2> QED
    BY <2>2, <2>4
<1> HIDE DEF S
<1>8. /\ g \in [L -> S] /\ \A k, l \in L : k # l => g[k] # g[l]
      /\ \A n \in S : \E k \in L : g[k] = n
  BY <1>5, <1>6, <1>7
<1> HIDE DEF g
<1>9. IsFiniteSet(S) /\ Cardinality(S) = Cardinality(L)
  BY <1>4, <1>8, SameCount
<1> QED
  BY <1>9 DEF AsMany, S, L, vh, key

(* What was heard above c with a key.                                      *)
HeardWith(s, c, key) == {m \in HeardAbove(s, c) : s.v[m].key = key}

(* The frames heard that log_update_kv counts for a sequence number ...    *)
LEMMA AlikeCounted ==
  ASSUME NEW s \in Store, NEW t, NEW c \in Int, Weakened(s, t, c), NEW i \in 1 .. Len(t.kvh)
  PROVE  AsMany(HeardWith(s, c, t.kvh[i].key), Left(t, t.kvh[i], "inet6"))
<1> DEFINE v == s.v
           w == t.v
           key == t.kvh[i].key
           A == {m \in HeardAbove(s, c) : v[m].key = key}
           S == LeftWith(t, KeyOfSeq(w), key, "inet6")
<1>1. /\ Indexed(t) /\ t.kvh \in Seq(Kv)
      /\ DOMAIN w = DOMAIN v /\ Sequenced(w) = Sequenced(v)
      /\ \A n \in DOMAIN v : w[n].type = v[n].type /\ w[n].key = v[n].key
      /\ \A n \in DOMAIN v : v[n].type = "inet6" =>
           (~w[n].filtered <=> v[n].dbm = DbmInval \/ v[n].dbm > c)
  BY WeakenedFields
<1>2. Indexes(t.kvh, KeyOfSeq(w))
  BY <1>1 DEF Indexed
<1>3. IsFiniteSet(S) /\ Cardinality(S) = Cardinality(Left(t, t.kvh[i], "inet6"))
  <2> DEFINE kvh == t.kvh
             keyOf == KeyOfSeq(w)
  <2>1. kvh \in Seq(Kv) /\ Indexes(kvh, keyOf) /\ i \in 1 .. Len(kvh)
    BY <1>1, <1>2
  <2> HIDE DEF kvh, keyOf
  <2>2. AsMany(LeftWith(t, keyOf, kvh[i].key, "inet6"), Left(t, kvh[i], "inet6"))
    BY Zenon, <2>1, LeftCounted
  <2> QED
    BY <2>2 DEF AsMany, kvh, keyOf
<1>4. /\ DOMAIN KeyOfSeq(w) = Sequenced(v)
      /\ \A n \in Sequenced(v) : KeyOfSeq(w)[n] = w[n].key
  BY <1>1 DEF KeyOfSeq
<1>5. A = {m \in DOMAIN v : /\ v[m].type = "inet6" /\ (v[m].dbm = DbmInval \/ v[m].dbm > c)
                            /\ v[m].key = key}
  BY DEF HeardAbove
<1>6. S = {m \in DOMAIN KeyOfSeq(w) : KeyOfSeq(w)[m] = key /\ ~w[m].filtered /\ w[m].type = "inet6"}
  BY DEF LeftWith
<1> HIDE DEF v, w, key, A, S
<1>7. \A n : n \in S <=> n \in A
  BY <1>1, <1>4, <1>5, <1>6 DEF Sequenced, IsMessage
<1>8. S = A
  BY <1>7
<1> QED
  BY <1>3, <1>8 DEF AsMany, HeardWith, A, v, key

(* ... and for a block.                                                    *)
LEMMA BlockCounted ==
  ASSUME NEW s \in Store, NEW t, NEW c \in Int, Weakened(s, t, c), NEW n \in Sequenced(s.v)
  PROVE  LET B == {m \in HeardAbove(s, c) : s.v[m].block = s.v[n].block}
         IN  IsFiniteSet(B) /\ Ethernet(t, BlockKv(t, s.v[n].block)) = Cardinality(B)
<1> DEFINE v == s.v
           w == t.v
           b == s.v[n].block
           i == KvAt(t.block_kvh, b)
           B == {m \in HeardAbove(s, c) : v[m].block = b}
           S == LeftWith(t, KeyOfBlock(w), b, "inet6")
<1>1. /\ Indexed(t) /\ t.block_kvh \in Seq(Kv)
      /\ DOMAIN w = DOMAIN v /\ Sequenced(w) = Sequenced(v)
      /\ \A m \in DOMAIN v : w[m].type = v[m].type /\ w[m].block = v[m].block
      /\ \A m \in DOMAIN v : v[m].type = "inet6" =>
           (~w[m].filtered <=> v[m].dbm = DbmInval \/ v[m].dbm > c)
  BY WeakenedFields
<1>2. i \in 1 .. Len(t.block_kvh) /\ t.block_kvh[i].key = b
  <2>1. n \in Sequenced(w) /\ n \in DOMAIN v /\ w[n].block = b
    BY <1>1 DEF Sequenced
  <2>2. /\ KvAt(t.block_kvh, w[n].block) \in DOMAIN t.block_kvh
        /\ t.block_kvh[KvAt(t.block_kvh, w[n].block)].key = w[n].block
    BY <1>1, <2>1, ListsOf
  <2> QED
    BY <1>1, <2>1, <2>2, KvTypes
<1>3. Indexes(t.block_kvh, KeyOfBlock(w))
  BY <1>1 DEF Indexed
<1> HIDE DEF i, b
<1>4. IsFiniteSet(S) /\ Cardinality(S) = Cardinality(Left(t, t.block_kvh[i], "inet6"))
  <2> DEFINE kvh == t.block_kvh
             keyOf == KeyOfBlock(w)
  <2>1. kvh \in Seq(Kv) /\ Indexes(kvh, keyOf) /\ i \in 1 .. Len(kvh) /\ kvh[i].key = b
    BY <1>1, <1>2, <1>3
  <2> HIDE DEF kvh, keyOf
  <2>2. AsMany(LeftWith(t, keyOf, kvh[i].key, "inet6"), Left(t, kvh[i], "inet6"))
    BY Zenon, <2>1, LeftCounted
  <2> QED
    BY <2>1, <2>2 DEF AsMany, kvh, keyOf
<1>5. /\ DOMAIN KeyOfBlock(w) = Sequenced(v)
      /\ \A m \in Sequenced(v) : KeyOfBlock(w)[m] = w[m].block
  BY <1>1 DEF KeyOfBlock
<1>6. B = {m \in DOMAIN v : /\ v[m].type = "inet6" /\ (v[m].dbm = DbmInval \/ v[m].dbm > c)
                            /\ v[m].block = b}
  BY DEF HeardAbove
<1>7. S = {m \in DOMAIN KeyOfBlock(w) : KeyOfBlock(w)[m] = b /\ ~w[m].filtered /\ w[m].type = "inet6"}
  BY DEF LeftWith
<1> HIDE DEF v, w, B, S
<1>8. \A m : m \in S <=> m \in B
  BY <1>1, <1>5, <1>6, <1>7 DEF Sequenced, IsMessage
<1>9. S = B
  BY <1>8
<1> QED
  BY <1>4, <1>9 DEF Ethernet, BlockKv, B, v, b, i

(* No decoded record with n's sequence number comes after it.              *)
LastOf(v, n) ==
  \A m \in DOMAIN v : v[m].type = "decode" /\ v[m].key = v[n].key => m <= n

(* While no decoded frame is filtered, the last with a key is judged.      *)
LEMMA LastJudged ==
  ASSUME NEW t, Indexed(t), \A m \in DOMAIN t.v : t.v[m].type = "decode" => ~t.v[m].filtered,
         NEW n \in DOMAIN t.v, t.v[n].type = "decode",
         NEW i \in 1 .. Len(t.kvh), t.kvh[i].key = t.v[n].key
  PROVE  /\ Left(t, t.kvh[i], "decode") # {}
         /\ n = Judged(t, t.kvh[i]) <=> LastOf(t.v, n)
<1> DEFINE w == t.v
           vh == t.kvh[i].vh
           key == t.kvh[i].key
           keyOf == KeyOfSeq(w)
           L == Left(t, t.kvh[i], "decode")
           J == Judged(t, t.kvh[i])
           top == Max(L)
<1>1. t.kvh \in Seq(Kv) /\ Indexes(t.kvh, keyOf) /\ w \in Seq(VRec)
  BY StoreTypes DEF Indexed
<1>2. DOMAIN keyOf = Sequenced(w) /\ \A m \in Sequenced(w) : keyOf[m] = w[m].key
  BY DEF KeyOfSeq
<1>3. /\ vh \in Seq(Nat)
      /\ \A k \in 1 .. Len(vh) : vh[k] \in DOMAIN keyOf /\ keyOf[vh[k]] = key
      /\ \A k, l \in 1 .. Len(vh) : k < l => vh[k] < vh[l]
      /\ \A m \in DOMAIN keyOf : keyOf[m] = key => \E k \in 1 .. Len(vh) : vh[k] = m
  <2> DEFINE kvh == t.kvh
  <2>1. kvh \in Seq(Kv) /\ Indexes(kvh, keyOf) /\ i \in 1 .. Len(kvh)
    BY <1>1
  <2> HIDE DEF kvh, keyOf
  <2>2. kvh[i].vh \in Seq(Nat)
    BY <2>1, ListAt
  <2>3. \A k \in 1 .. Len(kvh[i].vh) :
          kvh[i].vh[k] \in DOMAIN keyOf /\ keyOf[kvh[i].vh[k]] = kvh[i].key
    BY <2>1, ListAt
  <2>4. \A k, l \in 1 .. Len(kvh[i].vh) : k < l => kvh[i].vh[k] < kvh[i].vh[l]
    BY <2>1, ListAt
  <2>5. \A m \in DOMAIN keyOf : keyOf[m] = kvh[i].key =>
          \E k \in 1 .. Len(kvh[i].vh) : kvh[i].vh[k] = m
    BY <2>1, ListAt
  <2> QED
    BY <2>2, <2>3, <2>4, <2>5 DEF kvh
<1>4. DOMAIN vh = 1 .. Len(vh) /\ Len(vh) \in Nat
  BY <1>3
<1>5. L = {k \in 1 .. Len(vh) : ~w[vh[k]].filtered /\ w[vh[k]].type = "decode"}
  BY <1>4 DEF Left
<1>6. i \in DOMAIN t.kvh
  BY <1>1, KvTypes
<1>7. /\ L # {} => /\ top \in L /\ J = vh[top] /\ \A k \in L : k <= top
                   /\ J \in Sequenced(w) /\ w[J].type = "decode" /\ w[J].key = key
  BY <1>6, JudgedLeft
<1>8. n \in DOMAIN w /\ w[n].type = "decode" /\ w[n].key = key
      /\ \A m \in DOMAIN w : w[m].type = "decode" => ~w[m].filtered
  OBVIOUS
<1> HIDE DEF w, vh, key, keyOf, L, J, top
<1>9. ASSUME NEW m \in DOMAIN w, w[m].type = "decode", w[m].key = key
      PROVE  \E k \in L : vh[k] = m
  <2>1. m \in Sequenced(w)
    BY <1>9 DEF Sequenced, IsMessage
  <2>2. PICK k \in 1 .. Len(vh) : vh[k] = m
    BY <1>2, <1>3, <1>9, <2>1
  <2> QED
    BY <1>5, <1>8, <1>9, <2>2
<1>10. L # {}
  BY <1>8, <1>9
<1>11. /\ top \in L /\ J = vh[top] /\ \A k \in L : k <= top
       /\ J \in DOMAIN w /\ w[J].type = "decode" /\ w[J].key = key
  BY <1>7, <1>10 DEF Sequenced
<1>12. ASSUME NEW m \in DOMAIN w, w[m].type = "decode", w[m].key = key
       PROVE  m <= J /\ m \in Nat /\ J \in Nat
  <2>1. PICK k \in L : vh[k] = m
    BY <1>9, <1>12
  <2>2. k \in 1 .. Len(vh) /\ top \in 1 .. Len(vh) /\ k <= top
    BY <1>5, <1>11
  <2>3. vh[k] \in Nat /\ vh[top] \in Nat
    BY <1>3, <2>2
  <2>4. k = top \/ k < top
    BY <1>4, <2>2
  <2>5. k < top => vh[k] < vh[top]
    BY <1>3, <2>2
  <2> QED
    BY <1>11, <2>1, <2>3, <2>4, <2>5
<1>13. n = J => LastOf(w, n)
  BY <1>8, <1>12 DEF LastOf
<1>14. LastOf(w, n) => n = J
  <2> SUFFICES ASSUME LastOf(w, n) PROVE n = J
    OBVIOUS
  <2>1. J <= n
    BY <1>8, <1>11 DEF LastOf
  <2>2. n <= J /\ n \in Nat /\ J \in Nat
    BY <1>8, <1>12
  <2> QED
    BY <2>1, <2>2
<1> QED
  BY <1>10, <1>13, <1>14 DEF L, J, w

(* What was heard above c of record n's fragment, and of its block.        *)
HeardAlike(s, c, n) == {m \in HeardAbove(s, c) : s.v[m].key = s.v[n].key}

HeardOfBlock(s, c, n) == {m \in HeardAbove(s, c) : s.v[m].block = s.v[n].block}

(* log_update_kv drops the last decoded frame with a key when nothing with *)
(* that key is left and less than fec_k records are left of its block, and *)
(* no other.                                                               *)
LEMMA DroppedExact ==
  ASSUME NEW s \in Store, NEW t, NEW c \in Int, Weakened(s, t, c),
         NEW n \in DOMAIN s.v, s.v[n].type = "decode"
  PROVE  /\ IsFiniteSet(HeardOfBlock(s, c, n))
         /\ n \in Dropped(t) <=>
              /\ LastOf(s.v, n) /\ HeardAlike(s, c, n) = {}
              /\ Cardinality(HeardOfBlock(s, c, n)) < s.fec_k
<1> DEFINE v == s.v
           w == t.v
           A == {m \in HeardAbove(s, c) : v[m].key = v[n].key}
           B == {m \in HeardAbove(s, c) : v[m].block = v[n].block}
           i == KvAt(t.kvh, v[n].key)
           kv == t.kvh[i]
<1>1. /\ Indexed(t) /\ t.kvh \in Seq(Kv)
      /\ DOMAIN w = DOMAIN v /\ Sequenced(w) = Sequenced(v)
      /\ \A m \in DOMAIN v : w[m].type = v[m].type /\ w[m].key = v[m].key /\ w[m].block = v[m].block
      /\ \A m \in DOMAIN v : v[m].type = "decode" => ~w[m].filtered
  BY WeakenedFields
<1>2. n \in Sequenced(v) /\ n \in Sequenced(w) /\ n \in DOMAIN v /\ v[n].type = "decode"
  BY <1>1 DEF Sequenced, IsMessage
<1>3. i \in DOMAIN t.kvh /\ i \in 1 .. Len(t.kvh) /\ kv \in Kv /\ kv.key = v[n].key
  <2>1. w[n].key = v[n].key
    BY <1>1, <1>2
  <2>2. /\ KvAt(t.kvh, w[n].key) \in DOMAIN t.kvh
        /\ t.kvh[KvAt(t.kvh, w[n].key)] \in Kv
        /\ t.kvh[KvAt(t.kvh, w[n].key)].key = w[n].key
    BY <1>1, <1>2, ListsOf
  <2> QED
    BY <1>1, <2>1, <2>2, KvTypes
<1>4. IsFiniteSet(A) /\ Ethernet(t, kv) = Cardinality(A)
  <2> HIDE DEF i
  <2>1. AsMany(HeardWith(s, c, t.kvh[i].key), Left(t, t.kvh[i], "inet6"))
    BY Zenon, <1>3, AlikeCounted
  <2>2. HeardWith(s, c, t.kvh[i].key) = A
    BY <1>3 DEF HeardWith
  <2> QED
    BY <2>1, <2>2 DEF AsMany, Ethernet
<1>5. IsFiniteSet(B) /\ Ethernet(t, BlockKv(t, v[n].block)) = Cardinality(B)
  BY <1>2, BlockCounted
<1>6. s.fec_k = t.fec_k /\ t.fec_k \in Nat
  BY DEF Weakened, SameStore, Store
<1>7. Left(t, kv, "decode") # {} /\ (n = Judged(t, kv) <=> LastOf(w, n))
  <2>1. \A m \in DOMAIN w : w[m].type = "decode" => ~w[m].filtered
    BY <1>1
  <2>2. n \in DOMAIN w /\ w[n].type = "decode" /\ t.kvh[i].key = w[n].key
    BY <1>1, <1>2, <1>3
  <2> QED
    BY <1>1, <1>3, <2>1, <2>2, LastJudged
<1>8. LastOf(w, n) <=> LastOf(v, n)
  BY <1>1, <1>2 DEF LastOf
<1>9. n \in Dropped(t) <=> \E j \in DOMAIN t.kvh :
        /\ Left(t, t.kvh[j], "decode") # {} /\ Verdict(t, t.kvh[j]) = "lost"
        /\ n = Judged(t, t.kvh[j])
  BY DroppedBy
<1>10. n \in Dropped(t) <=> Verdict(t, kv) = "lost" /\ n = Judged(t, kv)
  <2>1. ASSUME NEW j \in DOMAIN t.kvh, Left(t, t.kvh[j], "decode") # {},
               n = Judged(t, t.kvh[j])
        PROVE  j = i
    <3>1. w[n].key = t.kvh[j].key
      BY <1>1, <2>1, JudgedLeft
    <3>2. w[n].key = v[n].key
      BY <1>1, <1>2
    <3>3. Ascending(t.kvh)
      BY <1>1 DEF Indexed, Indexes
    <3>4. KvAt(t.kvh, t.kvh[j].key) = j
      BY <1>1, <3>3, KvAtKey
    <3> QED
      BY <3>1, <3>2, <3>4
  <2> HIDE DEF i
  <2> QED
    BY <1>3, <1>7, <1>9, <2>1
<1>11. A = {} <=> Ethernet(t, kv) = 0
  BY <1>4, FS_EmptySet
<1>12. Ethernet(t, kv) \in Nat /\ Cardinality(B) \in Nat
  BY <1>3, <1>5, EthernetType, FS_CardinalityType
<1>13. FecRecovers(t, kv) <=> Ethernet(t, BlockKv(t, w[Judged(t, kv)].block)) >= t.fec_k
  BY DEF FecRecovers
<1>14. w[n].block = v[n].block
  BY <1>1, <1>2
<1> HIDE DEF A, B, i, kv, v, w
<1>15. Verdict(t, kv) = "lost" <=> Ethernet(t, kv) = 0 /\ ~FecRecovers(t, kv)
  <2>1. CASE Ethernet(t, kv) > 0
    BY <1>7, <1>12, <2>1 DEF Verdict
  <2>2. CASE Ethernet(t, kv) = 0
    BY <1>7, <2>2 DEF Verdict
  <2> QED
    BY <1>12, <2>1, <2>2
<1>16. n = Judged(t, kv) => (~FecRecovers(t, kv) <=> Cardinality(B) < s.fec_k)
  BY <1>5, <1>6, <1>12, <1>13, <1>14
<1>17. n \in Dropped(t) <=> LastOf(v, n) /\ A = {} /\ Cardinality(B) < s.fec_k
  BY <1>7, <1>8, <1>10, <1>11, <1>15, <1>16
<1> QED
  BY <1>5, <1>17 DEF A, B, v, HeardAlike, HeardOfBlock

(* log_filter_dbm, in any store, with any code, any duplicates and any     *)
(* number of sessions and mirrors: a decoded frame is dropped only when    *)
(* nothing above the cut-off was heard of it, and of fewer than fec_k      *)
(* fragments of its block; the last with its number is, when fewer than    *)
(* fec_k records of its block are left.                                    *)
THEOREM FilterIsExact == Spec => []FilterExact
<1>1. ASSUME ChunkInv, ShellInv PROVE FilterExact
  <2> SUFFICES ASSUME cut # NoCut, NEW n \in DOMAIN ls.v, ls.v[n].type = "decode"
               PROVE  LET heard == HeardAbove(ls, cut)
                          alike == {m \in heard : ls.v[m].key = ls.v[n].key}
                          block == {m \in heard : ls.v[m].block = ls.v[n].block}
                      IN  /\ ls.v[n].filtered =>
                               alike = {} /\ Cardinality({ls.v[m].key : m \in block}) < ls.fec_k
                          /\ LastOf(ls.v, n) /\ alike = {} /\ Cardinality(block) < ls.fec_k =>
                               ls.v[n].filtered
    BY DEF FilterExact, LastOf
  <2> DEFINE s == LoadLog(logs[source])
             t == MarkWeak(FilterReset(s), cut)
  <2>1. source # NoLog /\ cut \in Int
    BY <1>1 DEF ShellInv
  <2>2. SameStore(s, ls) /\ ls = UpdateKv(t)
    BY <1>1, <2>1 DEF ShellInv, FilterDbm
  <2>3. logs[source] \in Seq(Chunk)
    BY <1>1, <2>1 DEF ShellInv, ChunkInv
  <2>4. Sound(s) /\ s \in Store /\ s.v \in Seq(VRec)
    BY <2>3, LogLoaded, StoreTypes
  <2>5. Weakened(s, t, cut)
    BY <2>1, <2>4, WeakMarked
  <2> HIDE DEF s, t
  <2> DEFINE v == s.v
             w == ls.v
  <2>6. DOMAIN w = DOMAIN v /\ \A m \in DOMAIN v :
          /\ w[m].type = v[m].type /\ w[m].key = v[m].key /\ w[m].block = v[m].block
          /\ w[m].dbm = v[m].dbm
    <3>1. v \in Seq(VRec) /\ SameRecords(v, w)
      BY <2>2, <2>4 DEF SameStore
    <3> HIDE DEF v, w
    <3>2. \A m \in DOMAIN v : w[m].type = v[m].type /\ w[m].key = v[m].key
            /\ w[m].block = v[m].block /\ w[m].dbm = v[m].dbm
      BY <3>1, MarkedFields
    <3> QED
      BY <3>1, <3>2 DEF SameRecords
  <2>7. n \in DOMAIN v /\ v[n].type = "decode"
    BY <2>6
  <2>8. /\ DOMAIN t.v = DOMAIN v /\ t.v \in Seq(VRec) /\ t \in Store /\ ~t.v[n].filtered
    BY <2>1, <2>4, <2>5, <2>7, WeakenedFields DEF Indexed
  <2>9. w[n].filtered <=> n \in Dropped(t)
    <3> DEFINE u == [m \in DOMAIN t.v |->
                       IF m \in Dropped(t) THEN [t.v[m] EXCEPT !.filtered = TRUE] ELSE t.v[m]]
    <3>1. ls.v = u
      <4> DEFINE k1 == [i \in DOMAIN t.kvh |-> UpdateSeq(t, t.kvh[i])]
                 k2 == [i \in DOMAIN t.block_kvh |-> UpdateBlock(t, t.block_kvh[i])]
      <4>1. ls = [t EXCEPT !.v = u, !.kvh = k1, !.block_kvh = k2]
        BY <2>2 DEF UpdateKv
      <4> HIDE DEF u, k1, k2
      <4> QED
        BY <2>8, <4>1 DEF Store
    <3>2. t.v[n] \in VRec
      BY <2>7, <2>8, VTypes
    <3>3. CASE n \in Dropped(t)
      <4>1. ls.v[n] = [t.v[n] EXCEPT !.filtered = TRUE]
        BY <2>7, <2>8, <3>1, <3>3
      <4> QED
        BY <3>2, <3>3, <4>1 DEF VRec
    <3>4. CASE n \notin Dropped(t)
      <4>1. ls.v[n] = t.v[n]
        BY <2>7, <2>8, <3>1, <3>4
      <4> QED
        BY <2>8, <3>4, <4>1
    <3> QED
      BY <3>3, <3>4
  <2> DEFINE heard == HeardAbove(s, cut)
             alike == HeardAlike(s, cut, n)
             block == HeardOfBlock(s, cut, n)
             frags == {v[m].key : m \in block}
  <2>10. /\ IsFiniteSet(block)
         /\ n \in Dropped(t) <=> LastOf(v, n) /\ alike = {} /\ Cardinality(block) < s.fec_k
    BY <2>1, <2>4, <2>5, <2>7, DroppedExact
  <2>11. HeardAbove(ls, cut) = heard /\ heard \subseteq DOMAIN v
    BY <2>6 DEF HeardAbove
  <2>12. ls.fec_k = s.fec_k /\ s.fec_k \in Nat
    BY <2>2, <2>4 DEF SameStore, Store
  <2> HIDE DEF v, w, heard
  <2>13. LastOf(w, n) <=> LastOf(v, n)
    BY <2>6, <2>7 DEF LastOf
  <2>14. /\ {m \in heard : w[m].key = w[n].key} = alike
         /\ {m \in heard : w[m].block = w[n].block} = block
         /\ {w[m].key : m \in block} = frags
    <3>1. /\ alike = {m \in heard : v[m].key = v[n].key}
          /\ block = {m \in heard : v[m].block = v[n].block}
      BY DEF HeardAlike, HeardOfBlock, heard, v
    <3> HIDE DEF alike, block
    <3> QED
      BY <2>6, <2>7, <2>11, <3>1
  <2>15. Cardinality(frags) <= Cardinality(block) /\ Cardinality(frags) \in Nat
         /\ Cardinality(block) \in Nat
    <3> DEFINE g == [m \in block |-> v[m].key]
    <3> HIDE DEF block
    <3>1. g \in Surjection(block, frags)
      BY DEF Surjection
    <3> HIDE DEF g, frags
    <3>2. IsFiniteSet(frags) /\ Cardinality(frags) <= Cardinality(block)
      BY <2>10, <3>1, FS_Surjection
    <3> QED
      BY <2>10, <3>2, FS_CardinalityType
  <2> HIDE DEF alike, block, frags
  <2>16. w[n].filtered => alike = {} /\ Cardinality(frags) < ls.fec_k
    BY <2>9, <2>10, <2>12, <2>15
  <2>17. LastOf(w, n) /\ alike = {} /\ Cardinality(block) < ls.fec_k => w[n].filtered
    BY <2>9, <2>10, <2>12, <2>13
  <2> QED
    BY <2>11, <2>14, <2>16, <2>17 DEF w
<1> QED
  BY <1>1, ShellAlways, PTL

-----------------------------------------------------------------------------
(* The order of a replay                                                   *)

(* The lists in one sequence, list by list.                                *)
LEMMA FlattenedBy ==
  ASSUME NEW seqs, Len(seqs) \in Nat, Len(seqs) # 0
  PROVE  \E f : /\ FlattenSeq(seqs) = f[Len(seqs)]
                /\ \A i \in 1 .. Len(seqs) :
                     f[i] = IF i = 1 THEN seqs[i] ELSE f[i - 1] \o seqs[i]
<1> DEFINE Upto(f, n) == f = [i \in 1 .. n |->
             IF i = 1 THEN seqs[i] ELSE f[i - 1] \o seqs[i]]
           Bad == {n \in Nat : ~ \E f : Upto(f, n)}
<1>1. Bad = {}
  <2> SUFFICES ASSUME Bad # {} PROVE FALSE
    OBVIOUS
  <2>1. PICK n \in Bad : \A m \in Bad : n <= m
    <3>1. Bad \subseteq Nat
      OBVIOUS
    <3> HIDE DEF Bad
    <3> QED
      BY <3>1, LeastNat
  <2>2. n \in Nat
    OBVIOUS
  <2>3. CASE n = 0
    <3> DEFINE f == [i \in 1 .. 0 |-> <<>>]
    <3>1. Upto(f, 0)
      OBVIOUS
    <3> QED
      BY <2>1, <2>3, <3>1
  <2>4. CASE n # 0
    <3>1. n - 1 \in Nat /\ n - 1 \notin Bad
      <4>1. n - 1 \in Nat /\ ~(n <= n - 1)
        BY <2>2, <2>4
      <4> HIDE DEF Bad
      <4> QED
        BY <2>1, <4>1
    <3>2. PICK f : Upto(f, n - 1)
      <4> HIDE DEF Upto
      <4> QED
        BY Zenon, <3>1
    <3> DEFINE last == IF n = 1 THEN seqs[n] ELSE f[n - 1] \o seqs[n]
               g == [i \in 1 .. n |-> IF i < n THEN f[i] ELSE last]
    <3>3. Upto(g, n)
      <4>1. ASSUME NEW i \in 1 .. n
            PROVE  g[i] = IF i = 1 THEN seqs[i] ELSE g[i - 1] \o seqs[i]
        <5>1. CASE i = n
          BY <2>2, <2>4, <5>1
        <5>2. CASE i # n
          <6>1. i \in 1 .. n - 1 /\ g[i] = f[i] /\ (i # 1 => g[i - 1] = f[i - 1])
            BY <2>2, <5>2
          <6>2. f[i] = IF i = 1 THEN seqs[i] ELSE f[i - 1] \o seqs[i]
            BY <3>2, <6>1
          <6> QED
            BY <6>1, <6>2
        <5> QED
          BY <5>1, <5>2
      <4> QED
        BY <4>1
    <3> QED
      BY <2>1, <3>3
  <2> QED
    BY <2>3, <2>4
<1> DEFINE h == CHOOSE f : Upto(f, Len(seqs))
<1>2. Upto(h, Len(seqs))
  <2>1. \E f : Upto(f, Len(seqs))
    BY <1>1
  <2> HIDE DEF Upto
  <2> QED
    BY <2>1
<1>3. FlattenSeq(seqs) = h[Len(seqs)]
  BY DEF FlattenSeq
<1> HIDE DEF h
<1>4. \A i \in 1 .. Len(seqs) : h[i] = IF i = 1 THEN seqs[i] ELSE h[i - 1] \o seqs[i]
  BY <1>2
<1> QED
  BY <1>3, <1>4

(* send_data's walk, record by record.                                     *)
LEMMA SentBy ==
  ASSUME NEW s, Len(Walk(s)) \in Nat
  PROVE  LET walk == Walk(s) IN
         \E f : /\ PlayList(s) = f[Len(walk)]
                /\ \A i \in 0 .. Len(walk) :
                     f[i] = IF i = 0 THEN <<>>
                            ELSE IF Sendable(s, walk[i]) THEN Append(f[i - 1], walk[i])
                            ELSE f[i - 1]
<1> DEFINE walk == Walk(s)
           Upto(f, n) == f = [i \in 0 .. n |->
             IF i = 0 THEN <<>>
             ELSE IF Sendable(s, walk[i]) THEN Append(f[i - 1], walk[i])
             ELSE f[i - 1]]
           Bad == {n \in Nat : ~ \E f : Upto(f, n)}
<1> HIDE DEF walk
<1>0. Len(walk) \in Nat
  BY DEF walk
<1>1. Bad = {}
  <2> SUFFICES ASSUME Bad # {} PROVE FALSE
    OBVIOUS
  <2>1. PICK n \in Bad : \A m \in Bad : n <= m
    <3>1. Bad \subseteq Nat
      OBVIOUS
    <3> HIDE DEF Bad
    <3> QED
      BY <3>1, LeastNat
  <2>2. n \in Nat
    OBVIOUS
  <2>3. CASE n = 0
    <3> DEFINE f == [i \in 0 .. 0 |-> <<>>]
    <3>1. Upto(f, 0)
      OBVIOUS
    <3> QED
      BY <2>1, <2>3, <3>1
  <2>4. CASE n # 0
    <3>1. n - 1 \in Nat /\ n - 1 \notin Bad
      <4>1. n - 1 \in Nat /\ ~(n <= n - 1)
        BY <2>2, <2>4
      <4> HIDE DEF Bad
      <4> QED
        BY <2>1, <4>1
    <3>2. PICK f : Upto(f, n - 1)
      <4> HIDE DEF Upto
      <4> QED
        BY Zenon, <3>1
    <3> DEFINE last == IF Sendable(s, walk[n]) THEN Append(f[n - 1], walk[n]) ELSE f[n - 1]
               g == [i \in 0 .. n |-> IF i < n THEN f[i] ELSE last]
    <3>3. Upto(g, n)
      <4>1. ASSUME NEW i \in 0 .. n
            PROVE  g[i] = IF i = 0 THEN <<>>
                          ELSE IF Sendable(s, walk[i]) THEN Append(g[i - 1], walk[i])
                          ELSE g[i - 1]
        <5>1. CASE i = n
          BY <2>2, <2>4, <5>1
        <5>2. CASE i # n
          <6>1. i \in 0 .. n - 1 /\ g[i] = f[i] /\ (i # 0 => g[i - 1] = f[i - 1])
            BY <2>2, <5>2
          <6>2. f[i] = IF i = 0 THEN <<>>
                       ELSE IF Sendable(s, walk[i]) THEN Append(f[i - 1], walk[i])
                       ELSE f[i - 1]
            BY <3>2, <6>1
          <6> QED
            BY <6>1, <6>2
        <5> QED
          BY <5>1, <5>2
      <4> QED
        BY <4>1
    <3> QED
      BY <2>1, <3>3
  <2> QED
    BY <2>3, <2>4
<1> DEFINE h == CHOOSE f : Upto(f, Len(walk))
<1>2. Upto(h, Len(walk))
  <2>1. \E f : Upto(f, Len(walk))
    BY <1>0, <1>1
  <2> HIDE DEF Upto
  <2> QED
    BY <2>1
<1>3. PlayList(s) = h[Len(walk)]
  BY DEF PlayList, walk
<1> HIDE DEF h
<1>4. \A i \in 0 .. Len(walk) :
        h[i] = IF i = 0 THEN <<>>
               ELSE IF Sendable(s, walk[i]) THEN Append(h[i - 1], walk[i])
               ELSE h[i - 1]
  BY <1>2
<1> QED
  BY <1>3, <1>4 DEF walk

(* No record twice, in the order of their keys, and of those with one key  *)
(* in the order they were read.                                            *)
Before(m, n, keyOf) ==
  m # n /\ keyOf[m] <= keyOf[n] /\ (keyOf[m] = keyOf[n] => m < n)

Ranked(W, keyOf) ==
  \A p, q \in 1 .. Len(W) : p < q => Before(W[p], W[q], keyOf)

(* W is what the first i lists hold.                                       *)
Walked(W, kvh, keyOf, i) ==
  /\ W \in Seq(Nat)
  /\ \A p \in 1 .. Len(W) : W[p] \in DOMAIN keyOf /\ keyOf[W[p]] <= kvh[i].key
  /\ \A n \in DOMAIN keyOf : keyOf[n] <= kvh[i].key => \E p \in 1 .. Len(W) : W[p] = n
  /\ Ranked(W, keyOf)

(* The first list ...                                                      *)
LEMMA FirstWalked ==
  ASSUME NEW kvh \in Seq(Kv), NEW keyOf, Indexes(kvh, keyOf), Len(kvh) # 0
  PROVE  Walked(kvh[1].vh, kvh, keyOf, 1)
<1> DEFINE W == kvh[1].vh
           x == kvh[1].key
<1>0. Len(kvh) \in Nat /\ 1 \in 1 .. Len(kvh)
  BY KvTypes
<1>1. /\ W \in Seq(Nat) /\ x \in Int
      /\ \A k \in 1 .. Len(W) : W[k] \in DOMAIN keyOf /\ keyOf[W[k]] = x
      /\ \A k, l \in 1 .. Len(W) : k < l => W[k] < W[l]
      /\ \A n \in DOMAIN keyOf : keyOf[n] = x => \E k \in 1 .. Len(W) : W[k] = n
      /\ \A n \in DOMAIN keyOf : \E j \in 1 .. Len(kvh) : keyOf[n] = kvh[j].key
  <2>1. W \in Seq(Nat) /\ x \in Int
    BY <1>0, ListAt
  <2>2. \A k \in 1 .. Len(W) : W[k] \in DOMAIN keyOf /\ keyOf[W[k]] = x
    BY <1>0, ListAt
  <2>3. \A k, l \in 1 .. Len(W) : k < l => W[k] < W[l]
    BY <1>0, ListAt
  <2>4. \A n \in DOMAIN keyOf : keyOf[n] = x => \E k \in 1 .. Len(W) : W[k] = n
    BY <1>0, ListAt
  <2>5. \A n \in DOMAIN keyOf : \E j \in 1 .. Len(kvh) : keyOf[n] = kvh[j].key
    BY <1>0, ListAt
  <2> QED
    BY <2>1, <2>2, <2>3, <2>4, <2>5
<1>2. ASSUME NEW n \in DOMAIN keyOf, keyOf[n] <= x PROVE keyOf[n] = x
  <2>1. PICK j \in 1 .. Len(kvh) : keyOf[n] = kvh[j].key
    BY <1>1
  <2>2. 1 < j => x < kvh[j].key
    BY <1>0, ListsAscend
  <2>3. kvh[j].key \in Int
    BY KvTypes
  <2> HIDE DEF x
  <2>4. ~(1 < j)
    BY <1>1, <1>2, <2>1, <2>2, <2>3
  <2>5. j = 1
    BY <1>0, <2>4
  <2> QED
    BY <2>1, <2>5 DEF x
<1> HIDE DEF W, x
<1>3. Ranked(W, keyOf)
  <2> SUFFICES ASSUME NEW p \in 1 .. Len(W), NEW q \in 1 .. Len(W), p < q
               PROVE  Before(W[p], W[q], keyOf)
    BY DEF Ranked
  <2>1. keyOf[W[p]] = x /\ keyOf[W[q]] = x
    BY <1>1
  <2>2. W[p] \in Nat /\ W[q] \in Nat
    BY <1>1
  <2>3. W[p] < W[q]
    BY <1>1
  <2>4. W[p] # W[q]
    BY <2>2, <2>3
  <2> QED
    BY <1>1, <2>1, <2>3, <2>4 DEF Before
<1>4. \A p \in 1 .. Len(W) : W[p] \in DOMAIN keyOf /\ keyOf[W[p]] <= x
  BY <1>1
<1>5. \A n \in DOMAIN keyOf : keyOf[n] <= x => \E p \in 1 .. Len(W) : W[p] = n
  BY <1>1, <1>2
<1> QED
  BY <1>1, <1>3, <1>4, <1>5 DEF Walked, W, x

(* ... and each list after it.                                             *)
LEMMA MoreWalked ==
  ASSUME NEW kvh \in Seq(Kv), NEW keyOf, Indexes(kvh, keyOf), NEW i \in 2 .. Len(kvh),
         NEW W, Walked(W, kvh, keyOf, i - 1)
  PROVE  Walked(W \o kvh[i].vh, kvh, keyOf, i)
<1> DEFINE V == kvh[i].vh
           new == W \o V
           x == kvh[i].key
           y == kvh[i - 1].key
<1>0. Len(kvh) \in Nat /\ i \in 1 .. Len(kvh) /\ i - 1 \in 1 .. Len(kvh) /\ i - 1 < i
  BY KvTypes
<1>1. /\ V \in Seq(Nat) /\ x \in Int
      /\ \A k \in 1 .. Len(V) : V[k] \in DOMAIN keyOf /\ keyOf[V[k]] = x
      /\ \A k, l \in 1 .. Len(V) : k < l => V[k] < V[l]
      /\ \A n \in DOMAIN keyOf : keyOf[n] = x => \E k \in 1 .. Len(V) : V[k] = n
      /\ \A n \in DOMAIN keyOf : keyOf[n] \in Int
      /\ \A n \in DOMAIN keyOf : \E j \in 1 .. Len(kvh) : keyOf[n] = kvh[j].key
  <2>1. V \in Seq(Nat) /\ x \in Int
    BY <1>0, ListAt
  <2>2. \A k \in 1 .. Len(V) : V[k] \in DOMAIN keyOf /\ keyOf[V[k]] = x
    BY <1>0, ListAt
  <2>3. \A k, l \in 1 .. Len(V) : k < l => V[k] < V[l]
    BY <1>0, ListAt
  <2>4. \A n \in DOMAIN keyOf : keyOf[n] = x => \E k \in 1 .. Len(V) : V[k] = n
    BY <1>0, ListAt
  <2>5. \A n \in DOMAIN keyOf : keyOf[n] \in Int
    BY <1>0, ListAt
  <2>6. \A n \in DOMAIN keyOf : \E j \in 1 .. Len(kvh) : keyOf[n] = kvh[j].key
    BY <1>0, ListAt
  <2> QED
    BY <2>1, <2>2, <2>3, <2>4, <2>5, <2>6
<1>2. y \in Int /\ y < x
  BY <1>0, KvTypes, ListsAscend
<1>3. /\ W \in Seq(Nat)
      /\ \A p \in 1 .. Len(W) : W[p] \in DOMAIN keyOf /\ keyOf[W[p]] <= y
      /\ \A n \in DOMAIN keyOf : keyOf[n] <= y => \E p \in 1 .. Len(W) : W[p] = n
      /\ Ranked(W, keyOf)
  BY DEF Walked
<1>4. ASSUME NEW n \in DOMAIN keyOf, keyOf[n] <= x PROVE keyOf[n] = x \/ keyOf[n] <= y
  <2>1. PICK j \in 1 .. Len(kvh) : keyOf[n] = kvh[j].key
    BY <1>1
  <2>2. (i < j => x < kvh[j].key) /\ (j < i - 1 => kvh[j].key < y)
    BY <1>0, ListsAscend
  <2>3. kvh[j].key \in Int
    BY KvTypes
  <2> HIDE DEF x, y
  <2>4. ~(i < j)
    BY <1>1, <1>4, <2>1, <2>2, <2>3
  <2>5. j = i \/ j = i - 1 \/ j < i - 1
    BY <1>0, <2>4
  <2>6. CASE j = i
    BY <2>1, <2>6 DEF x
  <2>7. CASE j = i - 1
    <3>1. keyOf[n] = y
      BY <2>1, <2>7 DEF y
    <3> QED
      BY <1>2, <3>1
  <2>8. CASE j < i - 1
    BY <1>2, <2>1, <2>2, <2>3, <2>8
  <2> QED
    BY <2>5, <2>6, <2>7, <2>8
<1> HIDE DEF V, x, y
<1>5. /\ new \in Seq(Nat) /\ Len(W) \in Nat /\ Len(V) \in Nat /\ Len(new) = Len(W) + Len(V)
      /\ \A p \in 1 .. Len(W) : new[p] = W[p]
      /\ \A p \in 1 .. Len(new) : p > Len(W) => new[p] = V[p - Len(W)]
  BY <1>1, <1>3
<1> HIDE DEF new
<1>6. ASSUME NEW p \in 1 .. Len(new)
      PROVE  \/ p \in 1 .. Len(W) /\ new[p] = W[p] /\ new[p] \in DOMAIN keyOf /\ keyOf[new[p]] <= y
             \/ /\ p > Len(W) /\ p - Len(W) \in 1 .. Len(V) /\ new[p] = V[p - Len(W)]
                /\ new[p] \in DOMAIN keyOf /\ keyOf[new[p]] = x
  <2>1. CASE p <= Len(W)
    <3>1. p \in 1 .. Len(W)
      BY <1>5, <2>1
    <3>2. new[p] = W[p]
      BY <1>5, <3>1
    <3> QED
      BY <1>3, <3>1, <3>2
  <2>2. CASE p > Len(W)
    <3>1. p - Len(W) \in 1 .. Len(V) /\ new[p] = V[p - Len(W)]
      BY <1>5, <2>2
    <3> QED
      BY <1>1, <2>2, <3>1
  <2> QED
    BY <1>5, <2>1, <2>2
<1>7. ASSUME NEW p \in 1 .. Len(new), NEW q \in 1 .. Len(new), p < q
      PROVE  Before(new[p], new[q], keyOf)
  <2>0. keyOf[new[p]] \in Int /\ keyOf[new[q]] \in Int
    BY <1>1, <1>6
  <2>1. CASE q <= Len(W)
    <3>1. p \in 1 .. Len(W) /\ q \in 1 .. Len(W)
      BY <1>5, <1>7, <2>1
    <3>2. Before(W[p], W[q], keyOf)
      BY <1>3, <1>7, <3>1 DEF Ranked
    <3> QED
      BY <1>5, <3>1, <3>2
  <2>2. CASE q > Len(W) /\ p <= Len(W)
    <3>1. keyOf[new[p]] <= y
      BY <1>5, <1>6, <2>2
    <3>2. keyOf[new[q]] = x
      BY <1>5, <1>6, <2>2
    <3>3. x \in Int
      BY <1>1
    <3>4. keyOf[new[p]] < keyOf[new[q]]
      BY <1>2, <2>0, <3>1, <3>2, <3>3
    <3>5. new[p] # new[q]
      BY <2>0, <3>4
    <3> QED
      BY <2>0, <3>4, <3>5 DEF Before
  <2>3. CASE p > Len(W)
    <3>0. p \in Nat /\ q \in Nat /\ Len(W) \in Nat /\ ~(p \in 1 .. Len(W)) /\ ~(q \in 1 .. Len(W))
      BY <1>5, <1>7, <2>3
    <3>1. /\ p - Len(W) \in 1 .. Len(V) /\ new[p] = V[p - Len(W)] /\ keyOf[new[p]] = x
          /\ q - Len(W) \in 1 .. Len(V) /\ new[q] = V[q - Len(W)] /\ keyOf[new[q]] = x
      BY <1>6, <3>0
    <3>4. p - Len(W) < q - Len(W)
      BY <1>7, <3>0
    <3>2. new[p] < new[q]
      <4>1. \A k, l \in 1 .. Len(V) : k < l => V[k] < V[l]
        BY <1>1
      <4>2. V[p - Len(W)] < V[q - Len(W)]
        BY <3>1, <3>4, <4>1
      <4> QED
        BY <3>1, <4>2
    <3>3. new[p] # new[q]
      <4>1. new[p] \in Nat /\ new[q] \in Nat
        <5>1. new \in Seq(Nat)
          BY <1>5
        <5> QED
          BY <5>1
      <4> QED
        BY <3>2, <4>1
    <3> QED
      BY <1>1, <3>1, <3>2, <3>3 DEF Before
  <2> QED
    BY <1>5, <2>1, <2>2, <2>3
<1>8. ASSUME NEW n \in DOMAIN keyOf, keyOf[n] <= x
      PROVE  \E p \in 1 .. Len(new) : new[p] = n
  <2>1. CASE keyOf[n] = x
    <3>1. PICK k \in 1 .. Len(V) : V[k] = n
      BY <1>1, <2>1
    <3>2. Len(W) + k \in 1 .. Len(new) /\ Len(W) + k > Len(W) /\ (Len(W) + k) - Len(W) = k
      BY <1>5
    <3>3. new[Len(W) + k] = V[k]
      BY <1>5, <3>2
    <3> QED
      BY <3>1, <3>2, <3>3
  <2>2. CASE keyOf[n] <= y
    <3>1. PICK p \in 1 .. Len(W) : W[p] = n
      BY <1>3, <2>2
    <3>2. p \in 1 .. Len(new) /\ new[p] = n
      BY <1>5, <3>1
    <3> QED
      BY <3>2
  <2> QED
    BY <1>4, <1>8, <2>1, <2>2
<1>9. \A p \in 1 .. Len(new) : new[p] \in DOMAIN keyOf /\ keyOf[new[p]] <= x
  <2> SUFFICES ASSUME NEW p \in 1 .. Len(new) PROVE new[p] \in DOMAIN keyOf /\ keyOf[new[p]] <= x
    OBVIOUS
  <2>1. new[p] \in DOMAIN keyOf /\ (keyOf[new[p]] <= y \/ keyOf[new[p]] = x)
    BY <1>6
  <2>2. keyOf[new[p]] \in Int
    BY <1>1, <2>1
  <2> QED
    BY <1>1, <1>2, <2>1, <2>2
<1>10. Walked(new, kvh, keyOf, i)
  BY <1>5, <1>7, <1>8, <1>9 DEF Walked, Ranked, x
<1> QED
  BY <1>10 DEF new, V

(* The walk meets every record that has a sequence number, once, in the    *)
(* order of the stream.                                                    *)
LEMMA WalkRanked ==
  ASSUME NEW s, Indexed(s)
  PROVE  /\ Walk(s) \in Seq(Nat) /\ Ranked(Walk(s), KeyOfSeq(s.v))
         /\ \A p \in 1 .. Len(Walk(s)) : Walk(s)[p] \in Sequenced(s.v)
         /\ \A n \in Sequenced(s.v) : \E p \in 1 .. Len(Walk(s)) : Walk(s)[p] = n
<1> DEFINE kvh == s.kvh
           keyOf == KeyOfSeq(s.v)
           seqs == [i \in DOMAIN kvh |-> kvh[i].vh]
           W == Walk(s)
<1>1. kvh \in Seq(Kv) /\ Indexes(kvh, keyOf)
  BY StoreTypes DEF Indexed
<1>2. DOMAIN keyOf = Sequenced(s.v)
  BY DEF KeyOfSeq
<1>3. W = FlattenSeq(seqs)
  BY DEF Walk
<1> HIDE DEF kvh, keyOf, W
<1>4. Len(kvh) \in Nat /\ DOMAIN kvh = 1 .. Len(kvh) /\ \A i \in 1 .. Len(kvh) : kvh[i].vh \in Seq(Nat)
  BY <1>1, KvTypes
<1>5. seqs \in Seq(Seq(Nat)) /\ Len(seqs) = Len(kvh) /\ \A i \in 1 .. Len(kvh) : seqs[i] = kvh[i].vh
  <2>1. seqs \in [1 .. Len(kvh) -> Seq(Nat)]
    BY <1>4
  <2>2. seqs \in Seq(Seq(Nat))
    BY <1>4, <2>1, SeqDef
  <2>3. DOMAIN seqs = 1 .. Len(seqs) /\ Len(seqs) \in Nat /\ DOMAIN seqs = 1 .. Len(kvh)
    BY <1>4, <2>2
  <2>4. \A x, y \in Nat : 1 .. x = 1 .. y => x = y
    <3> SUFFICES ASSUME NEW x \in Nat, NEW y \in Nat, 1 .. x = 1 .. y PROVE x = y
      OBVIOUS
    <3>1. x > 0 => x \in 1 .. y
      OBVIOUS
    <3>2. y > 0 => y \in 1 .. x
      OBVIOUS
    <3> QED
      BY <3>1, <3>2
  <2> QED
    BY <1>4, <2>2, <2>3, <2>4
<1> HIDE DEF seqs
<1>6. CASE Len(kvh) = 0
  <2>1. W = seqs
    BY <1>3, <1>5, <1>6 DEF FlattenSeq
  <2>2. seqs = <<>>
    BY <1>5, <1>6
  <2>3. W = <<>>
    BY <2>1, <2>2
  <2>4. W \in Seq(Nat) /\ Len(W) = 0
    BY <2>3
  <2>5. \A n \in DOMAIN keyOf : FALSE
    BY <1>1, <1>4, <1>6 DEF Indexes
  <2>6. Ranked(W, keyOf)
    BY <2>4 DEF Ranked
  <2> QED
    BY <1>2, <2>4, <2>5, <2>6 DEF W, keyOf
<1>7. CASE Len(kvh) # 0
  <2>1. PICK f : /\ FlattenSeq(seqs) = f[Len(seqs)]
                 /\ \A i \in 1 .. Len(seqs) :
                      f[i] = IF i = 1 THEN seqs[i] ELSE f[i - 1] \o seqs[i]
    BY <1>4, <1>5, <1>7, FlattenedBy
  <2>2. /\ W = f[Len(kvh)]
        /\ f[1] = kvh[1].vh
        /\ \A i \in 2 .. Len(kvh) : f[i] = f[i - 1] \o kvh[i].vh
    <3>1. Len(kvh) \in Nat /\ Len(seqs) = Len(kvh)
      BY <1>4, <1>5
    <3>2. 1 \in 1 .. Len(kvh) /\ \A i \in 2 .. Len(kvh) : i \in 1 .. Len(kvh) /\ i # 1
      BY <1>7, <3>1
    <3>3. \A i \in 1 .. Len(kvh) : f[i] = IF i = 1 THEN seqs[i] ELSE f[i - 1] \o seqs[i]
      BY <2>1, <3>1
    <3>4. f[1] = kvh[1].vh
      BY <1>5, <3>2, <3>3
    <3>5. ASSUME NEW i \in 2 .. Len(kvh) PROVE f[i] = f[i - 1] \o kvh[i].vh
      <4>1. i \in 1 .. Len(kvh) /\ i # 1
        BY <3>2
      <4>2. f[i] = f[i - 1] \o seqs[i] /\ seqs[i] = kvh[i].vh
        BY <1>5, <3>3, <4>1
      <4> QED
        BY <4>2
    <3> QED
      BY <1>3, <2>1, <3>1, <3>4, <3>5
  <2> DEFINE Bad == {i \in 1 .. Len(kvh) : ~Walked(f[i], kvh, keyOf, i)}
  <2>3. Bad = {}
    <3> SUFFICES ASSUME Bad # {} PROVE FALSE
      OBVIOUS
    <3>1. Bad \subseteq Nat
      BY <1>4
    <3>2. PICK i \in Bad : \A j \in Bad : i <= j
      BY <3>1, LeastNat
    <3>3. i # 1
      BY <1>1, <1>7, <2>2, <3>2, FirstWalked
    <3>4. i \in 2 .. Len(kvh) /\ i - 1 \in 1 .. Len(kvh) /\ i - 1 \notin Bad
      BY <1>4, <3>2, <3>3
    <3>5. Walked(f[i - 1], kvh, keyOf, i - 1) /\ f[i] = f[i - 1] \o kvh[i].vh
      BY <2>2, <3>4
    <3>6. Walked(f[i], kvh, keyOf, i)
      BY <1>1, <3>4, <3>5, MoreWalked
    <3> QED
      BY <3>2, <3>6
  <2>4. Walked(W, kvh, keyOf, Len(kvh))
    BY <1>4, <1>7, <2>2, <2>3
  <2>5. ASSUME NEW n \in DOMAIN keyOf PROVE keyOf[n] <= kvh[Len(kvh)].key
    <3>1. Len(kvh) \in 1 .. Len(kvh)
      BY <1>4, <1>7
    <3>2. PICK j \in 1 .. Len(kvh) : keyOf[n] = kvh[j].key
      BY <1>1, <3>1, ListAt
    <3>3. j < Len(kvh) => kvh[j].key < kvh[Len(kvh)].key
      BY <1>1, <3>1, ListsAscend
    <3>4. kvh[j].key \in Int /\ kvh[Len(kvh)].key \in Int
      BY <1>1, <3>1, KvTypes
    <3>5. CASE j = Len(kvh)
      BY <3>2, <3>4, <3>5
    <3>6. CASE j < Len(kvh)
      BY <3>2, <3>3, <3>4, <3>6
    <3>7. j = Len(kvh) \/ j < Len(kvh)
      <4>1. Len(kvh) \in Nat
        BY <1>4
      <4> QED
        BY <4>1
    <3> QED
      BY <3>5, <3>6, <3>7
  <2>6. /\ W \in Seq(Nat) /\ Ranked(W, keyOf)
        /\ \A p \in 1 .. Len(W) : W[p] \in DOMAIN keyOf
        /\ \A n \in DOMAIN keyOf : \E p \in 1 .. Len(W) : W[p] = n
    BY <2>4, <2>5 DEF Walked
  <2> QED
    BY <1>2, <2>6 DEF W, keyOf
<1> QED
  BY <1>6, <1>7

(* P is what was sent of the first i records of the walk.                  *)
Played(P, W, s, keyOf, i) ==
  /\ P \in Seq(Nat)
  /\ \A p \in 1 .. Len(P) : Sendable(s, P[p]) /\ \E q \in 1 .. i : P[p] = W[q]
  /\ \A q \in 1 .. i : Sendable(s, W[q]) => \E p \in 1 .. Len(P) : P[p] = W[q]
  /\ Ranked(P, keyOf)

(* The next record is sent, or passed over.                                *)
LEMMA MorePlayed ==
  ASSUME NEW s, NEW keyOf, NEW W \in Seq(Nat), Ranked(W, keyOf), NEW i \in 1 .. Len(W),
         NEW P, Played(P, W, s, keyOf, i - 1)
  PROVE  Played(IF Sendable(s, W[i]) THEN Append(P, W[i]) ELSE P, W, s, keyOf, i)
<1>1. /\ P \in Seq(Nat) /\ Ranked(P, keyOf)
      /\ \A p \in 1 .. Len(P) : Sendable(s, P[p]) /\ \E q \in 1 .. i - 1 : P[p] = W[q]
      /\ \A q \in 1 .. i - 1 : Sendable(s, W[q]) => \E p \in 1 .. Len(P) : P[p] = W[q]
  BY DEF Played
<1>2. Len(W) \in Nat /\ i \in Nat /\ i >= 1 /\ W[i] \in Nat
  OBVIOUS
<1>3. \A q \in 1 .. i : q \in 1 .. i - 1 \/ q = i
  BY <1>2
<1>4. \A q \in 1 .. i - 1 : q \in 1 .. i /\ q \in 1 .. Len(W) /\ q < i
  BY <1>2
<1>5. CASE ~Sendable(s, W[i])
  <2>1. \A p \in 1 .. Len(P) : Sendable(s, P[p]) /\ \E q \in 1 .. i : P[p] = W[q]
    BY <1>1, <1>4
  <2>2. \A q \in 1 .. i : Sendable(s, W[q]) => \E p \in 1 .. Len(P) : P[p] = W[q]
    BY <1>1, <1>3, <1>5
  <2> QED
    BY <1>1, <1>5, <2>1, <2>2 DEF Played
<1>6. CASE Sendable(s, W[i])
  <2> DEFINE new == Append(P, W[i])
             z == Len(P) + 1
  <2>1. /\ new \in Seq(Nat) /\ Len(new) = z /\ Len(P) \in Nat /\ new[z] = W[i]
        /\ \A p \in 1 .. Len(P) : new[p] = P[p]
    BY <1>1, <1>2
  <2> HIDE DEF new
  <2>2. \A p \in 1 .. Len(new) : p \in 1 .. Len(P) \/ p = z
    BY <2>1
  <2>3. z \in 1 .. Len(new) /\ \A p \in 1 .. Len(P) : p \in 1 .. Len(new)
    BY <2>1
  <2>4. i \in 1 .. i
    BY <1>2
  <2>5. \A p \in 1 .. Len(new) : Sendable(s, new[p]) /\ \E q \in 1 .. i : new[p] = W[q]
    <3> SUFFICES ASSUME NEW p \in 1 .. Len(new)
                 PROVE  Sendable(s, new[p]) /\ \E q \in 1 .. i : new[p] = W[q]
      OBVIOUS
    <3>1. CASE p \in 1 .. Len(P)
      <4>1. Sendable(s, P[p]) /\ \E q \in 1 .. i - 1 : P[p] = W[q]
        BY <1>1, <3>1
      <4> QED
        BY <1>4, <2>1, <3>1, <4>1
    <3>2. CASE p = z
      <4>1. new[p] = W[i]
        BY <2>1, <3>2
      <4> QED
        BY <1>6, <2>4, <4>1
    <3> QED
      BY <2>2, <3>1, <3>2
  <2>6. \A q \in 1 .. i : Sendable(s, W[q]) => \E p \in 1 .. Len(new) : new[p] = W[q]
    <3> HIDE DEF z
    <3> QED
      BY <1>1, <1>3, <2>1, <2>3
  <2>7. ASSUME NEW p \in 1 .. Len(new), NEW q \in 1 .. Len(new), p < q
        PROVE  Before(new[p], new[q], keyOf)
    <3>1. p \in 1 .. Len(P)
      BY <2>1, <2>7
    <3>2. CASE q \in 1 .. Len(P)
      <4>1. Before(P[p], P[q], keyOf)
        BY <1>1, <2>7, <3>1, <3>2 DEF Ranked
      <4> QED
        BY <2>1, <3>1, <3>2, <4>1
    <3>3. CASE q = z
      <4>1. PICK r \in 1 .. i - 1 : P[p] = W[r]
        BY <1>1, <3>1
      <4>2. r \in 1 .. Len(W) /\ r < i
        BY <1>4
      <4>3. Before(W[r], W[i], keyOf)
        BY <4>2 DEF Ranked
      <4> QED
        BY <2>1, <3>1, <3>3, <4>1, <4>3
    <3> QED
      BY <2>2, <3>2, <3>3
  <2>8. Played(new, W, s, keyOf, i)
    BY <2>1, <2>5, <2>6, <2>7 DEF Played, Ranked
  <2> QED
    BY <1>6, <2>8 DEF new
<1> QED
  BY <1>5, <1>6

(* send_data sends every record that it may, once, in order.               *)
LEMMA PlayRanked ==
  ASSUME NEW s, Indexed(s)
  PROVE  /\ PlayList(s) \in Seq(Nat) /\ Ranked(PlayList(s), KeyOfSeq(s.v))
         /\ \A p \in 1 .. Len(PlayList(s)) :
              Sendable(s, PlayList(s)[p]) /\ PlayList(s)[p] \in Sequenced(s.v)
         /\ \A n \in Sequenced(s.v) : Sendable(s, n) =>
              \E p \in 1 .. Len(PlayList(s)) : PlayList(s)[p] = n
<1> DEFINE W == Walk(s)
           P == PlayList(s)
           keyOf == KeyOfSeq(s.v)
<1>1. /\ W \in Seq(Nat) /\ Ranked(W, keyOf)
      /\ \A p \in 1 .. Len(W) : W[p] \in Sequenced(s.v)
      /\ \A n \in Sequenced(s.v) : \E p \in 1 .. Len(W) : W[p] = n
  BY WalkRanked
<1>2. Len(W) \in Nat
  BY <1>1
<1>3. PICK f : /\ P = f[Len(W)]
               /\ \A i \in 0 .. Len(W) :
                    f[i] = IF i = 0 THEN <<>>
                           ELSE IF Sendable(s, W[i]) THEN Append(f[i - 1], W[i])
                           ELSE f[i - 1]
  BY <1>2, SentBy
<1> HIDE DEF W, P, keyOf
<1> DEFINE Bad == {i \in 0 .. Len(W) : ~Played(f[i], W, s, keyOf, i)}
<1>4. Bad = {}
  <2> SUFFICES ASSUME Bad # {} PROVE FALSE
    OBVIOUS
  <2>1. Bad \subseteq Nat
    BY <1>2
  <2>2. PICK i \in Bad : \A j \in Bad : i <= j
    BY <2>1, LeastNat
  <2>3. i # 0
    <3>1. Played(<<>>, W, s, keyOf, 0)
      BY DEF Played, Ranked
    <3>2. f[0] = <<>>
      BY <1>2, <1>3
    <3> QED
      BY <2>2, <3>1, <3>2
  <2>4. i \in 1 .. Len(W) /\ i \in 0 .. Len(W) /\ i - 1 \in 0 .. Len(W) /\ i - 1 \notin Bad
    BY <1>2, <2>2, <2>3
  <2>5. /\ Played(f[i - 1], W, s, keyOf, i - 1)
        /\ f[i] = IF Sendable(s, W[i]) THEN Append(f[i - 1], W[i]) ELSE f[i - 1]
    BY <1>3, <2>3, <2>4
  <2>6. Played(f[i], W, s, keyOf, i)
    BY <1>1, <2>4, <2>5, MorePlayed
  <2> QED
    BY <2>2, <2>6
<1>5. Played(P, W, s, keyOf, Len(W))
  BY <1>2, <1>3, <1>4
<1>6. /\ P \in Seq(Nat) /\ Ranked(P, keyOf)
      /\ \A p \in 1 .. Len(P) : Sendable(s, P[p]) /\ P[p] \in Sequenced(s.v)
  BY <1>1, <1>5 DEF Played
<1>7. \A n \in Sequenced(s.v) : Sendable(s, n) => \E p \in 1 .. Len(P) : P[p] = n
  BY <1>1, <1>5 DEF Played
<1> QED
  BY <1>6, <1>7 DEF P, keyOf

(* A key names one fragment of one block, as long as the code is the same. *)
LEMMA KeyInjective ==
  ASSUME NEW code, code.n \in Nat \ {0}, NEW b \in Nat, NEW f \in 0 .. code.n - 1,
         NEW c \in Nat, NEW g \in 0 .. code.n - 1, Seq2Key(code, b, f) = Seq2Key(code, c, g)
  PROVE  b = c /\ f = g
<1> DEFINE w == code.n
<1>1. w \in Nat /\ w > 0 /\ f \in Nat /\ g \in Nat /\ f < w /\ g < w /\ b * w + f = c * w + g
  BY DEF Seq2Key
<1> HIDE DEF w
<1>2. ASSUME NEW x \in Nat, NEW y \in Nat, x < y
      PROVE  y * w >= x * w + w
  <2>1. PICK d \in Nat : y = (x + 1) + d
    <3>1. y - (x + 1) \in Nat /\ y = (x + 1) + (y - (x + 1))
      BY <1>2
    <3> QED
      BY <3>1
  <2>2. y * w = x * w + w + d * w
    BY <1>1, <2>1
  <2>3. d * w \in Nat /\ x * w \in Nat
    BY <1>1
  <2> QED
    BY <1>1, <2>2, <2>3
<1>3. b * w \in Nat /\ c * w \in Nat
  BY <1>1
<1>4. ~(b < c) /\ ~(c < b)
  <2>1. ASSUME b < c PROVE FALSE
    <3>1. c * w >= b * w + w
      BY <1>2, <2>1
    <3> QED
      BY <1>1, <1>3, <3>1
  <2>2. ASSUME c < b PROVE FALSE
    <3>1. b * w >= c * w + w
      BY <1>2, <2>2
    <3> QED
      BY <1>1, <1>3, <3>1
  <2> QED
    BY <2>1, <2>2
<1>5. b = c
  BY <1>4
<1> QED
  BY <1>1, <1>3, <1>5

(* Two decoded frames of a log have different sequence numbers, unless     *)
(* sessions share it.                                                      *)
LEMMA DecodedOnce ==
  ASSUME NEW log, NEW codes, NEW sent, NEW s, NEW pos, LoadedFrom(log, codes, sent, s, pos),
         Len(codes) = 1, NEW m \in DOMAIN s.v, NEW n \in DOMAIN s.v, m # n,
         s.v[m].type = "decode", s.v[n].type = "decode"
  PROVE  s.v[m].key # s.v[n].key
<1> DEFINE v == s.v
           x == pos[m]
           y == pos[n]
           code == codes[1]
<1>1. /\ Recorded(log, codes, sent) /\ Traces(log, Len(log), v, pos)
      /\ codes \in Seq(SessionRec)
  BY DEF LoadedFrom
<1>2. code.n \in Nat \ {0}
  <2>1. \A i \in 1 .. Len(codes) : codes[i] \in SessionRec
    <3>1. codes \in Seq(SessionRec)
      BY <1>1
    <3> QED
      BY <3>1
  <2>2. code \in SessionRec
    BY <2>1
  <2> QED
    BY <2>2 DEF SessionRec
<1>3. m \in DOMAIN v /\ n \in DOMAIN v /\ v[m].type = "decode" /\ v[n].type = "decode"
  OBVIOUS
<1> HIDE DEF v, code
<1>4. x \in 1 .. Len(log) /\ Is(log[x], "decode") /\ v[m].key = log[x].seq
  BY <1>1, <1>3, RecordOf DEF Is
<1>5. y \in 1 .. Len(log) /\ Is(log[y], "decode") /\ v[n].key = log[y].seq
  BY <1>1, <1>3, RecordOf DEF Is
<1>6. x # y
  BY <1>1, <1>3 DEF Traces
<1> HIDE DEF x, y
<1>7. /\ Placed(log[x], code) /\ Placed(log[y], code)
      /\ ~SameFragment(log[x], log[y])
  BY <1>1, <1>4, <1>5, <1>6 DEF Recorded, code
<1>8. log[x].seq # log[y].seq
  <2> DEFINE c == log[x]
             d == log[y]
  <2>1. /\ c.block \in Nat /\ c.frag \in 0 .. code.n - 1 /\ c.seq = Seq2Key(code, c.block, c.frag)
        /\ d.block \in Nat /\ d.frag \in 0 .. code.n - 1 /\ d.seq = Seq2Key(code, d.block, d.frag)
        /\ ~(c.block = d.block /\ c.frag = d.frag)
    BY <1>7 DEF Placed, SameFragment
  <2> HIDE DEF c, d
  <2>2. c.seq # d.seq
    BY <1>2, <2>1, KeyInjective
  <2> QED
    BY <2>2 DEF c, d
<1>9. v[m].key # v[n].key
  BY <1>4, <1>5, <1>8
<1> QED
  BY <1>9 DEF v

(* A replay sends the decoded frames in the order of their sequence        *)
(* numbers, each record once, whatever the order in which the receiver     *)
(* decoded and logged them, for any log and after any filters.  A log that *)
(* sessions share may have a number twice, then in the order of decoding;  *)
(* one of a single session has none twice.  Without a filter, all that     *)
(* have their data are sent.                                               *)
THEOREM ReplayOrdered ==
  ASSUME ~Debug, ~PlayerThread, ~Captures
  PROVE  Spec => []ReplayInOrder
<1>1. Logging => ReplayInOrder
  <2> SUFFICES ASSUME Logging PROVE ReplayInOrder
    OBVIOUS
  <2> DEFINE P == PlayList(ls)
             v == ls.v
  <2>1. Indexed(ls) /\ v \in Seq(VRec)
    BY StoreTypes DEF Logging, ShellInv, Sound, Indexed
  <2>2. /\ P \in Seq(Nat) /\ Ranked(P, KeyOfSeq(v))
        /\ \A p \in 1 .. Len(P) : Sendable(ls, P[p]) /\ P[p] \in Sequenced(v)
        /\ \A n \in Sequenced(v) : Sendable(ls, n) => \E p \in 1 .. Len(P) : P[p] = n
    BY <2>1, PlayRanked
  <2>3. \A n : Sendable(ls, n) <=> v[n].type = "decode" /\ ~v[n].filtered /\ v[n].buf
    BY DEF Sendable
  <2>4. \A n \in Sequenced(v) : n \in DOMAIN v /\ KeyOfSeq(v)[n] = v[n].key
    BY DEF Sequenced, KeyOfSeq
  <2>5. DOMAIN P = 1 .. Len(P) /\ Len(P) \in Nat
    BY <2>2
  <2> HIDE DEF P
  <2>6. CASE source = NoLog
    <3>1. v = <<>>
      BY <2>6 DEF Logging, SourceInv, NoStore, NewStore
    <3>2. Sequenced(v) = {}
      BY <3>1 DEF Sequenced
    <3>3. \A p \in 1 .. Len(P) : FALSE
      BY <2>2, <3>2
    <3> QED
      BY <2>5, <2>6, <3>3 DEF ReplayInOrder, P
  <2>7. CASE source # NoLog
    <3> DEFINE log == logs[source]
               codes == sessions[source]
               sent == delivered[source]
               s == LoadLog(log)
    <3>1. PICK pos : LoadedFrom(log, codes, sent, s, pos)
      BY <2>7, LogLeft
    <3>2. SameStore(s, ls) /\ (cut = NoCut => ls = s)
      BY <2>7 DEF Logging, ShellInv, SourceInv
    <3> HIDE DEF log, codes, sent, s
    <3>3. /\ s.v \in Seq(VRec) /\ SameRecords(s.v, v)
      BY <3>1, <3>2, StoreTypes DEF LoadedFrom, SameStore
    <3>4. DOMAIN v = DOMAIN s.v /\ \A n \in DOMAIN s.v : v[n].type = s.v[n].type /\ v[n].key = s.v[n].key
      <4> DEFINE w == s.v
      <4>1. w \in Seq(VRec) /\ SameRecords(w, v)
        BY <3>3
      <4> HIDE DEF w, v
      <4>2. \A n \in DOMAIN w : v[n].type = w[n].type /\ v[n].key = w[n].key
        BY <4>1, MarkedFields
      <4>3. DOMAIN v = DOMAIN w
        BY <4>1 DEF SameRecords
      <4> QED
        BY <4>2, <4>3 DEF w
    <3>5. Len(codes) > 1 \/ \A m, n \in DOMAIN s.v :
            m # n /\ s.v[m].type = "decode" /\ s.v[n].type = "decode" => s.v[m].key # s.v[n].key
      <4>1. codes \in Seq(SessionRec) /\ codes # <<>>
        BY <3>1 DEF LoadedFrom
      <4>2. Len(codes) = 1 \/ Len(codes) > 1
        <5>1. Len(codes) \in Nat /\ Len(codes) # 0
          BY <4>1
        <5> QED
          BY <5>1
      <4> QED
        BY <3>1, <4>2, DecodedOnce
    <3>6. ASSUME NEW i \in DOMAIN P, NEW j \in DOMAIN P, i < j
          PROVE  \/ v[P[i]].key < v[P[j]].key
                 \/ v[P[i]].key = v[P[j]].key /\ P[i] < P[j] /\ Len(codes) > 1
      <4> DEFINE a == P[i]
                 b == P[j]
      <4>1. /\ a # b /\ KeyOfSeq(v)[a] <= KeyOfSeq(v)[b]
            /\ KeyOfSeq(v)[a] = KeyOfSeq(v)[b] => a < b
        BY <2>2, <2>5, <3>6 DEF Ranked, Before
      <4>2. /\ a \in Sequenced(v) /\ b \in Sequenced(v)
            /\ v[a].type = "decode" /\ v[b].type = "decode"
        BY <2>2, <2>3, <2>5
      <4> HIDE DEF a, b, v
      <4>3. /\ a \in DOMAIN v /\ b \in DOMAIN v /\ v[a].key <= v[b].key
            /\ v[a].key = v[b].key => a < b
        BY <2>4, <4>1, <4>2
      <4>4. Len(codes) > 1 \/ v[a].key # v[b].key
        BY <3>4, <3>5, <4>1, <4>2, <4>3
      <4>5. v[a].key \in Int /\ v[b].key \in Int
        BY <2>1, <4>3, VTypes
      <4>6. v[a].key < v[b].key \/ v[a].key = v[b].key
        BY <4>3, <4>5
      <4> QED
        BY <4>3, <4>4, <4>6 DEF a, b
    <3>7. ASSUME cut = NoCut PROVE Len(P) = Logged(log, {"decode"})
      <4> DEFINE S == Bodied(v, {"decode"})
      <4>1. ls = s
        BY <3>2, <3>7
      <4>2. Logged(log, {"decode"}) = Cardinality(S)
        <5>1. {"decode"} \subseteq {"decode", "msg", "msg_debug"}
          OBVIOUS
        <5> QED
          BY <3>1, <4>1, <5>1, BodiesLoaded
      <4>3. Traces(log, Len(log), v, pos)
        BY <3>1, <4>1 DEF LoadedFrom
      <4> HIDE DEF v
      <4>4. \A n \in DOMAIN v : ~v[n].filtered
        BY <4>3, RecordOf
      <4>5. \A n : n \in S <=> n \in Sequenced(v) /\ Sendable(ls, n)
        <5> SUFFICES ASSUME NEW n PROVE n \in S <=> n \in Sequenced(v) /\ Sendable(ls, n)
          OBVIOUS
        <5>1. n \in S <=> n \in DOMAIN v /\ v[n].type = "decode" /\ v[n].buf
          BY DEF Bodied
        <5>2. n \in DOMAIN v /\ v[n].type = "decode" => n \in Sequenced(v)
          BY DEF Sequenced, IsMessage
        <5> QED
          BY <2>3, <2>4, <4>4, <5>1, <5>2
      <4> HIDE DEF S
      <4>6. P \in [1 .. Len(P) -> S]
        <5>1. \A p \in 1 .. Len(P) : P[p] \in S
          BY <2>2, <4>5
        <5>2. P \in [1 .. Len(P) -> Nat]
          BY <2>2, <2>5
        <5> QED
          BY <5>1, <5>2
      <4>7. ASSUME NEW x \in 1 .. Len(P), NEW y \in 1 .. Len(P), x # y PROVE P[x] # P[y]
        <5>1. x < y \/ y < x
          BY <2>5, <4>7
        <5>2. \A p, q \in 1 .. Len(P) : p < q => P[p] # P[q]
          BY <2>2 DEF Ranked, Before
        <5> QED
          BY <5>1, <5>2
      <4>8. \A n \in S : \E p \in 1 .. Len(P) : P[p] = n
        BY <2>2, <4>5
      <4>9. IsFiniteSet(1 .. Len(P)) /\ Cardinality(1 .. Len(P)) = Len(P)
        <5> DEFINE z == Len(P)
        <5>1. z \in Nat
          BY <2>5
        <5> HIDE DEF z
        <5>2. 1 \in Int /\ z \in Int
          BY <5>1
        <5>3. /\ IsFiniteSet(1 .. z)
              /\ Cardinality(1 .. z) = IF 1 > z THEN 0 ELSE z - 1 + 1
          BY <5>2, FS_Interval
        <5>4. (IF 1 > z THEN 0 ELSE z - 1 + 1) = z
          BY <5>1
        <5> QED
          BY <5>3, <5>4 DEF z
      <4>10. Cardinality(S) = Cardinality(1 .. Len(P))
        BY <4>6, <4>7, <4>8, <4>9, SameCount
      <4> QED
        BY <4>2, <4>9, <4>10
    <3> QED
      BY <2>7, <3>6, <3>7 DEF ReplayInOrder, P, log, codes
  <2> QED
    BY <2>6, <2>7
<1> QED
  BY <1>1, LoggingAlways, PTL

=============================================================================
