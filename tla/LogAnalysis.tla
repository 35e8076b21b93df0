----------------------------- MODULE LogAnalysis -----------------------------
(***************************************************************************)
(* The log analyser's shell (log_analysis/): it loads a log into a store   *)
(* indexed by sequence number, by block and by message, filters it by      *)
(* signal strength and says which frames FEC would still have recovered,   *)
(* and plays, lists or sums up what is left.  The logs are those the       *)
(* listener of module RxLog leaves behind.                                 *)
(***************************************************************************)
EXTENDS RxLog

CONSTANT
  CutOffs        \* arguments of "filter dbm", as -dBm

VARIABLES
  ls,            \* the store, or NoStore
  source,        \* history: the log ls was loaded from, or NoLog
  failed,        \* history: the contents of logs that did not load
  cut            \* history: the cut-off last applied to ls, or NoCut

shellVars == <<ls, source, failed, cut>>

vars == <<logVars, shellVars>>

NoCut == 1000

ASSUME CutOffAssumption == CutOffs \subseteq Int /\ -NoCut \notin CutOffs

(* log_store_alloc.  v holds the records in the order they were read, an   *)
(* index of kvh, block_kvh and msg_kvh has the positions of its own.       *)
NewStore ==
  [v |-> <<>>, kvh |-> <<>>, block_kvh |-> <<>>, msg_kvh |-> <<>>,
   fec_k |-> 0, n_pkts |-> 0, n_frames |-> 0, ended |-> FALSE]

NoStore == [NewStore EXCEPT !.ended = TRUE]

NewKv(key) ==
  [key |-> key, vh |-> <<>>, n_ethernet_frame |-> 0, n_h265_frame |-> 0,
   has_lost_frame |-> FALSE, has_fec_frame |-> FALSE]

(* log_kv_alloc searches from the tail: the position of key, and the list  *)
(* in which it has one.                                                    *)
Below(kvh, key) == {0} \cup {i \in 1 .. Len(kvh) : kvh[i].key <= key}

KvAt_Tail(kvh, key) == Len(kvh) + 1

KvAt(kvh, key) ==
  LET i == CHOOSE i \in Below(kvh, key) : \A j \in Below(kvh, key) : j <= i
  IN  IF i > 0 /\ kvh[i].key = key THEN i ELSE i + 1

KvAlloc(kvh, key) ==
  LET i == KvAt(kvh, key)
  IN  IF i <= Len(kvh) /\ kvh[i].key = key THEN kvh ELSE InsertAt(kvh, i, NewKv(key))

(* TAILQ_INSERT_TAIL of record n into the list of its key.                 *)
KvAdd(kvh, key, n) ==
  LET list == KvAlloc(kvh, key)
  IN  [list EXCEPT ![KvAt(list, key)].vh = Append(@, n)]

-----------------------------------------------------------------------------
(* Loading                                                                 *)

IsMessage(type) == type \in {"msg", "msg_debug"}

(* log_v_alloc: nothing for a type it does not know.                       *)
VAlloc(s, r) ==
  LET n == Len(s.v) + 1
      v == [type |-> r.type, key |-> r.seq, block |-> r.block, frag |-> r.frag,
            dbm |-> r.dbm, src |-> r.src, size |-> IF HasData(r) THEN 1 ELSE 0,
            buf |-> FALSE, filtered |-> FALSE]
      with == [s EXCEPT !.v = Append(@, v)]
  IN  IF IsMessage(r.type)
      THEN [with EXCEPT !.msg_kvh = KvAdd(@, r.seq, n)]
      ELSE [with EXCEPT !.kvh = KvAdd(@, r.seq, n),
                        !.block_kvh = KvAdd(@, r.block, n)]

(* mark_inet6 and mark_h265, on the lists of the record just added.        *)
MarkInet6(s, r) ==
  [s EXCEPT !.kvh[KvAt(s.kvh, r.seq)].n_ethernet_frame = @ + 1,
            !.block_kvh[KvAt(s.block_kvh, r.block)].n_ethernet_frame = @ + 1,
            !.n_pkts = @ + 1]

IsLost_OffByOne(decoded, fec_k) == decoded <= fec_k

IsLost(decoded, fec_k) == decoded < fec_k

MarkFrame(kv, fec) ==
  [kv EXCEPT !.n_h265_frame = @ + 1, !.has_fec_frame = @ \/ fec]

MarkH265(s, r) ==
  LET i     == KvAt(s.kvh, r.seq)
      j     == KvAt(s.block_kvh, r.block)
      fec   == s.kvh[i].n_ethernet_frame = 0
      block == MarkFrame(s.block_kvh[j], fec)
      lost  == IsLost(block.n_h265_frame, s.fec_k)
  IN  [s EXCEPT !.kvh[i] = MarkFrame(@, fec),
                !.block_kvh[j] = [block EXCEPT !.has_lost_frame = lost],
                !.n_frames = @ + 1]

(* process_payload: the data follow, or the file ends and the record is    *)
(* left with no size.                                                      *)
EndOfFile(s) == [s EXCEPT !.v[Len(s.v)].size = 0, !.ended = TRUE]

ProcessPayload(s, whole) ==
  IF whole THEN [s EXCEPT !.v[Len(s.v)].buf = TRUE] ELSE EndOfFile(s)

Unknown_Corrupt(type) == type \in {"unspec", "corrupt"}

Unknown(type) == type = "unspec"

(* process_frame_header; ended once it returns -1.                         *)
ProcessFrameHeader(s, r, whole) ==
  LET t == ProcessPayload(VAlloc(s, r), whole)
  IN  CASE s.ended                       -> s
        [] ~s.ended /\ Unknown(r.type)   -> [s EXCEPT !.ended = TRUE]
        [] ~s.ended /\ r.type = "inet6"  -> MarkInet6(VAlloc(s, r), r)
        [] ~s.ended /\ r.type = "decode" -> IF t.ended THEN t ELSE MarkH265(t, r)
        [] ~s.ended /\ IsMessage(r.type) -> t
        [] OTHER                         -> VAlloc(s, r)

(* process_file_header: fec_k is the one of the session that began the log *)
ValidSignature(log) == log # <<>> /\ log[1].kind = "file"

ProcessFileHeader(log) == [NewStore EXCEPT !.fec_k = log[1].fec_k]

(* load_log.  A turn of the loop reads the record that begins at chunk i;  *)
(* its data are whole unless the log ends there.                           *)
LoadRecord(s, log, i) ==
  IF log[i].kind = "head"
  THEN ProcessFrameHeader(s, log[i], HasData(log[i]) => i < Len(log))
  ELSE s

Loaded(log) ==
  LET ls_at[i \in 0 .. Len(log)] ==
        IF i = 0 THEN ProcessFileHeader(log) ELSE LoadRecord(ls_at[i - 1], log, i)
  IN  ls_at

LoadLog(log) ==
  IF ValidSignature(log) THEN [Loaded(log)[Len(log)] EXCEPT !.ended = FALSE]
  ELSE NoStore

-----------------------------------------------------------------------------
(* Filtering                                                               *)

(* log_filter_reset: the records that have a sequence number.              *)
FilterReset_None(s) == s

FilterReset(s) == [s EXCEPT !.v = [n \in DOMAIN s.v |->
                     IF IsMessage(s.v[n].type) THEN s.v[n]
                     ELSE [s.v[n] EXCEPT !.filtered = FALSE]]]

(* The loop of log_filter_dbm                                              *)
MarkWeak(s, c) ==
  [s EXCEPT !.v = [n \in DOMAIN s.v |->
     IF s.v[n].type = "inet6" /\ s.v[n].dbm # DbmInval
     THEN [s.v[n] EXCEPT !.filtered = s.v[n].dbm <= c]
     ELSE s.v[n]]]

(* log_update_kv: the frames left of each block, then every sequence       *)
(* number by itself.  The marks go to the block of its first record; the   *)
(* last decoded frame left is judged, by the block of its own.  Sessions   *)
(* of different codes may have given one number to frames of two blocks.   *)
Left(s, kv, type) ==
  {k \in DOMAIN kv.vh : LET v == s.v[kv.vh[k]] IN ~v.filtered /\ v.type = type}

Ethernet(s, kv) == Cardinality(Left(s, kv, "inet6"))

BlockKv(s, b) == s.block_kvh[KvAt(s.block_kvh, b)]

BlockOf(s, kv) == BlockKv(s, s.v[kv.vh[1]].block)

Judged(s, kv) == kv.vh[Max(Left(s, kv, "decode"))]

FecRecovers_Always(s, kv) == TRUE

FecRecovers(s, kv) == Ethernet(s, BlockKv(s, s.v[Judged(s, kv)].block)) >= s.fec_k

Verdict(s, kv) ==
  CASE Left(s, kv, "decode") = {} -> IF kv.key < s.fec_k THEN "lost" ELSE "none"
    [] Left(s, kv, "decode") # {} /\ Ethernet(s, kv) > 0 -> "kept"
    [] Left(s, kv, "decode") # {} /\ Ethernet(s, kv) = 0 ->
         IF FecRecovers(s, kv) THEN "fec" ELSE "lost"

VerdictsOf(s, block) ==
  {<<kv.key, Verdict(s, kv)>> :
     kv \in {kv \in ToSet(s.kvh) : BlockOf(s, kv).key = block.key}}

Dropped(s) ==
  {Judged(s, kv) : kv \in {kv \in ToSet(s.kvh) :
     Left(s, kv, "decode") # {} /\ Verdict(s, kv) = "lost"}}

UpdateSeq(s, kv) ==
  [kv EXCEPT !.n_ethernet_frame = Ethernet(s, kv),
             !.n_h265_frame = IF Verdict(s, kv) \in {"kept", "fec"} THEN 1 ELSE 0,
             !.has_lost_frame = Verdict(s, kv) = "lost",
             !.has_fec_frame = Verdict(s, kv) = "fec"]

UpdateBlock(s, kv) ==
  LET vs == VerdictsOf(s, kv)
  IN  [kv EXCEPT !.n_ethernet_frame = Ethernet(s, kv),
                 !.n_h265_frame = Cardinality({p \in vs : p[2] \in {"kept", "fec"}}),
                 !.has_lost_frame = Ethernet(s, kv) < s.fec_k \/ \E p \in vs : p[2] = "lost",
                 !.has_fec_frame = \E p \in vs : p[2] = "fec"]

UpdateKv(s) ==
  [s EXCEPT
     !.v = [n \in DOMAIN s.v |->
              IF n \in Dropped(s) THEN [s.v[n] EXCEPT !.filtered = TRUE] ELSE s.v[n]],
     !.kvh = [i \in DOMAIN s.kvh |-> UpdateSeq(s, s.kvh[i])],
     !.block_kvh = [i \in DOMAIN s.block_kvh |-> UpdateBlock(s, s.block_kvh[i])]]

(* shell_filter_dbm                                                        *)
FilterDbm(s, c) == UpdateKv(MarkWeak(FilterReset(s), c))

-----------------------------------------------------------------------------
(* Output                                                                  *)

(* csv_serialize and send_data walk the sequence numbers: the records left *)
(* on the way, in order.                                                   *)
Walk(s) == FlattenSeq([i \in DOMAIN s.kvh |-> s.kvh[i].vh])

(* The records send_data plays: wfb_gst_write takes none without data.     *)
Sendable_Empty(s, n) == s.v[n].type = "decode" /\ ~s.v[n].filtered

Sendable(s, n) == s.v[n].type = "decode" /\ ~s.v[n].filtered /\ s.v[n].buf

(* send_data                                                               *)
PlayList(s) ==
  LET walk == Walk(s)
      sent[i \in 0 .. Len(walk)] ==
        IF i = 0 THEN <<>>
        ELSE IF Sendable(s, walk[i]) THEN Append(sent[i - 1], walk[i])
        ELSE sent[i - 1]
  IN  sent[Len(walk)]

(* log_hist: hist has a place for 255 strengths from -128 dBm on, and the  *)
(* first that more than half of the frames are not above is the median.    *)
(* The loop begins at the second.  A strength of 127 dBm is counted beyond *)
(* the end of hist, with any effect; here with none.                       *)
HistIdx(dbm) == (dbm + 128) % 256

Strong(s) == {n \in DOMAIN s.v : /\ s.v[n].type = "inet6" /\ ~s.v[n].filtered
                                 /\ s.v[n].dbm # DbmInval}

Cumulative(hist, idx) == Cardinality({p \in hist : p[2] <= idx})

Half_RoundedUp(s) == (Cardinality(Strong(s)) + 1) \div 2

Half(s) == Cardinality(Strong(s)) \div 2

Median(s) ==
  LET hist == {<<n, HistIdx(s.v[n].dbm)>> : n \in Strong(s)}
      over == {idx \in 1 .. 254 : Cumulative(hist, idx) > Half(s)}
  IN  (IF over = {} THEN 0 ELSE Min(over)) - 128

(* summary_output: "Number of corrupted blocks"                            *)
CorruptedBlocks(s) == {i \in DOMAIN s.block_kvh : s.block_kvh[i].has_lost_frame}

-----------------------------------------------------------------------------
(* shell_load, also at the start; a log that does not load leaves the      *)
(* store as it was.                                                        *)
Load ==
  /\ ~running
  /\ \E n \in DOMAIN logs :
       \/ /\ ValidSignature(logs[n])
          /\ ls' = LoadLog(logs[n])
          /\ source' = n
          /\ cut' = NoCut
          /\ UNCHANGED failed
       \/ /\ ~ValidSignature(logs[n])
          /\ failed' = failed \cup {logs[n]}
          /\ UNCHANGED <<ls, source, cut>>
  /\ UNCHANGED logVars

Filter ==
  /\ source # NoLog
  /\ \E c \in CutOffs :
       /\ ls' = FilterDbm(ls, -c)
       /\ cut' = -c
  /\ UNCHANGED <<logVars, source, failed>>

(* Bound: the shell is not entered before the listener has done its part.  *)
Listener == LogNext /\ source = NoLog /\ UNCHANGED shellVars

Init ==
  /\ LogInit
  /\ ls = NoStore
  /\ source = NoLog
  /\ failed = {}
  /\ cut = NoCut

Next == Listener \/ Load \/ Filter

Spec == Init /\ [][Next]_vars

-----------------------------------------------------------------------------
(* Properties                                                              *)

Ascending(kvh) == \A i, j \in DOMAIN kvh : i < j => kvh[i].key < kvh[j].key

(* The store keeps its shape: each list ascends by key without repetition, *)
(* whatever the order of the records, and every record is in the lists of  *)
(* its own keys and in no other.  A log whose listener was killed within a *)
(* record is loaded up to there: what has a size has its data.             *)
StoreOK ==
  /\ Ascending(ls.kvh) /\ Ascending(ls.block_kvh) /\ Ascending(ls.msg_kvh)
  /\ \A n \in DOMAIN ls.v : LET v == ls.v[n] IN
       /\ ~IsMessage(v.type) =>
            /\ \A kv \in ToSet(ls.kvh) : n \in ToSet(kv.vh) <=> kv.key = v.key
            /\ \A kv \in ToSet(ls.block_kvh) : n \in ToSet(kv.vh) <=> kv.key = v.block
       /\ IsMessage(v.type) =>
            \A kv \in ToSet(ls.msg_kvh) : n \in ToSet(kv.vh) <=> kv.key = v.key
       /\ v.type = "decode" \/ IsMessage(v.type) => (v.size > 0 <=> v.buf)

(* What the listener logged, the analyser loads: every log of a session is *)
(* accepted, and the store has as many frames, decoded frames and messages *)
(* as were logged whole.                                                   *)
Logged(log, types) ==
  Cardinality({i \in 1 .. Len(log) :
    log[i].type \in types /\ log[i].kind = IF HasData(log[i]) \/ log[i].kind = "data"
                                            THEN "data" ELSE "head"})

LoadedAll ==
  /\ \A log \in failed : \A c \in ToSet(log) : c.kind # "file"
  /\ source # NoLog =>
       /\ ls.n_pkts = Logged(logs[source], {"inet6", "unspec"})
       /\ ls.n_frames = Logged(logs[source], {"decode"})
       /\ Cardinality({n \in DOMAIN ls.v : IsMessage(ls.v[n].type) /\ ls.v[n].buf}) =
            Logged(logs[source], {"msg", "msg_debug"})

(* A replay has the frames in the order of their sequence numbers, however *)
(* they were decoded, and a number twice only when sessions share the log: *)
(* then as they were decoded.  Without a filter it has every frame whose   *)
(* data are in the log.                                                    *)
ReplayInOrder ==
  LET play == PlayList(ls)
  IN
  /\ \A i, j \in DOMAIN play :
       i < j => \/ ls.v[play[i]].key < ls.v[play[j]].key
                \/ /\ ls.v[play[i]].key = ls.v[play[j]].key
                   /\ play[i] < play[j]
                   /\ Len(sessions[source]) > 1
  /\ source # NoLog /\ cut = NoCut =>
       Len(play) = Logged(logs[source], {"decode"})

(* What a filter leaves depends on the log and its own cut-off alone, not  *)
(* on the filters applied before it.                                       *)
FilterFresh ==
  cut # NoCut => ls = FilterDbm(LoadLog(logs[source]), cut)

(* The frames heard with more than c dBm, or unmeasured.                   *)
HeardAbove(s, c) ==
  {n \in DOMAIN s.v :
     s.v[n].type = "inet6" /\ (s.v[n].dbm = DbmInval \/ s.v[n].dbm > c)}

(* A filter drops a decoded frame only when a receiver without the weak    *)
(* frames could not have had it: it was not heard, nor were fec_k others   *)
(* of its block.  It drops the last with its number whenever the records   *)
(* left of its block are too few: a duplicate is counted again.            *)
FilterExact ==
  cut # NoCut =>
    LET heard == HeardAbove(ls, cut)
    IN  \A n \in {n \in DOMAIN ls.v : ls.v[n].type = "decode"} :
          LET alike == {m \in heard : ls.v[m].key = ls.v[n].key}
              block == {m \in heard : ls.v[m].block = ls.v[n].block}
              last  == \A m \in DOMAIN ls.v :
                         ls.v[m].type = "decode" /\ ls.v[m].key = ls.v[n].key => m <= n
          IN  /\ ls.v[n].filtered =>
                    alike = {} /\ Cardinality({ls.v[m].key : m \in block}) < ls.fec_k
              /\ last /\ alike = {} /\ Cardinality(block) < ls.fec_k =>
                    ls.v[n].filtered

(* A block counted as corrupted lacks a fragment of every session whose    *)
(* fec_k is at least that of the file header, the one that began the log   *)
(* among them: one the receiver did not deliver, or one that only          *)
(* completed the FEC block and has no record.                              *)
CorruptedIsLost ==
  source # NoLog /\ cut = NoCut /\ source \notin torn =>
    \A i \in CorruptedBlocks(ls), j \in DOMAIN sessions[source] :
      sessions[source][j].k >= sessions[source][1].k =>
        \E f \in 0 .. sessions[source][j].k - 1 :
          <<j, ls.block_kvh[i].key, f, TRUE>> \notin delivered[source]

(* The median shown is one that at least half of the strengths reach, from *)
(* above and from below, whatever the strengths from -128 to 126 dBm, when *)
(* -128 dBm is taken for -127.  It is shown unless all are -128: graph     *)
(* then divides by zero.                                                   *)
Shown(dbm) == IF dbm = -128 THEN -127 ELSE dbm

MedianInMiddle ==
  LET strong == Strong(ls)
      m      == Median(ls)
      below  == {n \in strong : Shown(ls.v[n].dbm) <= m}
      above  == {n \in strong : Shown(ls.v[n].dbm) >= m}
  IN  /\ \A n \in strong : ls.v[n].dbm \in -128 .. 126
      /\ \E n \in strong : ls.v[n].dbm > -128
      => /\ 2 * Cardinality(below) >= Cardinality(strong)
         /\ 2 * Cardinality(above) >= Cardinality(strong)

=============================================================================
