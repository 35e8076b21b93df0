------------------------------- MODULE Mirror -------------------------------
(***************************************************************************)
(* A frame on its way into listeners: captured from the air in monitor     *)
(* mode, parsed layer by layer, redistributed to the multicast group with  *)
(* the radio's measurements in front of it, and parsed again where it      *)
(* arrives (rx_core.c, frame_*.c, the receive handlers of net_pcap.c and   *)
(* net_inet.c).  What becomes of an accepted frame is module Receiver.     *)
(*                                                                         *)
(* Lengths are the code's, size_t arithmetic wraps at SizeMod.  The        *)
(* capture filter passes only frames whose transmitter address, bytes 10   *)
(* to 15 of the 802.11 header, starts with the signature; the driver       *)
(* always gives a FLAGS field.                                             *)
(***************************************************************************)
EXTENDS Integers, FiniteSets

CONSTANTS
  Capturing,     \* listeners with -w and -E
  Receiving,     \* listeners with -e
  Radio,         \* what a capture may yield, see Capture
  StraySizes,    \* lengths of datagrams shorter than the header
  MaxFrames,     \* bound: captures and stray datagrams
  SizeMod,       \* 2^64, or anything far above the longest frame
  ChannelId      \* wfb_ch

DbmInval == -32768                 \* DBM_INVAL
DataHdrLen == 24                   \* IEEE80211_DATA_HDRLEN
FcsLen == 4
UdpHdrLen == 8                     \* sizeof(struct wfb_udp_header)
DataBlockHdrLen == 9               \* WFB_DATA_BLOCK_HDRLEN
SessionBlockHdrLen == 25           \* WFB_SESSION_BLOCK_HDRLEN
MaxDataPacketSize == 4045 - DataHdrLen

(* A size_t is wider than any frame; dBm of radiotap are an int8_t.        *)
ASSUME MirrorAssumption ==
  /\ SizeMod \in Nat /\ SizeMod > 70000
  /\ MaxFrames \in Nat
  /\ StraySizes \subseteq 0 .. UdpHdrLen - 1
  /\ \A c \in Radio : c.size \in 0 .. SizeMod - 1 /\ c.dbm \in -128 .. 127

Hosts == Capturing \cup Receiving

VARIABLES
  meta,          \* per host: ctx->freq and ctx->dbm
  stats,         \* per host: the counters of wfb_stats, by name
  net,           \* the datagrams sent to the group
  seen,          \* per host: those of them that have arrived
  accepted,      \* history: the frames handed to rx_wfb, with ctx's metadata
  frames         \* how many frames there have been

vars == <<meta, stats, net, seen, accepted, frames>>

Minus(a, b) == (a - b) % SizeMod

Count(h, names) ==
  stats' = [stats EXCEPT ![h] = [n \in DOMAIN @ |->
              IF n \in names THEN @[n] + 1 ELSE @[n]]]

PcapResults == {"radiotap_error", "bad_fcs", "80211_error", "invalid_channel",
                "pcap_wfb_error", "pcap_accept"}

McResults == {"mc_wfb_error", "mc_accept"}

-----------------------------------------------------------------------------
(* The parsers                                                             *)

(* radiotap_frame_parse: without a signal field dBm is invalid.            *)
RadiotapMeta(c) ==
  [freq |-> c.freq, dbm |-> IF c.signal THEN c.dbm ELSE DbmInval]

(* ieee80211_frame_parse, of a frame with the signature.                   *)
Ieee80211Ok(c, size) == c.ftype = "data" /\ size >= DataHdrLen

(* wfb_frame_parse: what it takes, and what it makes of the nonce.         *)
TooLong_Unchecked(size) == FALSE

TooLong(size) == size > MaxDataPacketSize

BlockHdrLen(kind) == IF kind = "data" THEN DataBlockHdrLen ELSE SessionBlockHdrLen

WfbOk(body, size) ==
  /\ size >= 1
  /\ ~TooLong(size)
  /\ body.kind \in {"data", "session"}
  /\ size >= BlockHdrLen(body.kind)

WfbFrame(body, size) ==
  [kind         |-> body.kind,
   block_idx    |-> IF body.kind = "data" THEN body.nonce \div 256 ELSE 0,
   fragment_idx |-> IF body.kind = "data" THEN body.nonce % 256 ELSE 0,
   pktlen       |-> size,
   cipherlen    |-> Minus(size, BlockHdrLen(body.kind))]

(* udp_frame_build: dBm as 16 bits, what no int8_t can hold as invalid.    *)
UdpFrameBuild(m, corrupt) ==
  [corrupt |-> corrupt,
   freq    |-> m.freq,
   dbm     |-> (IF m.dbm \in -128 .. 127 THEN m.dbm ELSE DbmInval) % 65536]

(* udp_frame_parse: it does not look at the size.                          *)
UdpMeta(hdr) ==
  LET dbm == IF hdr.dbm >= 32768 THEN hdr.dbm - 65536 ELSE hdr.dbm
  IN  [freq |-> hdr.freq, dbm |-> IF dbm \in -128 .. 127 THEN dbm ELSE DbmInval]

-----------------------------------------------------------------------------
(* rx_mirror_frame; size 0 is the notice of a corrupt frame.               *)
MirrorFrame(h, m, body, size) ==
  net' = net \cup {[id   |-> frames', from |-> h,
                    hdr  |-> UdpFrameBuild(m, size = 0),
                    body |-> body, size |-> UdpHdrLen + size]}

Accepts(h, via, id, m, body, size) ==
  accepted' = accepted \cup {[host |-> h, via |-> via, id |-> id, meta |-> m,
                              frame |-> WfbFrame(body, size)]}

NoBody == [kind |-> "none", nonce |-> 0]

(* rx_frame_pcap, step by step: radiotap, bad FCS, strip FCS, 802.11,      *)
(* channel, mirror, WFB.  The metadata in the context are those of the     *)
(* last frame that came so far.                                            *)
FcsStripped(c) == IF c.has_fcs THEN Minus(c.size, FcsLen) ELSE c.size

MirroredMeta_Stale(h) == meta[h]

MirroredMeta(h) == meta'[h]

Malformed(h, c) ==
  /\ c.malformed
  /\ Count(h, {"radiotap_error"})
  /\ UNCHANGED <<meta, net, accepted>>

BadFcs_NoNotice(h, c) ==
  /\ ~c.malformed /\ c.bad_fcs
  /\ Count(h, {"bad_fcs"})
  /\ UNCHANGED <<meta, net, accepted>>

BadFcs(h, c) ==
  /\ ~c.malformed /\ c.bad_fcs
  /\ MirrorFrame(h, meta[h], NoBody, 0)
  /\ Count(h, {"bad_fcs"})
  /\ UNCHANGED <<meta, accepted>>

Intact(h, c) ==
  /\ ~c.malformed /\ ~c.bad_fcs
  /\ meta' = [meta EXCEPT ![h] = RadiotapMeta(c)]

NotOurs(h, c) ==
  /\ Intact(h, c)
  /\ \/ /\ ~Ieee80211Ok(c, FcsStripped(c))
        /\ Count(h, {"80211_error"})
     \/ /\ Ieee80211Ok(c, FcsStripped(c))
        /\ ChannelId # 0 /\ ChannelId # c.channel_id
        /\ Count(h, {"invalid_channel"})
  /\ UNCHANGED <<net, accepted>>

Ours(h, c) ==
  LET size == Minus(FcsStripped(c), DataHdrLen)
  IN
  /\ Intact(h, c)
  /\ Ieee80211Ok(c, FcsStripped(c))
  /\ ChannelId = 0 \/ ChannelId = c.channel_id
  /\ MirrorFrame(h, MirroredMeta(h), c.body, size)
  /\ \/ /\ WfbOk(c.body, size)
        /\ Count(h, {"pcap_accept"})
        /\ Accepts(h, h, frames', meta'[h], c.body, size)
     \/ /\ ~WfbOk(c.body, size)
        /\ Count(h, {"pcap_wfb_error"})
        /\ UNCHANGED accepted

(* netpcap_rx *)
Capture(h) ==
  /\ frames < MaxFrames
  /\ frames' = frames + 1
  /\ \E c \in Radio : Malformed(h, c) \/ BadFcs(h, c) \/ NotOurs(h, c) \/ Ours(h, c)
  /\ UNCHANGED seen

-----------------------------------------------------------------------------
(* netinet_rx and rx_frame_udp, of a datagram with this header, body and   *)
(* length; rx_log_corrupt for a notice.                                    *)
FrameUdp(r, via, id, hdr, body, length) ==
  LET size    == Minus(length, UdpHdrLen)
      corrupt == IF hdr.corrupt THEN {"mc_corrupt"} ELSE {}
  IN
  /\ meta' = [meta EXCEPT ![r] = UdpMeta(hdr)]
  /\ \/ /\ WfbOk(body, size)
        /\ Count(r, corrupt \cup {"mc_accept"})
        /\ Accepts(r, via, id, meta'[r], body, size)
     \/ /\ ~WfbOk(body, size)
        /\ Count(r, corrupt \cup {"mc_wfb_error"})
        /\ UNCHANGED accepted

(* Datagrams arrive in any order, or not at all.                           *)
Receive(r) ==
  /\ \E d \in net \ seen[r] :
       /\ d.from # r
       /\ seen' = [seen EXCEPT ![r] = @ \cup {d}]
       /\ FrameUdp(r, d.from, d.id, d.hdr, d.body, d.size)
  /\ UNCHANGED <<net, frames>>

(* A datagram that is too short for its header: what is parsed is what the *)
(* receive buffer holds from an earlier one, or the zeroes it began with.  *)
Stray(r) ==
  /\ frames < MaxFrames
  /\ frames' = frames + 1
  /\ \E length \in StraySizes :
       \/ \E d \in seen[r] : FrameUdp(r, "stray", frames', d.hdr, d.body, length)
       \/ FrameUdp(r, "stray", frames', [corrupt |-> FALSE, freq |-> 0, dbm |-> 0],
                   NoBody, length)
  /\ UNCHANGED <<net, seen>>

Init ==
  /\ meta = [h \in Hosts |-> [freq |-> 0, dbm |-> 0]]
  /\ stats = [h \in Hosts |->
                [n \in PcapResults \cup McResults \cup {"mc_corrupt"} |-> 0]]
  /\ net = {}
  /\ seen = [h \in Hosts |-> {}]
  /\ accepted = {}
  /\ frames = 0

(* Nothing more is sent, and every listener waits.                         *)
Quiet == frames = MaxFrames /\ UNCHANGED vars

Next ==
  \/ \E h \in Capturing : Capture(h)
  \/ \E r \in Receiving : Receive(r) \/ Stray(r)
  \/ Quiet

Spec == Init /\ [][Next]_vars

-----------------------------------------------------------------------------
(* Properties                                                              *)

(* A frame that reaches a listener over the multicast group is the frame   *)
(* its sender took from the air: it has the same verdict, the same header, *)
(* length and measurements there as where it was captured, whatever other  *)
(* frames were parsed in the same contexts before.                         *)
MirrorFaithful ==
  /\ \A a \in accepted :
       a.via # a.host => \E b \in accepted :
         /\ b.host = a.via /\ b.via = a.via
         /\ b.id = a.id /\ b.meta = a.meta /\ b.frame = a.frame
  /\ \A r \in Receiving, d \in net : \A b \in accepted :
       d \in seen[r] /\ b.host = d.from /\ b.via = d.from /\ b.id = d.id
         => \E a \in accepted : a.host = r /\ a.via = d.from /\ a.id = d.id

(* No length that has wrapped is ever taken for a frame: what is accepted  *)
(* has a whole header and no more bytes than a frame may have.             *)
NothingWrapped ==
  \A a \in accepted :
    /\ a.frame.pktlen <= MaxDataPacketSize
    /\ a.frame.cipherlen + BlockHdrLen(a.frame.kind) = a.frame.pktlen

(* Every captured frame and every datagram is counted once, under what     *)
(* became of it; as many were accepted as are counted so.                  *)
CountersAddUp ==
  \A h \in Hosts :
    /\ Cardinality({a \in accepted : a.host = h}) =
         stats[h]["pcap_accept"] + stats[h]["mc_accept"]
    /\ stats[h]["mc_corrupt"] <= stats[h]["mc_wfb_error"]
    /\ Cardinality({d \in net : d.from = h}) =
         stats[h]["bad_fcs"] + stats[h]["pcap_accept"] + stats[h]["pcap_wfb_error"]

=============================================================================
