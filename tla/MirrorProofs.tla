---------------------------- MODULE MirrorProofs ----------------------------
(***************************************************************************)
(* Proofs about mirroring, for any number of capturing and receiving       *)
(* listeners, any frames of any length and any order of arrival.           *)
(***************************************************************************)
EXTENDS Mirror, FiniteSetTheorems, TLAPS

-----------------------------------------------------------------------------
(* size_t arithmetic                                                       *)

LEMMA MinusType ==
  ASSUME NEW a \in Int, NEW b \in Int
  PROVE  Minus(a, b) \in 0 .. SizeMod - 1
BY MirrorAssumption DEF Minus

LEMMA ModSmall ==
  ASSUME NEW n \in Nat \ {0}, NEW x \in 0 .. n - 1
  PROVE  x % n = x /\ (x - n) % n = x
OBVIOUS

LEMMA MinusSmall ==
  ASSUME NEW a \in Int, NEW b \in Int, a - b \in 0 .. SizeMod - 1
  PROVE  Minus(a, b) = a - b
BY ModSmall, MirrorAssumption DEF Minus

(* A datagram shorter than its header has a length that no frame has.      *)
LEMMA StrayRefused ==
  ASSUME NEW length \in StraySizes, NEW body
  PROVE  ~WfbOk(body, Minus(length, UdpHdrLen))
<1> DEFINE x == length - UdpHdrLen + SizeMod
<1>1. length \in 0 .. 7
  BY MirrorAssumption DEF UdpHdrLen
<1>2. x \in 0 .. SizeMod - 1 /\ x > MaxDataPacketSize /\ length - UdpHdrLen = x - SizeMod
  BY <1>1, MirrorAssumption DEF UdpHdrLen, MaxDataPacketSize, DataHdrLen
<1> HIDE DEF x
<1>3. (x - SizeMod) % SizeMod = x
  BY <1>2, ModSmall, MirrorAssumption
<1>4. Minus(length, UdpHdrLen) = x
  BY <1>2, <1>3 DEF Minus
<1> QED
  BY <1>2, <1>4 DEF WfbOk, TooLong

(* What udp_frame_build writes, udp_frame_parse reads.                     *)
LEMMA MetaRoundTrip ==
  ASSUME NEW c \in Radio, NEW corrupt
  PROVE  UdpMeta(UdpFrameBuild(RadiotapMeta(c), corrupt)) = RadiotapMeta(c)
<1> DEFINE m == RadiotapMeta(c)
<1>1. m = [freq |-> c.freq, dbm |-> m.dbm] /\ m.dbm \in (-128 .. 127) \cup {DbmInval}
  BY MirrorAssumption DEF RadiotapMeta
<1> HIDE DEF m
<1>2. m.dbm \in Int /\ m.dbm >= -32768 /\ m.dbm <= 127
  BY <1>1 DEF DbmInval
<1> DEFINE hdr == UdpFrameBuild(m, corrupt)
<1>3. hdr.dbm = m.dbm % 65536 /\ hdr.freq = c.freq
  BY <1>1 DEF UdpFrameBuild
<1> HIDE DEF hdr
<1>4. hdr.dbm = IF m.dbm < 0 THEN m.dbm + 65536 ELSE m.dbm
  BY <1>2, <1>3
<1>5. (IF hdr.dbm >= 32768 THEN hdr.dbm - 65536 ELSE hdr.dbm) = m.dbm
  BY <1>2, <1>4
<1>6. UdpMeta(hdr) = [freq |-> c.freq, dbm |-> m.dbm]
  BY <1>1, <1>3, <1>5 DEF UdpMeta
<1> QED
  BY <1>1, <1>6 DEF hdr, m

-----------------------------------------------------------------------------
(* The invariant                                                           *)

BodySize(d) == Minus(d.size, UdpHdrLen)

(* Whoever parses datagram d takes it for a frame, this one.               *)
Taken(d) == WfbOk(d.body, BodySize(d))

Copy(h, d) ==
  [host |-> h, via |-> d.from, id |-> d.id, meta |-> UdpMeta(d.hdr),
   frame |-> WfbFrame(d.body, BodySize(d))]

(* A datagram has its own number, and notices are not frames.              *)
Numbered ==
  /\ frames \in Nat
  /\ \A d \in net : /\ d.id \in 1 .. frames
                    /\ BodySize(d) \in Nat
                    /\ d.hdr.corrupt => ~Taken(d)
  /\ \A d, e \in net : d.id = e.id => d = e

Arrived ==
  /\ seen \in [Hosts -> SUBSET net]
  /\ \A r \in Hosts : \A d \in seen[r] : d.from # r

(* What was handed to rx_wfb is a datagram's content, at the host that     *)
(* captured it or one that it reached ...                                  *)
Explained ==
  \A a \in accepted : \E d \in net, h \in Hosts :
    /\ a = Copy(h, d) /\ Taken(d)
    /\ h = d.from \/ d \in seen[h]

(* ... and at all of these.                                                *)
Complete ==
  \A d \in net : Taken(d) =>
    /\ Copy(d.from, d) \in accepted
    /\ \A r \in Hosts : d \in seen[r] => Copy(r, d) \in accepted

Names == PcapResults \cup McResults \cup {"mc_corrupt"}

AcceptedAt(h) == {a \in accepted : a.host = h}

SentBy(h) == {d \in net : d.from = h}

Accepted(h) == Cardinality(AcceptedAt(h))

Sent(h) == Cardinality(SentBy(h))

(* The counters of wfb_stats.                                              *)
Tally ==
  /\ stats \in [Hosts -> [Names -> Nat]]
  /\ IsFiniteSet(accepted) /\ IsFiniteSet(net)
  /\ CountersAddUp

MirrorInv ==
  /\ DOMAIN meta = Hosts
  /\ Numbered /\ Arrived /\ Explained /\ Complete /\ Tally

-----------------------------------------------------------------------------
(* What the steps do, in terms of datagrams                                *)

(* A datagram sent by h as the next frame, with its verdict.               *)
Sends(h, d) ==
  /\ net' = net \cup {d} /\ d.from = h /\ d.id = frames'
  /\ BodySize(d) \in Nat
  /\ d.hdr.corrupt => ~Taken(d)
  /\ \/ /\ Taken(d)
        /\ accepted' = accepted \cup {Copy(h, d)}
        /\ Count(h, {"pcap_accept"})
     \/ /\ ~Taken(d)
        /\ accepted' = accepted
        /\ Count(h, {"bad_fcs"}) \/ Count(h, {"pcap_wfb_error"})

Ignores(h) ==
  /\ UNCHANGED <<net, accepted>>
  /\ \E n \in {"radiotap_error", "80211_error", "invalid_channel"} : Count(h, {n})

(* The notice of a corrupt frame is no frame itself.                       *)
LEMMA NoticeSent ==
  ASSUME NEW h, NEW c, BadFcs(h, c)
  PROVE  \E d : Sends(h, d)
<1> DEFINE d == [id |-> frames', from |-> h, hdr |-> UdpFrameBuild(meta[h], 0 = 0),
                 body |-> NoBody, size |-> UdpHdrLen + 0]
<1>1. net' = net \cup {d}
  BY DEF BadFcs, MirrorFrame
<1>2. BodySize(d) = 0
  BY MinusSmall, MirrorAssumption DEF BodySize, UdpHdrLen
<1>3. ~Taken(d)
  BY <1>2 DEF Taken, WfbOk
<1>4. d.from = h /\ d.id = frames'
  OBVIOUS
<1>5. accepted' = accepted /\ Count(h, {"bad_fcs"})
  BY DEF BadFcs
<1> HIDE DEF d
<1> QED
  BY <1>1, <1>2, <1>3, <1>4, <1>5 DEF Sends

(* A captured frame is sent as what the capturing host makes of it.        *)
LEMMA FrameSent ==
  ASSUME NEW h \in Hosts, NEW c \in Radio, Ours(h, c), DOMAIN meta = Hosts
  PROVE  \E d : Sends(h, d)
<1> DEFINE size == Minus(FcsStripped(c), DataHdrLen)
           d == [id |-> frames', from |-> h,
                 hdr |-> UdpFrameBuild(RadiotapMeta(c), size = 0),
                 body |-> c.body, size |-> UdpHdrLen + size]
<1>1. FcsStripped(c) \in Int
  <2>1. c.size \in Int /\ SizeMod \in Nat
    BY MirrorAssumption
  <2>2. FcsLen \in Int
    BY DEF FcsLen
  <2>3. Minus(c.size, FcsLen) \in 0 .. SizeMod - 1
    BY <2>1, <2>2, MinusType
  <2> QED
    BY <2>1, <2>3 DEF FcsStripped
<1>2. size \in 0 .. SizeMod - 1
  <2>1. DataHdrLen \in Int
    BY DEF DataHdrLen
  <2> QED
    BY <1>1, <2>1, MinusType
<1>3. meta'[h] = RadiotapMeta(c)
  BY DEF Ours, Intact
<1>4. net' = net \cup {d}
  BY <1>3 DEF Ours, MirrorFrame, MirroredMeta
<1>5. \/ /\ WfbOk(c.body, size)
         /\ Count(h, {"pcap_accept"})
         /\ accepted' = accepted \cup
              {[host |-> h, via |-> h, id |-> frames', meta |-> RadiotapMeta(c),
                frame |-> WfbFrame(c.body, size)]}
      \/ ~WfbOk(c.body, size) /\ Count(h, {"pcap_wfb_error"}) /\ accepted' = accepted
  BY <1>3 DEF Ours, Accepts
<1>6. d.from = h /\ d.id = frames' /\ d.body = c.body /\ d.size = UdpHdrLen + size
      /\ d.hdr = UdpFrameBuild(RadiotapMeta(c), size = 0)
  OBVIOUS
<1>7. d.hdr.corrupt = (size = 0)
  BY <1>6 DEF UdpFrameBuild
<1> HIDE DEF d, size
<1>8. BodySize(d) = size
  <2>1. UdpHdrLen + size - UdpHdrLen = size /\ UdpHdrLen + size \in Int
    BY <1>2, MirrorAssumption DEF UdpHdrLen
  <2> QED
    BY <1>2, <1>6, <2>1, MinusSmall, MirrorAssumption DEF BodySize, UdpHdrLen
<1>9. Taken(d) <=> WfbOk(c.body, size)
  BY <1>6, <1>8 DEF Taken
<1>10. d.hdr.corrupt => ~Taken(d)
  <2>1. size = 0 => ~WfbOk(c.body, size)
    BY DEF WfbOk
  <2> QED
    BY Zenon, <1>7, <1>9, <2>1
<1>11. Copy(h, d) = [host |-> h, via |-> h, id |-> frames', meta |-> RadiotapMeta(c),
                     frame |-> WfbFrame(c.body, size)]
  BY <1>6, <1>8, MetaRoundTrip DEF Copy
<1>12. BodySize(d) \in Nat
  BY <1>2, <1>8, MirrorAssumption
<1> QED
  BY <1>4, <1>5, <1>6, <1>9, <1>10, <1>11, <1>12 DEF Sends

LEMMA CaptureDoes ==
  ASSUME NEW h \in Hosts, Capture(h), DOMAIN meta = Hosts
  PROVE  frames' = frames + 1 /\ UNCHANGED seen /\ (Ignores(h) \/ \E d : Sends(h, d))
<1>1. PICK c \in Radio : Malformed(h, c) \/ BadFcs(h, c) \/ NotOurs(h, c) \/ Ours(h, c)
  BY DEF Capture
<1>2. Malformed(h, c) \/ NotOurs(h, c) => Ignores(h)
  BY DEF Malformed, NotOurs, Ignores
<1> QED
  BY <1>1, <1>2, NoticeSent, FrameSent DEF Capture

Refuses(r) ==
  /\ accepted' = accepted
  /\ Count(r, {"mc_wfb_error"}) \/ Count(r, {"mc_corrupt", "mc_wfb_error"})

LEMMA ReceiveDoes ==
  ASSUME NEW r \in Hosts, Receive(r), Numbered, DOMAIN meta = Hosts
  PROVE  /\ UNCHANGED <<net, frames>>
         /\ \E d \in net \ seen[r] :
              /\ d.from # r
              /\ seen' = [seen EXCEPT ![r] = @ \cup {d}]
              /\ \/ /\ Taken(d)
                    /\ accepted' = accepted \cup {Copy(r, d)}
                    /\ Count(r, {"mc_accept"})
                 \/ ~Taken(d) /\ Refuses(r)
<1>1. PICK d \in net \ seen[r] :
        /\ d.from # r
        /\ seen' = [seen EXCEPT ![r] = @ \cup {d}]
        /\ FrameUdp(r, d.from, d.id, d.hdr, d.body, d.size)
  BY DEF Receive
<1>2. meta'[r] = UdpMeta(d.hdr)
  BY <1>1 DEF FrameUdp
<1>3. CASE Taken(d)
  <2>1. ~d.hdr.corrupt
    BY <1>3 DEF Numbered
  <2>2. {} \cup {"mc_accept"} = {"mc_accept"}
    OBVIOUS
  <2>3. accepted' = accepted \cup {Copy(r, d)} /\ Count(r, {"mc_accept"})
    BY <1>1, <1>2, <1>3, <2>1, <2>2 DEF FrameUdp, Accepts, Copy, Taken, BodySize
  <2> QED
    BY <1>1, <1>3, <2>3 DEF Receive
<1>4. CASE ~Taken(d)
  <2>1. {"mc_corrupt"} \cup {"mc_wfb_error"} = {"mc_corrupt", "mc_wfb_error"}
        /\ {} \cup {"mc_wfb_error"} = {"mc_wfb_error"}
    OBVIOUS
  <2>2. Refuses(r)
    BY <1>1, <1>4, <2>1 DEF FrameUdp, Taken, BodySize, Refuses
  <2> QED
    BY <1>1, <1>4, <2>2 DEF Receive
<1> QED
  BY <1>3, <1>4

LEMMA StrayDoes ==
  ASSUME NEW r \in Hosts, Stray(r)
  PROVE  UNCHANGED <<net, seen>> /\ frames' = frames + 1 /\ Refuses(r)
<1>1. PICK length \in StraySizes :
        \E hdr, body : FrameUdp(r, "stray", frames', hdr, body, length)
  BY DEF Stray
<1>2. PICK hdr, body : FrameUdp(r, "stray", frames', hdr, body, length)
  BY <1>1
<1>3. ~WfbOk(body, Minus(length, UdpHdrLen))
  BY StrayRefused
<1>4. {"mc_corrupt"} \cup {"mc_wfb_error"} = {"mc_corrupt", "mc_wfb_error"}
      /\ {} \cup {"mc_wfb_error"} = {"mc_wfb_error"}
  OBVIOUS
<1> QED
  BY <1>2, <1>3, <1>4 DEF Stray, FrameUdp, Refuses

LEMMA CountDoes ==
  ASSUME stats \in [Hosts -> [Names -> Nat]], NEW h \in Hosts, NEW names, Count(h, names)
  PROVE  /\ stats' \in [Hosts -> [Names -> Nat]]
         /\ \A g \in Hosts, n \in Names :
              stats'[g][n] = IF g = h /\ n \in names THEN stats[g][n] + 1 ELSE stats[g][n]
BY DEF Count

-----------------------------------------------------------------------------
(* The steps keep the invariant                                            *)

LEMMA MirrorInit == Init => MirrorInv
<1> SUFFICES ASSUME Init PROVE MirrorInv
  OBVIOUS
<1>1. stats \in [Hosts -> [Names -> Nat]]
  BY DEF Init, Names
<1>2. \A h \in Hosts : {a \in accepted : a.host = h} = {} /\ {d \in net : d.from = h} = {}
  BY DEF Init
<1>3. CountersAddUp
  BY <1>2, FS_EmptySet DEF Init, CountersAddUp, PcapResults, McResults
<1>4. Tally
  BY <1>1, <1>3, FS_EmptySet DEF Init, Tally
<1> QED
  BY <1>4 DEF Init, MirrorInv, Numbered, Arrived, Explained, Complete

(* One more frame at one host, or none.                                    *)
LEMMA AcceptedMore ==
  ASSUME IsFiniteSet(accepted), NEW a, a \notin accepted,
         accepted' \in {accepted, accepted \cup {a}}
  PROVE  /\ IsFiniteSet(accepted')
         /\ \A h : /\ Accepted(h) \in Nat
                   /\ Accepted(h)' =
                        IF accepted' # accepted /\ h = a.host THEN Accepted(h) + 1
                        ELSE Accepted(h)
<1>1. IsFiniteSet(accepted')
  BY FS_AddElement
<1>2. ASSUME NEW h
      PROVE  /\ Accepted(h) \in Nat
             /\ Accepted(h)' = IF accepted' # accepted /\ h = a.host THEN Accepted(h) + 1
                               ELSE Accepted(h)
  <2>1. AcceptedAt(h)' = IF accepted' # accepted /\ h = a.host
                         THEN AcceptedAt(h) \cup {a} ELSE AcceptedAt(h)
    BY DEF AcceptedAt
  <2>2. AcceptedAt(h) \in SUBSET accepted /\ a \notin AcceptedAt(h)
    BY DEF AcceptedAt
  <2>3. IsFiniteSet(AcceptedAt(h))
    BY <2>2, FS_Subset
  <2>4. Accepted(h) \in Nat /\ Cardinality(AcceptedAt(h) \cup {a}) = Accepted(h) + 1
    BY <2>2, <2>3, FS_CardinalityType, FS_AddElement DEF Accepted
  <2> QED
    BY <2>1, <2>4 DEF Accepted
<1> QED
  BY <1>1, <1>2

LEMMA SentMore ==
  ASSUME IsFiniteSet(net), NEW d, d \notin net, net' \in {net, net \cup {d}}
  PROVE  /\ IsFiniteSet(net')
         /\ \A h : /\ Sent(h) \in Nat
                   /\ Sent(h)' = IF net' # net /\ h = d.from THEN Sent(h) + 1 ELSE Sent(h)
<1>1. IsFiniteSet(net')
  BY FS_AddElement
<1>2. ASSUME NEW h
      PROVE  /\ Sent(h) \in Nat
             /\ Sent(h)' = IF net' # net /\ h = d.from THEN Sent(h) + 1 ELSE Sent(h)
  <2>1. SentBy(h)' = IF net' # net /\ h = d.from THEN SentBy(h) \cup {d} ELSE SentBy(h)
    BY DEF SentBy
  <2>2. SentBy(h) \in SUBSET net /\ d \notin SentBy(h)
    BY DEF SentBy
  <2>3. IsFiniteSet(SentBy(h))
    BY <2>2, FS_Subset
  <2>4. Sent(h) \in Nat /\ Cardinality(SentBy(h) \cup {d}) = Sent(h) + 1
    BY <2>2, <2>3, FS_CardinalityType, FS_AddElement DEF Sent
  <2> QED
    BY <2>1, <2>4 DEF Sent
<1> QED
  BY <1>1, <1>2

(* A handler at h raises counters: those that fit what it sent and what it *)
(* accepted.                                                               *)
LEMMA TallyKept ==
  ASSUME Tally, NEW h \in Hosts, NEW names, Count(h, names),
         IsFiniteSet(accepted'), IsFiniteSet(net'),
         \A g : Accepted(g)' =
           IF g = h /\ names \cap {"pcap_accept", "mc_accept"} # {} THEN Accepted(g) + 1
           ELSE Accepted(g),
         \A g : Sent(g)' =
           IF g = h /\ names \cap {"bad_fcs", "pcap_accept", "pcap_wfb_error"} # {}
           THEN Sent(g) + 1 ELSE Sent(g),
         \/ \E n \in Names \ {"mc_corrupt"} : names = {n}
         \/ names = {"mc_corrupt", "mc_wfb_error"}
  PROVE  Tally'
<1>1. stats \in [Hosts -> [Names -> Nat]] /\ CountersAddUp
  BY DEF Tally
<1>2. /\ stats' \in [Hosts -> [Names -> Nat]]
      /\ \A g \in Hosts, m \in Names :
           stats'[g][m] = IF g = h /\ m \in names THEN stats[g][m] + 1 ELSE stats[g][m]
  BY <1>1, CountDoes
<1>3. {"pcap_accept", "mc_accept", "mc_corrupt", "mc_wfb_error", "bad_fcs",
       "pcap_wfb_error"} \subseteq Names
  BY DEF Names, PcapResults, McResults
<1>4. ASSUME NEW g \in Hosts
      PROVE  /\ Accepted(g)' = stats'[g]["pcap_accept"] + stats'[g]["mc_accept"]
             /\ stats'[g]["mc_corrupt"] <= stats'[g]["mc_wfb_error"]
             /\ Sent(g)' = stats'[g]["bad_fcs"] + stats'[g]["pcap_accept"]
                             + stats'[g]["pcap_wfb_error"]
  <2> DEFINE s == stats[g]
             t == stats'[g]
  <2>1. /\ Accepted(g) = s["pcap_accept"] + s["mc_accept"]
        /\ s["mc_corrupt"] <= s["mc_wfb_error"]
        /\ Sent(g) = s["bad_fcs"] + s["pcap_accept"] + s["pcap_wfb_error"]
    BY <1>1 DEF CountersAddUp, Accepted, Sent, AcceptedAt, SentBy
  <2>2. \A m \in Names :
          s[m] \in Nat /\ t[m] = IF g = h /\ m \in names THEN s[m] + 1 ELSE s[m]
    BY <1>1, <1>2
  <2> HIDE DEF s, t
  <2>3. /\ Accepted(g)' = t["pcap_accept"] + t["mc_accept"]
        /\ t["mc_corrupt"] <= t["mc_wfb_error"]
        /\ Sent(g)' = t["bad_fcs"] + t["pcap_accept"] + t["pcap_wfb_error"]
    BY <1>3, <2>1, <2>2
  <2> QED
    BY <2>3 DEF t
<1>5. CountersAddUp'
  BY <1>4 DEF CountersAddUp, Accepted, Sent, AcceptedAt, SentBy
<1> QED
  BY <1>2, <1>5 DEF Tally

LEMMA SendsKeeps ==
  ASSUME MirrorInv, NEW h \in Hosts, NEW d, Sends(h, d),
         frames' = frames + 1, UNCHANGED seen
  PROVE  Numbered' /\ Arrived' /\ Explained' /\ Complete' /\ Tally'
<1>1. d \notin net /\ frames \in Nat
  BY DEF MirrorInv, Numbered, Sends
<1>2. \A a \in accepted : a.id \in 1 .. frames
  BY DEF MirrorInv, Explained, Numbered, Copy
<1>3. Copy(h, d) \notin accepted /\ Copy(h, d).host = h
  BY <1>1, <1>2 DEF Copy, Sends
<1>4. net' = net \cup {d} /\ d.from = h /\ d.id = frames + 1
      /\ BodySize(d) \in Nat /\ (d.hdr.corrupt => ~Taken(d))
  BY DEF Sends
<1>5. accepted' = IF Taken(d) THEN accepted \cup {Copy(h, d)} ELSE accepted
  BY DEF Sends
<1>6. Numbered'
  BY <1>1, <1>4 DEF MirrorInv, Numbered
<1>7. Arrived'
  BY <1>4 DEF MirrorInv, Arrived
<1>8. Explained'
  BY <1>4, <1>5 DEF MirrorInv, Explained
<1>9. Complete'
  BY <1>1, <1>4, <1>5 DEF MirrorInv, Complete, Arrived
<1>10. Tally'
  <2>1. Tally /\ IsFiniteSet(accepted) /\ IsFiniteSet(net)
    BY DEF MirrorInv, Tally
  <2>2. PICK n \in {"pcap_accept", "bad_fcs", "pcap_wfb_error"} :
          Count(h, {n}) /\ (Taken(d) <=> n = "pcap_accept")
    BY DEF Sends
  <2>3. /\ {n} \cap {"bad_fcs", "pcap_accept", "pcap_wfb_error"} # {}
        /\ {n} \cap {"pcap_accept", "mc_accept"} # {} <=> Taken(d)
        /\ n \in Names \ {"mc_corrupt"}
    BY <2>2 DEF Names, PcapResults
  <2>4. IsFiniteSet(net') /\ \A g : Sent(g)' = IF g = h THEN Sent(g) + 1 ELSE Sent(g)
    BY <1>1, <1>4, <2>1, SentMore
  <2>5. accepted' # accepted <=> Taken(d)
    BY <1>3, <1>5
  <2>6. /\ IsFiniteSet(accepted')
        /\ \A g : Accepted(g)' = IF Taken(d) /\ g = h THEN Accepted(g) + 1 ELSE Accepted(g)
    BY <1>3, <1>5, <2>1, <2>5, AcceptedMore
  <2> QED
    BY <2>1, <2>2, <2>3, <2>4, <2>6, TallyKept
<1> QED
  BY <1>6, <1>7, <1>8, <1>9, <1>10

(* Nothing was sent or accepted: only the counters change.                 *)
LEMMA QuietKeeps ==
  ASSUME MirrorInv, NEW h \in Hosts, Ignores(h) \/ Refuses(h),
         UNCHANGED <<net, seen>>, frames' \in {frames, frames + 1}
  PROVE  Numbered' /\ Arrived' /\ Explained' /\ Complete' /\ Tally'
<1>1. accepted' = accepted
  BY DEF Ignores, Refuses
<1>2. Numbered' /\ Arrived' /\ Explained' /\ Complete'
  BY <1>1 DEF MirrorInv, Numbered, Arrived, Explained, Complete
<1>3. PICK names : /\ Count(h, names)
                   /\ \/ \E n \in Names \ {"mc_corrupt"} : names = {n}
                      \/ names = {"mc_corrupt", "mc_wfb_error"}
                   /\ names \cap {"pcap_accept", "mc_accept"} = {}
                   /\ names \cap {"bad_fcs", "pcap_accept", "pcap_wfb_error"} = {}
  <2>1. ASSUME NEW n \in {"radiotap_error", "80211_error", "invalid_channel", "mc_wfb_error"}
        PROVE  /\ n \in Names \ {"mc_corrupt"}
               /\ {n} \cap {"pcap_accept", "mc_accept"} = {}
               /\ {n} \cap {"bad_fcs", "pcap_accept", "pcap_wfb_error"} = {}
    BY DEF Names, PcapResults, McResults
  <2>2. /\ {"mc_corrupt", "mc_wfb_error"} \cap {"pcap_accept", "mc_accept"} = {}
        /\ {"mc_corrupt", "mc_wfb_error"}
             \cap {"bad_fcs", "pcap_accept", "pcap_wfb_error"} = {}
    OBVIOUS
  <2>3. \/ \E n \in {"radiotap_error", "80211_error", "invalid_channel", "mc_wfb_error"} :
             Count(h, {n})
        \/ Count(h, {"mc_corrupt", "mc_wfb_error"})
    BY DEF Ignores, Refuses
  <2> QED
    BY <2>1, <2>2, <2>3
<1>4. Tally /\ IsFiniteSet(accepted') /\ IsFiniteSet(net')
  BY <1>1 DEF MirrorInv, Tally
<1>5. \A g : Accepted(g)' = Accepted(g) /\ Sent(g)' = Sent(g)
  BY <1>1 DEF Accepted, Sent, AcceptedAt, SentBy
<1> QED
  BY <1>2, <1>3, <1>4, <1>5, TallyKept

(* A datagram arrives where it was not before, and is taken there as it    *)
(* was taken by its sender.                                                *)
LEMMA ReceiveKeeps ==
  ASSUME MirrorInv, NEW r \in Hosts, Receive(r)
  PROVE  Numbered' /\ Arrived' /\ Explained' /\ Complete' /\ Tally'
<1>1. PICK d \in net \ seen[r] :
        /\ d.from # r
        /\ seen' = [seen EXCEPT ![r] = @ \cup {d}]
        /\ \/ /\ Taken(d)
              /\ accepted' = accepted \cup {Copy(r, d)}
              /\ Count(r, {"mc_accept"})
           \/ ~Taken(d) /\ Refuses(r)
  BY ReceiveDoes DEF MirrorInv
<1>2. UNCHANGED <<net, frames>>
  BY DEF Receive
<1>3. Copy(r, d) \notin accepted /\ Copy(r, d).host = r
  <2>1. SUFFICES ASSUME Copy(r, d) \in accepted PROVE FALSE
    BY DEF Copy
  <2>2. PICK e \in net, h \in Hosts : Copy(r, d) = Copy(h, e) /\ (h = e.from \/ e \in seen[h])
    BY <2>1 DEF MirrorInv, Explained
  <2>3. h = r /\ e.id = d.id
    BY <2>2 DEF Copy
  <2> QED
    BY <1>1, <2>2, <2>3 DEF MirrorInv, Numbered
<1>4. accepted' = IF Taken(d) THEN accepted \cup {Copy(r, d)} ELSE accepted
  BY <1>1 DEF Refuses
<1>5. Numbered'
  BY <1>2 DEF MirrorInv, Numbered
<1>6. Arrived'
  BY <1>1, <1>2 DEF MirrorInv, Arrived
<1>7. \A h \in Hosts : \A e : e \in seen'[h] <=> e \in seen[h] \/ (h = r /\ e = d)
  BY <1>1 DEF MirrorInv, Arrived
<1>8. Explained'
  BY <1>1, <1>2, <1>4, <1>7 DEF MirrorInv, Explained
<1>9. Complete'
  BY <1>2, <1>4, <1>7 DEF MirrorInv, Complete
<1>10. Tally'
  <2>1. Tally /\ IsFiniteSet(accepted) /\ IsFiniteSet(net')
    BY <1>2 DEF MirrorInv, Tally
  <2>2. \A g : Sent(g)' = Sent(g)
    BY <1>2 DEF Sent, SentBy
  <2>3. accepted' # accepted <=> Taken(d)
    BY <1>3, <1>4
  <2>4. /\ IsFiniteSet(accepted')
        /\ \A g : Accepted(g)' = IF Taken(d) /\ g = r THEN Accepted(g) + 1 ELSE Accepted(g)
    BY <1>3, <1>4, <2>1, <2>3, AcceptedMore
  <2>5. CASE Taken(d)
    <3>1. /\ {"mc_accept"} \cap {"pcap_accept", "mc_accept"} # {}
          /\ {"mc_accept"} \cap {"bad_fcs", "pcap_accept", "pcap_wfb_error"} = {}
          /\ "mc_accept" \in Names \ {"mc_corrupt"}
      BY DEF Names, McResults
    <3>2. Count(r, {"mc_accept"})
      BY <1>1, <2>5
    <3> QED
      BY <2>1, <2>2, <2>4, <2>5, <3>1, <3>2, TallyKept
  <2>6. CASE ~Taken(d)
    <3>1. PICK names : /\ Count(r, names)
                       /\ names \in {{"mc_wfb_error"}, {"mc_corrupt", "mc_wfb_error"}}
      BY <1>1, <2>6 DEF Refuses
    <3>2. /\ names \cap {"pcap_accept", "mc_accept"} = {}
          /\ names \cap {"bad_fcs", "pcap_accept", "pcap_wfb_error"} = {}
          /\ "mc_wfb_error" \in Names \ {"mc_corrupt"}
      BY <3>1 DEF Names, McResults
    <3> QED
      BY <2>1, <2>2, <2>4, <2>6, <3>1, <3>2, TallyKept
  <2> QED
    BY <2>5, <2>6
<1> QED
  BY <1>5, <1>6, <1>8, <1>9, <1>10

LEMMA MetaKept ==
  ASSUME MirrorInv, [Next]_vars
  PROVE  DOMAIN meta' = Hosts
<1>1. \/ UNCHANGED meta
      \/ \E h, m : meta' = [meta EXCEPT ![h] = m]
  BY DEF Next, vars, Quiet, Capture, Malformed, BadFcs, NotOurs, Ours, Intact,
     Receive, Stray, FrameUdp
<1> QED
  BY <1>1 DEF MirrorInv

LEMMA MirrorStep == MirrorInv /\ [Next]_vars => MirrorInv'
<1> SUFFICES ASSUME MirrorInv, [Next]_vars
             PROVE  Numbered' /\ Arrived' /\ Explained' /\ Complete' /\ Tally'
  BY MetaKept DEF MirrorInv
<1>1. ASSUME NEW h \in Capturing, Capture(h)
      PROVE  Numbered' /\ Arrived' /\ Explained' /\ Complete' /\ Tally'
  <2>1. /\ h \in Hosts /\ frames' = frames + 1 /\ UNCHANGED seen
        /\ Ignores(h) \/ \E d : Sends(h, d)
    BY <1>1, CaptureDoes DEF MirrorInv, Hosts
  <2>2. Ignores(h) => UNCHANGED net
    BY DEF Ignores
  <2> QED
    BY <2>1, <2>2, SendsKeeps, QuietKeeps
<1>2. ASSUME NEW r \in Receiving, Receive(r) \/ Stray(r)
      PROVE  Numbered' /\ Arrived' /\ Explained' /\ Complete' /\ Tally'
  BY <1>2, ReceiveKeeps, StrayDoes, QuietKeeps DEF Hosts
<1>3. CASE UNCHANGED vars
  BY <1>3 DEF vars, MirrorInv, Numbered, Arrived, Explained, Complete, Tally,
     CountersAddUp
<1> QED
  BY <1>1, <1>2, <1>3 DEF Next, Quiet

LEMMA MirrorAlways == Spec => []MirrorInv
BY MirrorInit, MirrorStep, PTL DEF Spec

-----------------------------------------------------------------------------
(* What a receiver takes from the group is what the sender's rx_frame_pcap *)
(* took from the air, header, length and measurements, and whatever the    *)
(* sender took is taken by everyone it reaches.                            *)
THEOREM FramesMirrored == Spec => []MirrorFaithful
<1>1. MirrorInv => MirrorFaithful
  <2> SUFFICES ASSUME MirrorInv PROVE MirrorFaithful
    OBVIOUS
  <2>1. ASSUME NEW a \in accepted, a.via # a.host
        PROVE  \E b \in accepted :
                 /\ b.host = a.via /\ b.via = a.via
                 /\ b.id = a.id /\ b.meta = a.meta /\ b.frame = a.frame
    <3>1. PICK d \in net, h \in Hosts : a = Copy(h, d) /\ Taken(d)
      BY DEF MirrorInv, Explained
    <3>2. Copy(d.from, d) \in accepted
      BY <3>1 DEF MirrorInv, Complete
    <3> QED
      BY <3>1, <3>2 DEF Copy
  <2>2. ASSUME NEW r \in Receiving, NEW d \in net, NEW b \in accepted,
               d \in seen[r], b.host = d.from, b.via = d.from, b.id = d.id
        PROVE  \E a \in accepted : a.host = r /\ a.via = d.from /\ a.id = d.id
    <3>1. PICK e \in net, h \in Hosts : b = Copy(h, e) /\ Taken(e)
      BY DEF MirrorInv, Explained
    <3>2. e = d
      BY <2>2, <3>1 DEF MirrorInv, Numbered, Copy
    <3>3. Copy(r, d) \in accepted
      BY <2>2, <3>1, <3>2 DEF MirrorInv, Complete, Hosts
    <3> QED
      BY <3>3 DEF Copy
  <2> QED
    BY <2>1, <2>2 DEF MirrorFaithful
<1> QED
  BY <1>1, MirrorAlways, PTL

(* A length that wrapped, where rx_frame_pcap strips the FCS from a short  *)
(* frame or netinet_rx the header from a short datagram, is never a        *)
(* frame's: wfb_frame_parse refuses it.                                    *)
THEOREM NoWrappedFrame == Spec => []NothingWrapped
<1>1. MirrorInv => NothingWrapped
  <2> SUFFICES ASSUME MirrorInv, NEW a \in accepted
               PROVE  /\ a.frame.pktlen <= MaxDataPacketSize
                      /\ a.frame.cipherlen + BlockHdrLen(a.frame.kind) = a.frame.pktlen
    BY DEF NothingWrapped
  <2>1. PICK d \in net, h \in Hosts : a = Copy(h, d) /\ Taken(d)
    BY DEF MirrorInv, Explained
  <2> DEFINE size == BodySize(d)
             len == BlockHdrLen(d.body.kind)
  <2>2. a.frame.pktlen = size /\ a.frame.kind = d.body.kind
        /\ a.frame.cipherlen = Minus(size, len)
    BY <2>1 DEF Copy, WfbFrame
  <2>3. size >= 1 /\ ~(size > MaxDataPacketSize) /\ size >= len
    BY <2>1 DEF Taken, WfbOk, TooLong
  <2>4. len \in {9, 25} /\ MaxDataPacketSize = 4021
    BY DEF BlockHdrLen, DataBlockHdrLen, SessionBlockHdrLen, MaxDataPacketSize, DataHdrLen
  <2>5. size \in Int
    BY MirrorAssumption DEF MirrorInv, Numbered
  <2> HIDE DEF size, len
  <2>6. Minus(size, len) = size - len
    BY <2>3, <2>4, <2>5, MinusSmall, MirrorAssumption
  <2> QED
    BY <2>2, <2>3, <2>4, <2>5, <2>6 DEF len
<1> QED
  BY <1>1, MirrorAlways, PTL

(* The counters of wfb_stats add up at every listener: as many frames were *)
(* accepted and as many datagrams sent as they say, and every notice of a  *)
(* corrupt frame is also counted as an unusable one.                       *)
THEOREM CountersRight == Spec => []CountersAddUp
<1>1. MirrorInv => CountersAddUp
  BY DEF MirrorInv, Tally
<1> QED
  BY <1>1, MirrorAlways, PTL
=============================================================================
