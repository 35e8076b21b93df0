-------------------------- MODULE GstPlayerProofs --------------------------
(***************************************************************************)
(* Proofs about the player's threads, for streams of any length, any       *)
(* number of streams and all three uses of a context, with and without     *)
(* errors of the pipeline and failures of its start.                       *)
(***************************************************************************)
EXTENDS GstPlayer, TLAPS

Messages == {"eos", "error"}

AppLabels == {"start", "send", "wait", "close", "stop", "join", "played",
              "done", "crashed"}

PlayerTypes ==
  /\ app \in AppLabels
  /\ bus \in Seq(Messages)
  /\ plays \in Nat /\ pushed \in Nat /\ played \in Nat

(* A write is under way only while the owner sends, and the loop handles   *)
(* an error only after closing is set.                                     *)
Threads ==
  /\ writer = "push" => app = "send"
  /\ writer \in {"idle", "push"}
  /\ loop = "error" => closing

(* The streams are counted from the first.                                 *)
Counted == app # "start" => plays > 0

Pending(messages) == \E i \in 1 .. Len(messages) : messages[i] = "eos"

(* In the first stream the end of the stream is on its way only when the   *)
(* owner waits for it, and it has been passed on only when every buffer    *)
(* was played.                                                             *)
FirstEnd ==
  ~closing /\ plays <= 1 =>
    /\ app \in {"start", "send"} => ~eos_sent /\ ~eos_detected /\ ~Pending(bus)
    /\ app = "wait" /\ (eos_detected \/ Pending(bus)) => played = pushed

(* A context that could not be opened has no loop, takes no frame, and     *)
(* sees the end of no stream.                                              *)
Unopened ==
  /\ app = "start" \/ pipeline = "dangling" => ~initialized
  /\ ~initialized =>
       /\ writer = "idle"
       /\ app \notin {"close", "stop", "join"}
       /\ use = "live" => app \in {"start", "done"}
       /\ app # "done" => loop = "none" /\ ~eos_detected /\ ~closing
       /\ app \in {"start", "send", "played"} => ~eos_sent /\ ~Pending(bus)

PlayerInv ==
  /\ PlayerTypes /\ Threads /\ Counted /\ Unopened /\ FirstEnd
  /\ FreedLast /\ PlayedToTheEnd

-----------------------------------------------------------------------------
(* Messages of the bus                                                     *)

(* Putting a message behind the others, and taking the first.              *)
LEMMA BusAppend ==
  ASSUME NEW messages \in Seq(Messages), NEW m \in Messages
  PROVE  /\ Append(messages, m) \in Seq(Messages)
         /\ Pending(Append(messages, m)) => Pending(messages) \/ m = "eos"
BY DEF Pending

LEMMA BusTail ==
  ASSUME NEW messages \in Seq(Messages), messages # <<>>
  PROVE  /\ Tail(messages) \in Seq(Messages)
         /\ Pending(Tail(messages)) => Pending(messages)
         /\ Head(messages) = "eos" => Pending(messages)
<1>1. Tail(messages) \in Seq(Messages)
  OBVIOUS
<1>2. ASSUME Pending(Tail(messages)) PROVE Pending(messages)
  <2>1. PICK i \in 1 .. Len(Tail(messages)) : Tail(messages)[i] = "eos"
    BY <1>2 DEF Pending
  <2>2. i + 1 \in 1 .. Len(messages) /\ messages[i + 1] = "eos"
    BY <2>1
  <2> QED
    BY <2>2 DEF Pending
<1>3. 1 \in 1 .. Len(messages) /\ Head(messages) = messages[1]
  OBVIOUS
<1> QED
  BY <1>1, <1>2, <1>3 DEF Pending

LEMMA BusEmpty == <<>> \in Seq(Messages) /\ ~Pending(<<>>)
BY DEF Pending

-----------------------------------------------------------------------------
(* Every step keeps the invariant.                                         *)

LEMMA InitPlayer == ASSUME Init PROVE PlayerInv
<1>1. PlayerTypes
  BY BusEmpty DEF Init, PlayerTypes, AppLabels
<1>2. Threads /\ Counted /\ FreedLast /\ PlayedToTheEnd
  BY DEF Init, Threads, Counted, FreedLast, PlayedToTheEnd
<1>3. FirstEnd /\ Unopened
  BY BusEmpty DEF Init, FirstEnd, Unopened
<1> QED
  BY <1>1, <1>2, <1>3 DEF PlayerInv

LEMMA StartPlayer == ASSUME PlayerInv, UNCHANGED use, Start PROVE PlayerInv'
<1> USE DEF PlayerInv, Start
<1>1. PlayerTypes'
  BY DEF PlayerTypes, AppLabels
<1>2. Threads' /\ Counted' /\ PlayedToTheEnd'
  BY DEF PlayerTypes, Threads, Counted, PlayedToTheEnd
<1>3. FreedLast' /\ Unopened'
  BY DEF FailedPipelines, FreedLast, Unopened
<1>4. FirstEnd'
  BY DEF PlayerTypes, FirstEnd
<1> QED
  BY <1>1, <1>2, <1>3, <1>4

(* Steps of the loop's thread that touch neither stream nor bus.           *)
LEMMA LoopPlayer ==
  ASSUME PlayerInv, UNCHANGED use, Running,
         LoopNew \/ LoopRun \/ LoopEnd \/ BusOther
  PROVE  PlayerInv'
<1> USE DEF PlayerInv, LoopNew, LoopRun, LoopEnd, BusOther, stepVars, ctxVars,
            pipeVars
<1>1. PlayerTypes'
  BY DEF PlayerTypes
<1>2. Threads' /\ Counted'
  BY DEF Threads, Counted
<1>3. FreedLast' /\ PlayedToTheEnd'
  BY DEF Running, FreedLast, PlayedToTheEnd
<1>4. FirstEnd' /\ Unopened'
  BY DEF FirstEnd, Unopened, Running
<1> QED
  BY <1>1, <1>2, <1>3, <1>4

(* wfb_gst_write, while the owner sends.                                   *)
LEMMA WritePlayer ==
  ASSUME PlayerInv, UNCHANGED use, Running, Write PROVE PlayerInv'
<1> USE DEF PlayerInv, Write, WriteCheck, WritePush, ctxVars, pipeVars
<1>1. PlayerTypes'
  BY DEF PlayerTypes
<1>2. Threads' /\ Counted'
  BY DEF Threads, Counted
<1>3. FreedLast' /\ PlayedToTheEnd'
  BY DEF Running, Unopened, FreedLast, PlayedToTheEnd
<1>4. FirstEnd' /\ Unopened'
  BY DEF Threads, FirstEnd, Unopened
<1> QED
  BY <1>1, <1>2, <1>3, <1>4

(* The pipeline passes the end of the stream on when all is played.        *)
LEMMA PipelinePlayer ==
  ASSUME PlayerInv, UNCHANGED use, Running, Pipeline PROVE PlayerInv'
<1> USE DEF PlayerInv, Pipeline, Play, PostEos, PostError, ctxVars
<1>1. bus' \in Seq(Messages)
  BY BusAppend DEF PlayerTypes, Messages
<1>2. PlayerTypes'
  BY <1>1 DEF PlayerTypes
<1>3. Threads' /\ Counted'
  BY DEF Threads, Counted
<1>4. FreedLast' /\ PlayedToTheEnd'
  BY DEF Running, FreedLast, PlayedToTheEnd
<1>5. FirstEnd'
  <2>1. CASE Play
    BY <2>1 DEF FirstEnd, PlayerTypes
  <2>2. CASE PostEos
    BY <2>2, BusAppend DEF FirstEnd, PlayerTypes, Messages
  <2>3. CASE PostError
    <3>1. Pending(bus') => Pending(bus)
      BY <2>3, BusAppend DEF PlayerTypes, Messages
    <3> QED
      BY <2>3, <3>1 DEF FirstEnd
  <2> QED
    BY <2>1, <2>2, <2>3
<1>6. Unopened'
  <2>1. CASE Play
    BY <2>1 DEF Unopened
  <2>2. CASE PostEos
    BY <2>2 DEF Unopened
  <2>3. CASE PostError
    <3>1. Pending(bus') => Pending(bus)
      BY <2>3, BusAppend DEF PlayerTypes, Messages
    <3> QED
      BY <2>3, <3>1 DEF Unopened
  <2> QED
    BY <2>1, <2>2, <2>3
<1> QED
  BY <1>2, <1>3, <1>4, <1>5, <1>6

(* bus_call: the end of the stream, ...                                    *)
LEMMA BusEosPlayer ==
  ASSUME PlayerInv, UNCHANGED use, Running, BusEos PROVE PlayerInv'
<1> USE DEF PlayerInv, BusEos
<1>1. /\ bus' \in Seq(Messages)
      /\ Pending(bus)
  BY BusTail DEF PlayerTypes
<1>2. PlayerTypes'
  BY <1>1 DEF PlayerTypes
<1>3. Threads' /\ Counted' /\ FreedLast' /\ PlayedToTheEnd'
  BY DEF Threads, Counted, Running, FreedLast, PlayedToTheEnd
<1>4. FirstEnd' /\ Unopened'
  BY <1>1 DEF FirstEnd, Unopened, Running
<1> QED
  BY <1>2, <1>3, <1>4

(* ... an error, after which nothing is promised of the stream.            *)
LEMMA BusErrorPlayer ==
  ASSUME PlayerInv, UNCHANGED use, Running,
         BusError \/ BusErrorClose PROVE PlayerInv'
<1> USE DEF PlayerInv, BusError, BusErrorClose, SetState, ctxVars
<1>1. bus' \in Seq(Messages)
  BY BusTail, BusEmpty DEF PlayerTypes
<1>2. PlayerTypes'
  BY <1>1 DEF PlayerTypes
<1>3. Threads' /\ Counted' /\ FreedLast' /\ PlayedToTheEnd'
  BY DEF Threads, Counted, Running, FreedLast, PlayedToTheEnd
<1>4. closing'
  BY DEF Threads
<1>5. FirstEnd' /\ Unopened'
  BY <1>4 DEF FirstEnd, Unopened, Running
<1> QED
  BY <1>2, <1>3, <1>5

(* wfb_gst_eos, to the wait: whatever it finds, no write is under way.     *)
LEMMA EosPlayer ==
  ASSUME PlayerInv, UNCHANGED use, Running, Eos PROVE PlayerInv'
<1> USE DEF PlayerInv, Eos, AfterEos, ctxVars
<1>1. PlayerTypes'
  BY DEF PlayerTypes, AppLabels
<1>2. Threads' /\ Counted' /\ FreedLast' /\ PlayedToTheEnd'
  BY DEF Threads, Counted, Running, FreedLast, PlayedToTheEnd
<1>3. FirstEnd' /\ Unopened'
  BY DEF FirstEnd, Unopened, Running
<1> QED
  BY <1>1, <1>2, <1>3

(* The wait ends in the first stream with everything played.               *)
LEMMA EosWaitPlayer ==
  ASSUME PlayerInv, UNCHANGED use, Running, EosWait PROVE PlayerInv'
<1> USE DEF PlayerInv, EosWait, AfterEos, SetState, ctxVars
<1>1. PlayerTypes'
  BY DEF PlayerTypes, AppLabels
<1>2. Threads' /\ Counted' /\ FreedLast' /\ FirstEnd'
  BY DEF Threads, Counted, Running, FreedLast, FirstEnd
<1>4. Unopened'
  BY DEF Unopened, Running, Detected
<1>3. PlayedToTheEnd'
  <2>1. ASSUME ~closing, played < pushed PROVE plays > 1
    <3>1. ~(plays <= 1)
      BY <2>1 DEF FirstEnd, Detected, PlayerTypes
    <3> QED
      BY <3>1 DEF PlayerTypes
  <2> QED
    BY <2>1 DEF PlayedToTheEnd
<1> QED
  BY <1>1, <1>2, <1>3, <1>4

(* The next stream, ...                                                    *)
LEMMA PlayAgainPlayer ==
  ASSUME PlayerInv, UNCHANGED use, Running, PlayAgain PROVE PlayerInv'
<1> USE DEF PlayerInv, PlayAgain, ctxVars, pipeVars
<1>1. \/ plays' = plays /\ app' = "done"
      \/ plays' = plays /\ app' = "start" /\ ~initialized
      \/ plays' = plays + 1 /\ app' = "send" /\ initialized
  OBVIOUS
<1>2. plays \in Nat /\ plays > 0
  BY DEF PlayerTypes, Counted
<1>3. plays' \in Nat /\ plays' >= plays /\ (app' = "send" => plays' > 1)
  BY <1>1, <1>2
<1>4. PlayerTypes'
  BY <1>1, <1>3 DEF PlayerTypes, AppLabels
<1>5. Threads' /\ Counted' /\ FreedLast'
  BY <1>1, <1>2, <1>3 DEF Threads, Counted, Running, FreedLast
<1>6. PlayedToTheEnd'
  BY <1>2, <1>3 DEF PlayedToTheEnd
<1>7. FirstEnd' /\ Unopened'
  BY <1>1, <1>3 DEF FirstEnd, Unopened, Running
<1> QED
  BY <1>4, <1>5, <1>6, <1>7

(* ... or the end of the context.                                          *)
LEMMA ClosePlayer ==
  ASSUME PlayerInv, UNCHANGED use, Running, CloseSession \/ CloseStop \/ Join
  PROVE  PlayerInv'
<1> USE DEF PlayerInv, CloseSession, CloseStop, Join, SetState, ctxVars, pipeVars
<1>0. bus' = bus \/ bus' = <<>>
  OBVIOUS
<1>1. PlayerTypes'
  <2>1. bus' \in Seq(Messages)
    BY <1>0, BusEmpty DEF PlayerTypes
  <2>2. app' \in AppLabels
    BY DEF AppLabels
  <2>3. plays' \in Nat /\ pushed' \in Nat /\ played' \in Nat
    BY DEF PlayerTypes
  <2> QED
    BY <2>1, <2>2, <2>3 DEF PlayerTypes
<1>2. Threads' /\ Counted' /\ PlayedToTheEnd'
  BY DEF Threads, Counted, PlayedToTheEnd
<1>3. FreedLast'
  BY DEF Threads, Joined, Running, FreedLast
<1>4. FirstEnd' /\ Unopened'
  BY DEF FirstEnd, Unopened, Running, Threads
<1> QED
  BY <1>1, <1>2, <1>3, <1>4

LEMMA StutterPlayer == ASSUME PlayerInv, UNCHANGED vars PROVE PlayerInv'
BY DEF PlayerInv, PlayerTypes, Threads, Counted, Unopened, FirstEnd, FreedLast,
       PlayedToTheEnd, vars, stepVars, ctxVars, pipeVars

LEMMA NextPlayer == PlayerInv /\ [Next]_vars => PlayerInv'
BY StartPlayer, LoopPlayer, WritePlayer, PipelinePlayer, BusEosPlayer,
   BusErrorPlayer, EosPlayer, EosWaitPlayer, PlayAgainPlayer, ClosePlayer,
   StutterPlayer
DEF Next, Loop, Close, Over, vars

LEMMA PlayerInvariant == Spec => []PlayerInv
BY InitPlayer, NextPlayer, PTL DEF Spec

-----------------------------------------------------------------------------
(* Theorems                                                                *)

(* join_thread gives the pipeline back when the loop has ended, no call of *)
(* wfb_gst_write is between its check and its push, and the owner is       *)
(* through, whatever errors the bus reported on the way.  A pipeline that  *)
(* wfb_gst_context_init gave back because it did not play has no loop and  *)
(* no writer; what is left of it to wfb_gst_eos is not claimed.            *)
THEOREM PipelineFreedLast == Spec => []FreedLast
<1>1. PlayerInv => FreedLast
  BY DEF PlayerInv
<1> QED
  BY <1>1, PlayerInvariant, PTL

(* wfb_gst_eos drops no frame of the first stream unless the pipeline      *)
(* failed, for streams of any length.                                      *)
THEOREM FirstStreamPlayed == Spec => []PlayedToTheEnd
<1>1. PlayerInv => PlayedToTheEnd
  BY DEF PlayerInv
<1> QED
  BY <1>1, PlayerInvariant, PTL
=============================================================================
