------------------------------ MODULE Delivery ------------------------------
(***************************************************************************)
(* What the receive path promises its consumers, the video decoder and the *)
(* log: within one session, fragments arrive in the order of the           *)
(* transmitter's stream, each at most once, and each is what the           *)
(* transmitter encrypted under the session's key.  Fragments may be        *)
(* missing: latency is preferred to completeness.                          *)
(***************************************************************************)
EXTENDS Integers, Sequences

CONSTANTS
  Keys, NoKey,
  Blocks, Fragments   \* block numbers and fragment numbers, sets of naturals

VARIABLES
  key,      \* the key of the session being delivered
  stream    \* the fragments delivered in it

dvars == <<key, stream>>

(* The transmitter's order.                                                *)
Before(x, y) ==
  x.block < y.block \/ (x.block = y.block /\ x.frag < y.frag)

DInit == key = NoKey /\ stream = <<>>

(* A session begins, or begins again: the stream restarts.                 *)
NewSession ==
  /\ key' \in Keys
  /\ stream' = <<>>

Deliver ==
  /\ key \in Keys
  /\ \E b \in Blocks, f \in Fragments :
       LET x == [block |-> b, frag |-> f,
                 data |-> [key |-> key, block |-> b, frag |-> f]]
       IN  /\ \A i \in 1 .. Len(stream) : Before(stream[i], x)
           /\ stream' = Append(stream, x)
  /\ UNCHANGED key

DNext == NewSession \/ Deliver

DSpec == DInit /\ [][DNext]_dvars
=============================================================================
