----------------------------- MODULE MCReceiver -----------------------------
(***************************************************************************)
(* Instances of the receive path for TLC.                                  *)
(***************************************************************************)
EXTENDS ReceiverProps

CONSTANTS k1, k2, k3

(* Two sessions with different codes and one announcement whose code       *)
(* rx_session refuses.                                                     *)
MCSessions ==
  {[key |-> k1, epoch |-> 0, channel |-> 7, fec_type |-> 1, k |-> 2, n |-> 3],
   [key |-> k2, epoch |-> 1, channel |-> 7, fec_type |-> 1, k |-> 1, n |-> 2],
   [key |-> k3, epoch |-> 0, channel |-> 7, fec_type |-> 1, k |-> 3, n |-> 2]}

OneSession ==
  {[key |-> k1, epoch |-> 0, channel |-> 7, fec_type |-> 1, k |-> 2, n |-> 3]}

LateEpoch ==
  {[key |-> k1, epoch |-> 1, channel |-> 7, fec_type |-> 1, k |-> 1, n |-> 2]}

(* Block 1 carries one frame that only completes the block.                *)
MCWithheld == {<<1, 1>>}
=============================================================================
