-------------------------------- MODULE MCLog --------------------------------
(***************************************************************************)
(* Instances of LogAnalysis for TLC: a session with one parity fragment    *)
(* for two, one with one for one, a node that hears well and one that      *)
(* hears as little as can be measured.                                     *)
(***************************************************************************)
EXTENDS LogAnalysis

CONSTANTS m1, m2

TwoCodes == {[k |-> 2, n |-> 3], [k |-> 1, n |-> 2]}

NearAndFar == (m1 :> {-50}) @@ (m2 :> {-128})

OneCode == {[k |-> 1, n |-> 2]}

Captured == [src \in {"capture"} |-> {-50}]

=============================================================================
