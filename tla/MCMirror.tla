------------------------------ MODULE MCMirror ------------------------------
(***************************************************************************)
(* Captures for module Mirror: frames at the edges of the length checks,   *)
(* with and without FCS, with every kind of body and of measurement.       *)
(***************************************************************************)
EXTENDS Mirror

Good == [malformed |-> FALSE, bad_fcs |-> FALSE, has_fcs |-> FALSE,
         signal |-> TRUE, freq |-> 5180, dbm |-> -60, ftype |-> "data",
         channel_id |-> 7, body |-> [kind |-> "data", nonce |-> 515],
         size |-> 24 + 1000]

MCRadio ==
  {Good, [Good EXCEPT !.malformed = TRUE], [Good EXCEPT !.bad_fcs = TRUE],
   [Good EXCEPT !.ftype = "other"], [Good EXCEPT !.channel_id = 8],
   [Good EXCEPT !.signal = FALSE, !.freq = 2412],
   [Good EXCEPT !.body.kind = "other"],
   [Good EXCEPT !.has_fcs = TRUE, !.dbm = 127]}
  \cup {[Good EXCEPT !.size = s, !.has_fcs = f] :
          s \in {12, 24, 27, 32, 33, 37, 4045, 4046, 4049}, f \in BOOLEAN}
  \cup {[Good EXCEPT !.body.kind = "session", !.size = s, !.dbm = -128] :
          s \in {48, 49}}

=============================================================================
