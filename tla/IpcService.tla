----------------------------- MODULE IpcService -----------------------------
(***************************************************************************)
(* What the control socket promises, without the socket: every request is  *)
(* done at one moment or not at all; a client that gets an answer gets the *)
(* answer of that moment; one that gets none knows nothing, its request    *)
(* may be done still.  The service stops only for a request to exit.       *)
(***************************************************************************)
EXTENDS Naturals, FiniteSets

CONSTANTS
  Clients,       \* invocations of wfb_listener -s
  Queries        \* what they may ask

None == "none"

(* struct ipc_msg as an answer: result, and the part of the union it uses. *)
NoMsg == [result |-> "none", value_b |-> FALSE, ipc_success |-> 0]

Valid == {"ping", "stat", "exit", "fec", "fec_toggle"}

VARIABLES
  no_fec,        \* wfb_options.no_fec
  stopped,       \* the listener has ended
  phase,         \* of a client: "idle", "called", "ok" or "failed"
  query,         \* what it asked
  done,          \* the answer its request was given when it was done
  result         \* the answer it got

vars == <<no_fec, stopped, phase, query, done, result>>

(* The setting and the answer after a query, of a service that has now     *)
(* done n requests.                                                        *)
Setting(q, b) == IF q = "fec_toggle" THEN ~b ELSE b

Answer(q, b, n) ==
  [result      |-> IF q \in Valid THEN "ok" ELSE "error",
   value_b     |-> q \in {"fec", "fec_toggle"} /\ Setting(q, b),
   ipc_success |-> IF q = "stat" THEN n ELSE 0]

Served == {c \in Clients : done[c] # NoMsg}

Call(c) ==
  /\ phase[c] = "idle"
  /\ phase' = [phase EXCEPT ![c] = "called"]
  /\ \E q \in Queries : query' = [query EXCEPT ![c] = q]
  /\ UNCHANGED <<no_fec, stopped, done, result>>

(* Also of a client that has given up.                                     *)
Do(c) ==
  /\ ~stopped
  /\ phase[c] \in {"called", "failed"}
  /\ done[c] = NoMsg
  /\ no_fec' = Setting(query[c], no_fec)
  /\ done' = [done EXCEPT ![c] =
                Answer(query[c], no_fec, Cardinality(Served) + 1)]
  /\ UNCHANGED <<stopped, phase, query, result>>

Return(c) ==
  /\ phase[c] = "called"
  /\ done[c] # NoMsg
  /\ phase' = [phase EXCEPT ![c] =
                 IF done[c].result = "ok" THEN "ok" ELSE "failed"]
  /\ result' = [result EXCEPT ![c] = done[c]]
  /\ UNCHANGED <<no_fec, stopped, query, done>>

Fail(c) ==
  /\ phase[c] = "called"
  /\ phase' = [phase EXCEPT ![c] = "failed"]
  /\ UNCHANGED <<no_fec, stopped, query, done, result>>

Stop ==
  /\ ~stopped
  /\ \E c \in Served : query[c] = "exit"
  /\ stopped' = TRUE
  /\ UNCHANGED <<no_fec, phase, query, done, result>>

Init ==
  /\ no_fec \in BOOLEAN
  /\ stopped = FALSE
  /\ phase = [c \in Clients |-> "idle"]
  /\ query = [c \in Clients |-> None]
  /\ done = [c \in Clients |-> NoMsg]
  /\ result = [c \in Clients |-> NoMsg]

Next == (\E c \in Clients : Call(c) \/ Do(c) \/ Return(c) \/ Fail(c)) \/ Stop

Spec == Init /\ [][Next]_vars

=============================================================================
