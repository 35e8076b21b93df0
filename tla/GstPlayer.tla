----------------------------- MODULE GstPlayer -----------------------------
(***************************************************************************)
(* One struct wfb_gst_context: the thread that runs its main loop and      *)
(* answers the bus, the thread that writes frames to it, the thread that   *)
(* ends the stream and takes the context down, and the pipeline, which     *)
(* plays in threads of its own (wfb_gst.c, log_h265.c, the end of _main).  *)
(*                                                                         *)
(* The critical sections of ctx->lock are one step each, but for the wait  *)
(* in wfb_gst_eos, which gives the lock away.  What GStreamer does is      *)
(* taken from how it is used here: buffers are played in order, EOS        *)
(* travels behind them and comes back as a message of the bus, an error    *)
(* may be reported while the pipeline plays, READY drops what has not been *)
(* played, NULL also what waits on the bus.                                *)
(***************************************************************************)
EXTENDS Naturals, Sequences

CONSTANTS
  Uses,          \* "live": wfb_listener -l; "play", "write": the log analyser
  Frames,        \* at most so many frames per stream
  Plays,         \* how often "play" is asked for
  Errors,        \* the pipeline may report an error
  NHist          \* OVERLAY_NHIST

ASSUME GstAssumption ==
  /\ Uses \subseteq {"live", "play", "write"}
  /\ Frames \in Nat \ {0} /\ Plays \in Nat \ {0} /\ NHist \in Nat \ {0}
  /\ Errors \in BOOLEAN

VARIABLES
  use,           \* which of the three this context is for
  app,           \* where the owner of the context is
  writer,        \* "push": in wfb_gst_write, between unlock and push
  loop,          \* the thread of loop(); "none": not created
  \* struct wfb_gst_context
  initialized, closing, joined, eos_detected, history_cur,
  \* the pipeline: "none" (a null pointer), its state, "freed" by
  \* join_thread, or "dangling": given back by a failed start
  pipeline,
  pushed, played,  \* buffers given to appsrc, and out of the sink
  eos_sent,      \* EOS is behind them
  bus,           \* messages waiting for the loop
  quit,          \* g_main_loop_quit was called on a running loop
  plays,         \* streams begun
  cut            \* history: frames were dropped though nothing went wrong

ctxVars  == <<initialized, closing, joined, eos_detected>>
pipeVars == <<pipeline, pushed, played, eos_sent, bus>>
stepVars == <<app, writer, loop, ctxVars, history_cur, pipeVars, quit, plays, cut>>
vars     == <<use, stepVars>>

(* gst_element_set_state and what the pipeline then drops.                 *)
SetState(state) ==
  /\ pipeline' = state
  /\ IF state = "playing"
     THEN UNCHANGED <<pushed, played, eos_sent, bus>>
     ELSE /\ pushed' = 0
          /\ played' = 0
          /\ eos_sent' = FALSE
          /\ bus' = IF state = "null" THEN <<>> ELSE bus

-----------------------------------------------------------------------------
(* Opening                                                                 *)

(* write_mp4 opens a context of its own, but send_data writes to           *)
(* player_ctx, which was never opened.                                     *)
SendsTo == IF use = "write" THEN "unopened" ELSE use

(* wfb_gst_context_init fails before it has a pipeline, when the pipeline  *)
(* does not play (which gives it back and leaves the pointer), or when     *)
(* there is no bus.                                                        *)
FailedPipelines ==
  IF SendsTo = "unopened" THEN {"none"} ELSE {"none", "dangling", "playing"}

(* wfb_gst_context_init and wfb_gst_thread_start, of which pthread_create  *)
(* may fail unnoticed.  wfb_listener exits when the context cannot be had; *)
(* init_player does not look.                                              *)
Start ==
  /\ app = "start"
  /\ plays' = plays + 1
  /\ history_cur' = 0
  /\ \/ /\ SendsTo # "unopened"
        /\ initialized' = TRUE
        /\ pipeline' = "playing"
        /\ loop' \in {"new", "none"}
        /\ app' = "send"
     \/ /\ pipeline' \in FailedPipelines
        /\ app' = IF use = "live" THEN "done" ELSE "send"
        /\ UNCHANGED <<initialized, loop>>
  /\ UNCHANGED <<writer, closing, joined, eos_detected, pushed, played,
                 eos_sent, bus, quit, cut>>

(* loop(): ctx->loop is set, then the loop runs.                           *)
LoopNew ==
  /\ loop = "new"
  /\ loop' = "made"
  /\ UNCHANGED <<app, writer, ctxVars, history_cur, pipeVars, quit, plays, cut>>

LoopRun ==
  /\ loop = "made"
  /\ loop' = "run"
  /\ UNCHANGED <<app, writer, ctxVars, history_cur, pipeVars, quit, plays, cut>>

-----------------------------------------------------------------------------
(* Writing: wfb_gst_handler in the netcore thread, or send_data            *)

(* wfb_gst_add_dbm *)
NextHistory(cur) == IF cur + 1 >= NHist THEN 0 ELSE cur + 1

AddDbm == history_cur' = IF closing THEN history_cur ELSE NextHistory(history_cur)

(* wfb_gst_write looks at the context, unlocks, ...                        *)
WriteCheck ==
  /\ app = "send"
  /\ writer = "idle"
  /\ pushed < Frames
  /\ AddDbm
  /\ writer' = IF initialized /\ ~closing THEN "push" ELSE "idle"
  /\ UNCHANGED <<app, loop, ctxVars, pipeVars, quit, plays, cut>>

(* ... makes the pipeline play and pushes the buffer.                      *)
WritePush ==
  /\ writer = "push"
  /\ writer' = "idle"
  /\ pipeline' = "playing"
  /\ pushed' = pushed + 1
  /\ UNCHANGED <<app, loop, ctxVars, history_cur, played, eos_sent, bus, quit,
                 plays, cut>>

-----------------------------------------------------------------------------
(* GStreamer                                                               *)

Play ==
  /\ pipeline = "playing"
  /\ played < pushed
  /\ played' = played + 1
  /\ UNCHANGED <<app, writer, loop, ctxVars, history_cur, pipeline, pushed,
                 eos_sent, bus, quit, plays, cut>>

PostEos ==
  /\ pipeline = "playing"
  /\ eos_sent
  /\ played = pushed
  /\ eos_sent' = FALSE
  /\ bus' = Append(bus, "eos")
  /\ UNCHANGED <<app, writer, loop, ctxVars, history_cur, pipeline, pushed,
                 played, quit, plays, cut>>

(* The stream stops at an error.                                           *)
PostError ==
  /\ Errors
  /\ pipeline = "playing"
  /\ "error" \notin {bus[i] : i \in DOMAIN bus}
  /\ eos_sent' = FALSE
  /\ bus' = Append(bus, "error")
  /\ UNCHANGED <<app, writer, loop, ctxVars, history_cur, pipeline, pushed,
                 played, quit, plays, cut>>

-----------------------------------------------------------------------------
(* The loop's thread: bus_call                                             *)

BusEos ==
  /\ loop = "run"
  /\ ~quit
  /\ bus # <<>>
  /\ Head(bus) = "eos"
  /\ bus' = Tail(bus)
  /\ eos_detected' = TRUE
  /\ UNCHANGED <<app, writer, loop, initialized, closing, joined, history_cur,
                 pipeline, pushed, played, eos_sent, quit, plays, cut>>

(* close_session(ctx, false): closing is set, ...                          *)
BusError ==
  /\ loop = "run"
  /\ ~quit
  /\ bus # <<>>
  /\ Head(bus) = "error"
  /\ bus' = Tail(bus)
  /\ closing' = TRUE
  /\ loop' = IF closing THEN "run" ELSE "error"
  /\ UNCHANGED <<app, writer, initialized, joined, eos_detected, history_cur,
                 pipeline, pushed, played, eos_sent, quit, plays, cut>>

(* ... the pipeline stopped, the loop told to quit.                        *)
BusErrorClose ==
  /\ loop = "error"
  /\ SetState("null")
  /\ quit' = TRUE
  /\ loop' = "run"
  /\ UNCHANGED <<app, writer, ctxVars, history_cur, plays, cut>>

(* Warnings, clocks, state changes and the rest are printed or ignored.    *)
BusOther ==
  /\ loop = "run"
  /\ ~quit
  /\ UNCHANGED stepVars

LoopEnd ==
  /\ loop = "run"
  /\ quit
  /\ loop' = "ended"
  /\ UNCHANGED <<app, writer, ctxVars, history_cur, pipeVars, quit, plays, cut>>

-----------------------------------------------------------------------------
(* The end: wfb_gst_eos, wfb_gst_thread_join                               *)

(* After wfb_gst_eos _main joins; the analyser plays again or exits.       *)
AfterEos == IF use = "live" THEN "close" ELSE "played"

(* The writer has stopped: main joined the netcore thread before, in the   *)
(* analyser it is the same thread.  is_stop reads the pipeline's state:    *)
(* through a null pointer, or, undefined, from a pipeline given back.      *)
Eos ==
  /\ app = "send"
  /\ writer = "idle"
  /\ \/ /\ pipeline = "none"
        /\ app' = "crashed"
        /\ UNCHANGED eos_sent
     \/ /\ pipeline = "dangling"
        /\ app' \in {"crashed", "wait", AfterEos}
        /\ UNCHANGED eos_sent
     \/ /\ pipeline \notin {"none", "dangling"}
        /\ closing \/ pipeline = "null"
        /\ app' = AfterEos
        /\ UNCHANGED eos_sent
     \/ /\ pipeline \notin {"none", "dangling", "null"}
        /\ ~closing
        /\ app' = "wait"
        /\ eos_sent' = (pipeline = "playing")
  /\ UNCHANGED <<writer, loop, ctxVars, history_cur, pipeline, pushed, played,
                 bus, quit, plays, cut>>

(* while (!eos_detected) pthread_cond_wait, then ensure_state(READY).      *)
Detected_NotAwaited == TRUE

Detected == eos_detected

EosWait ==
  /\ app = "wait"
  /\ Detected
  /\ app' = AfterEos
  /\ cut' = (cut \/ (~closing /\ played < pushed))
  /\ SetState("ready")
  /\ UNCHANGED <<writer, loop, ctxVars, history_cur, quit, plays>>

(* init_player, when it finds the context open; if not, it starts again.   *)
PlayAgain ==
  /\ app = "played"
  /\ \/ plays < Plays /\ initialized /\ plays' = plays + 1 /\ app' = "send"
     \/ plays < Plays /\ ~initialized /\ plays' = plays /\ app' = "start"
     \/ plays >= Plays /\ plays' = plays /\ app' = "done"
  /\ UNCHANGED <<writer, loop, ctxVars, history_cur, pipeVars, quit, cut>>

(* close_session(ctx, true)                                                *)
CloseSession ==
  /\ app = "close"
  /\ closing' = TRUE
  /\ app' = IF closing THEN "join" ELSE "stop"
  /\ UNCHANGED <<writer, loop, initialized, joined, eos_detected, history_cur,
                 pipeVars, quit, plays, cut>>

(* A pipeline that still plays would have to reach the end of its stream.  *)
(* Quitting a loop that does not run yet has no effect.                    *)
Quit_Missing == UNCHANGED quit

Quit == quit' = (quit \/ loop \in {"run", "error"})

CloseStop ==
  /\ app = "stop"
  /\ pipeline = "playing" => eos_detected
  /\ SetState("null")
  /\ Quit
  /\ app' = "join"
  /\ UNCHANGED <<writer, loop, ctxVars, history_cur, plays, cut>>

(* join_thread *)
Joined_AtOnce == TRUE

Joined == loop = "ended"

Join ==
  /\ app = "join"
  /\ Joined
  /\ joined' = TRUE
  /\ pipeline' = "freed"
  /\ initialized' = FALSE
  /\ app' = "done"
  /\ UNCHANGED <<writer, loop, closing, eos_detected, history_cur, pushed,
                 played, eos_sent, bus, quit, plays, cut>>

Running == app \notin {"done", "crashed"}

Over == ~Running /\ UNCHANGED stepVars

Init ==
  /\ use \in Uses
  /\ app = "start"
  /\ writer = "idle"
  /\ loop = "none"
  /\ initialized = FALSE /\ closing = FALSE /\ joined = FALSE
  /\ eos_detected = FALSE
  /\ history_cur = 0
  /\ pipeline = "none"
  /\ pushed = 0 /\ played = 0
  /\ eos_sent = FALSE
  /\ bus = <<>>
  /\ quit = FALSE
  /\ plays = 0
  /\ cut = FALSE

Loop == \/ LoopNew \/ LoopRun \/ BusEos \/ BusError \/ BusErrorClose
        \/ BusOther \/ LoopEnd

Pipeline == Play \/ PostEos \/ PostError

Write == WriteCheck \/ WritePush

Close == EosWait \/ PlayAgain \/ CloseSession \/ CloseStop \/ Join

Next ==
  /\ \/ Running /\ (Start \/ Write \/ Pipeline \/ Loop \/ Eos \/ Close)
     \/ Over
  /\ UNCHANGED use

Spec == Init /\ [][Next]_vars

(* Every thread runs; the pipeline plays what it has and passes EOS on.    *)
FairSpec ==
  /\ Spec
  /\ WF_stepVars(Running /\ Loop)
  /\ WF_stepVars(Running /\ Play) /\ WF_stepVars(Running /\ PostEos)
  /\ WF_stepVars(WritePush)
  /\ WF_stepVars(Close)

-----------------------------------------------------------------------------
(* Properties                                                              *)

(* Nobody uses the pipeline after join_thread gave it back: the loop has   *)
(* ended, no write is under way and the owner is through.  One given back  *)
(* by a failed start has neither a loop nor a writer.  wfb_gst_eos alone   *)
(* reads it, since init_player does not look at the failure.               *)
FreedLast ==
  /\ pipeline = "freed" => loop = "ended" /\ writer = "idle" /\ app = "done"
  /\ pipeline = "dangling" => loop = "none" /\ writer = "idle"

(* wfb_gst_eos does not stop the pipeline before the last frame it was     *)
(* given is played, unless the pipeline itself failed.  This holds of the  *)
(* first stream of a context: eos_detected stays set, so that later ones   *)
(* are not waited for.                                                     *)
PlayedToTheEnd == cut => plays > 1

(* wfb_gst_eos and wfb_gst_thread_join return, so that a listener told to  *)
(* exit does: in whatever state the loop, the pipeline and a write are.    *)
(* There are two exceptions, in which no EOS can come: an error of the     *)
(* pipeline while its end is awaited, and a loop that was never started.   *)
ExitCompletes ==
  app \in {"wait", "close", "stop", "join"} ~>
    app \in {"played", "done"} \/ (app = "wait" /\ (closing \/ loop = "none"))

=============================================================================
