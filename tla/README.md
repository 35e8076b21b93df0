# wfb-ya: specification and proofs

TLA+ modules for `wfb_listener`, the receiver of WFB-NG video links, and for
`log_analysis`, which reads its logs: what the receive path does to the frames it
is given, how the event loop keeps the sockets open, how listeners share a pid
file and a control socket, how the player starts and ends, what is mirrored, and
what is logged and read back.  All of it is checked with TLC on small instances;
the safety of the receive path, of the event loop, the pid file, the control
socket, the player, the mirror and the log is proved with TLAPS for every value of
the constants, and that the receive path and the control socket implement their
abstract specifications.

## The system

A transmitter cuts a video stream into FEC blocks of `fec_k` data and
`fec_n - fec_k` parity fragments, encrypts each fragment with a session key and
broadcasts them over Wi-Fi; now and then it broadcasts the session: its epoch,
its code and its key, encrypted with the ground station's key pair.
`wfb_listener` runs as a mirror (captures frames in monitor mode and forwards
them as IPv6 multicast), as a receiver (takes them from the multicast group,
usually from several mirrors at once) or as both.

| Component | State | Operations | Talks to |
|---|---|---|---|
| rbuf (`util_rbuf.c`) | ring of blocks, `ring_front`, `ring_alloc`, `last_block`; per block `index`, `fragment_used`, `fragment_to_send`, lengths, buffers | `rbuf_alloc`, `rbuf_get_block`, `rbuf_free_block` | called by rx_session, rx_data |
| rx_session | `has_session_key`, `session_key`, `epoch`, `fec_k`, `fec_n` | accept or refuse an announcement | crypto, fec, rbuf, log |
| rx_data | `ctx->wfb` (the frame) | store, send, purge, recover | rbuf, crypto, fec, decode handlers, log |
| crypto (`crypto_wfb.c`) | its own copy of the session key | set key, decrypt | libsodium |
| fec (`fec_wfb.c`) | the coder | new, apply | zfec |
| rx_core | the context, mirror and decode handlers | parse, mirror, dispatch | frame parsers, rx_session, rx_data |
| rx_log | the log file | create, frame, decode, message records | file system |
| netcore, netinet, netpcap | event base, sockets, capture handle, reload flag | watchdog, reload hooks, exit | libevent, kernel |
| frame parsers | `struct rx_context`'s view of the last frame: lengths, header, frequency, dBm | parse radiotap, 802.11, WFB and UDP headers, build the UDP header | rx_core |
| ipc | control socket, one request at a time | ping, stat, exit, FEC on, off, toggle | clients, netcore, `wfb_options` |
| daemon | pid file | create, kill, clean up | other daemons |
| wfb_gst | player thread, main loop, condition variable | start, write, eos, join | GStreamer |
| log analyser | records by block and fragment | load, filter, histogram, output | log files |

One thread, netcore's, runs every receive handler and the control socket; the
player has threads of its own.  What is hard here:

* order: frames are lost, duplicated by several mirrors and reordered between
  them, and a block is flushed as soon as a newer one begins;
* the window: its counters are unsigned and signed integers of several widths,
  and every loop over it runs until a slot meets a condition;
* rekeying: the session is replaced in many steps with error returns between;
* reuse: slots keep their buffers from block to block;
* processes: listeners and `-K` race on the pid file's locks, its removal and
  process ids that are given out again;
* time: client and daemon each give up after 100 ms, whatever the other does;
* threads: the player has a lock, a condition variable and a main loop of its
  own, an error may come at any moment;
* measurements: one context holds what the last frame said, and what is mirrored
  or logged is taken from it;
* crashes: a log may end within a record and is read all the same.

What makes each part correct:

* rx_data: delivered data is genuine, in order, at most once; the data of a
  block with enough fragments is delivered at once; every handler returns;
* rx_session: a session in use is all of one announcement;
* rbuf: the block returned is the block asked for; freeing ends;
* netcore/netinet: a closed socket is reopened eventually, an exit is obeyed;
* ipc: a reply answers its request, a request takes effect once;
* daemon: a pid file names the daemon that lives from it, and is read whole;
* wfb_gst: a pipeline that was opened is not used after it was freed, end of
  stream and join return;
* rx_core and parsers: a mirrored frame means to its receiver what it meant where
  it was captured, no wrapped length passes for a frame;
* rx_log: the records of a single thread are whole, no earlier log is overwritten;
* log analyser: everything logged is loaded, a replay is in order, what it calls
  recoverable was recoverable.

## Modules

| Module | Models |
|---|---|
| `RingBuffer` | operators of the window: search, number of new blocks, slots, what freeing does to front and count; loops in closed form, `size_t` and `int` widths as constants |
| `RingLoops` | the same two loops turn by turn, to compare with the closed forms |
| `Receiver` | rx_session, rx_data and everything they call, as actions |
| `ReceiverProps` | the properties |
| `Delivery` | the abstract stream the receive path promises |
| `MCReceiver` | constants for TLC |
| `ReceiverProofs` | lemmas about the ring, types, and that what is delivered is genuine |
| `DeliveryProofs` | the order and completeness of what is delivered; `Receiver` implements `Delivery` |
| `NetCore` | the event loop, its watchdog and reload hooks, the sockets of netinet, the capture descriptor of netpcap, and `_main` around them |
| `PidFile` | `create_daemon`, `kill_daemon` and the exit handlers of any number of processes, over inodes, names and `flock` |
| `PidFileProofs`, `NetCoreProofs`, `IpcProofs`, `GstPlayerProofs`, `MirrorProofs`, `LogProofs` | the theorems about `PidFile`, `NetCore`, `Ipc`, `GstPlayer`, `Mirror`, `RxLog` and `LogAnalysis` |
| `Ipc` | client and server of the control socket, one action per system call that others can see |
| `IpcService` | the abstract service it promises: each request is carried out at one moment or not at all |
| `GstPlayer` | one player context: owner, writer, main loop, pipeline |
| `Mirror`, `MCMirror` | the parsers, `rx_frame_pcap`, `rx_frame_udp`, `rx_mirror_frame`, on hosts that capture and hosts that receive |
| `RxLog` | what a listener writes to its logs, and which sessions share one |
| `LogAnalysis`, `MCLog` | extends `RxLog`: the analyser's store, loader, filter, replay order, median and count of corrupted blocks, over the logs the listener left; constants for TLC |

`Receiver` names its variables after the fields of `struct rx_context` and
`struct rbuf`.  A data handler is cut at its loops and `pc` names the loop:

| `pc` | code | actions |
|---|---|---|
| `idle` | event loop | `Session...` (rx_session), `RxFound`, `RxNew`, `RxSearchSpins` (rx_data to `rbuf_get_block`), `FecToggle` (ipc) |
| `alloc` | allocation loop of `rbuf_get_block` | `AllocBlock`, `AllocDone`, `AllocSpins` |
| `store` | rx_data after the block is found | `StoreDuplicate`, `StoreRefused`, `Store` |
| `seq` | `send_data_seq` | `SendSeq`, `SeqComplete`, `SeqBlocked` |
| `purge` | `purge_stale` with `send_data_stale` | `PurgeSend`, `PurgeSkip`, `PurgeFree`, `PurgeDone` |
| `fec` | the recovery test of `data_add` | `Recover`, `WaitForMore` |
| `recovered` | `send_data_recovered` | `SendRecovered`, `RecoveredDone` |
| `searching`, `freeing` | a loop that does not end | `Spin` |

Abstractions.  A plaintext is the record of the session key, block and fragment
it was encoded as; a buffer holds such a record or `Garbage` (memory never
written, or a failed decryption).  A frame is the header it carries and the key
it authenticates under; `NoKey` stands for damaged and foreign frames.
`fec_decode` (zfec) gives the block's data from `fec_k` distinct fragments of
one block of one session under that session's code, and garbage otherwise.
`Withheld` names the plaintexts that `send_data_one` does not pass on (the
FEC_ONLY flag, an oversized length).  RSSI, `last_seq` and messages are left
out: nothing but output reads them.  Early returns that change nothing are
stuttering.  An integer overflow of the search counter, undefined in C, is a
choice between a search that ends as if the counter were wide and one that does
not end.

`NetCore` has two threads: `main` is where `_main` is, `net` where the netcore
thread is.  A handler of the event loop is one action, except `netcore_wdt`
(`WdtStart`, one `WdtHook` per hook, `WdtEnd`), because a signal may be caught
and a device may go while hooks run.  Descriptors are numbers, the lowest free
one is taken, as the kernel does; `leaked` are those that no variable of the
program names any more.  A device is there or not (`up`), and a socket can be
attached only when it is: the default group is link-local.  A signal that is
caught sets `sighup` until its handler runs in the loop; an `event_base_loopexit`
lets the loop serve other events before it ends.  `pthread_join` of a thread that
could not be created is undefined: it fails or crashes.  `_main` opens the control
socket (`MainIpc`) and registers its event on the same base; nothing takes that
event off again.  With `LocalPlay` it opens a player before the thread and waits
for it after the join (`MainPlayer`), a wait that the player alone ends.

`PidFile` cuts `create_pid_file` and `read_pid_file` at each system call; a file
is an inode with a content, the path names one of them or none, and an unlinked
one lives on while it is open.  Turning a shared lock into an exclusive one is one
step that succeeds or fails, as the Linux kernel does it (the manual page does not
promise it); a failed one loses the lock, which the code then closes anyway.  A
process may fail at any call and die at any
point, losing descriptors and locks and leaving the file.  With `PidReuse` a pid
comes back, to a listener or to another program (`foreign`).

`Ipc` has no clock: either side may give up whenever it waits, which covers every
timing of the two 100 ms timeouts.  The counters of the daemon (`ipc_success`,
`ipc_error`) are kept, since a `stat` reports them; `MaxErrors` bounds how many
errors are told apart.  `exhausted` says that the listener has no descriptor left:
`accept` then fails (`AcceptFails`), the error is counted, and the connection stays
in the queue, where the loop finds it again.

`GstPlayer` takes a critical section of the context's lock as one step, except
where the code gives the lock away: around `gst_app_src_push_buffer` and in
`pthread_cond_wait`.  `use` tells a listener's player from a replay and from the
writing of a file.  The pipeline plays in order, passes EOS on behind the last
buffer and may report an error; setting its state drops what GStreamer drops.  A
start that fails has the pipeline never made, or given back with `ctx->pipeline`
still pointing to it (`pipeline = "dangling"`); the owner does not look at the
error and goes on.

`Mirror` has lengths modulo `SizeMod` for `size_t`, and a frame's measurements as
a small set; the radio frames it takes are those at the edges of the length
checks (`MCMirror`).  Signal strength travels as two bytes in network order and
is converted back.

`RxLog` writes a log chunk by chunk, a chunk being one `fwrite`, so that a kill
falls between any two.  A log holds one session after another: `rx_session` rotates
it only when the epoch has not risen (`Create`), otherwise the next session goes on
in the open log, under the file header of the first one's code (`Rekey`).  Every
frame is logged as often as it arrives, before it is looked at, duplicates and
frames that are then refused included.  Deliveries are bounded by what `Receiver`
is shown to allow: once, and ascending within a block, per session, not per log.
`LogAnalysis` keeps the indexes of the store as sequences ordered by key; the
histogram is indexed by the strength as `uint8_t` and the median is the result of
`log_hist`'s own loop.

Environment.  A transmitter numbers blocks upwards: an authentic frame is at
most `MaxGap` blocks ahead of the newest block seen; older ones arrive in any
order and number.  Unauthenticated frames carry any header.  A key belongs to
one code: keys are drawn afresh for a session.

## Runs

| Run | Instance | Shows |
|---|---|---|
| `inorder` | 3 slots, blocks 0..4, codes (2,3) and (1,2), a refused code, `MaxGap` 1 | types, `SessionCoherent`, `RecoveredInTime`, `OldBlocksForgotten`, `WindowAuthentic`, `BlockAskedFor`, the refinement `ImplementsDelivery`, and that every handler returns |
| `anygap` | 3 slots, blocks 0..4, code (2,3), `MaxGap` 4, FEC toggled | `Genuine`, `AtMostOnce`, `NoSilentSkip` hold even when whole blocks are lost and the ring's counters are derailed |
| `ring_loops` | all rings of a small size | the closed forms of `RingBuffer` |
| `netcore` | 6 descriptors for 4 sockets (the control socket among them), all inputs and outputs in use, local play, failing events | `EventOnOwnSocket`, `BaseOutlivesEvents`, `ClosedRxRetried`; `HupServed`, `StopsWhenTold`, `RxComesBack` |
| `pid_owner` | 2 pids used again and again, one `-K`, 3 inodes | `FileNamesOwner`, `ReadersSeeWholePid`, `RefusedForRival` |
| `ipc` | 3 clients, 4 kinds of query, one client that may never send, a backlog of 0, descriptors that run out and come back, one error told apart | the refinement `Linearizable`; `ClientReturns`, `ExitObeyed` |
| `player` | live play, replay and writing, 4 frames, 2 plays, errors, starts that fail | `FreedLast`, `PlayedToTheEnd`, `ExitCompletes` |
| `mirror` | 2 hosts that capture, 2 that receive (one does both), 2 frames | `MirrorFaithful`, `NothingWrapped`, `CountersAddUp` |
| `log` | codes (2,3) and (1,2), one block, two mirrors that hear at -50 and at -128 dBm, two sessions in one or two logs, 2 frames and one message or notice per log, 7 chunks, two cut-offs | `WellFormed`, `OldLogsKept`, `StoreOK`, `LoadedAll`, `ReplayInOrder`, `CorruptedIsLost`, `FilterFresh`, `FilterExact`, `MedianInMiddle` |
| `lost_block` | `MaxGap` 2 | losing a whole block: freeing a completed one does not end |
| `redistribute` | as `netcore` | the mirror is not reopened once failed attempts used up the descriptors |
| `log_captured` | frames from a capture | a log with captured frames is not loaded |

Bounds.  More blocks than slots, so that the ring wraps and slots are reused;
a gap up to and beyond the ring's size; codes with and without a spare data
fragment; `IntMod` and `SizeMod` larger than any count the ring reaches
without wrapping, so that a wrapped counter is told apart as in the code.
Two pids and three inodes let a file be unlinked while another process has it
open and a third be made meanwhile, and `-K` read any of them; the proofs do away
with these bounds.  `ipc` has a backlog of 0 in place of
the code's 1, so that three clients, not four, make one wait in `connect` behind
one that has connected and says nothing.  Seven chunks are a file header,
two frames and two decoded frames with their data: a whole block of the code
(2,3), one fragment of (1,2) heard twice, or the same fragment heard and decoded in
each of two sessions that share the log.  `MaxOld` lets a log before the last have
its file header at most, since an old log only has to be left alone and loaded.
A log may stay empty, end within a record, or hold a notice (block 0) between
frames of block 1, which is what the order of the index depends on.  One mirror's
-128 dBm is at the end of the histogram where the loop of the median does not
begin.  `player`,
`log` and `log_captured` do not check for deadlock: a player that waits for ever
is the exception of `ExitCompletes`, and a listener with no session left and
nothing to load is at the end of what the bounds allow.

Fairness.  `FairSpec` asks for weak fairness of the steps of a running handler
only: the thread is not taken away from it for ever.  No arrival of frames or
announcements is assumed.  A loop that does not end is a state with `Spin`
only, so that hanging violates `HandlerReturns`.  `NetCore!FairSpec` asks for
weak fairness of the steps of main and of the thread outside the loop, and for
strong fairness of a caught signal's handler, of the due watchdog and of the end
of a loop that was told to exit: libevent polls signals and timers in every turn,
whatever other events come in between.  Nothing is assumed of devices, signals
or failing reads and writes, except that `event_new` does not fail for ever when
the socket could be opened, nor of the player's end: `StopsWhenTold` says that the
program exits or waits in `MainPlayer` for ever.  `RxComesBack` needs a device that
does not go again and a free descriptor.  `Ipc!FairSpec` has the event loop serve
what is queued and what it has accepted and each client continue, and every wait
of 100 ms end; a client may stay away, and the stalled one never writes.
`ClientReturns` has the descriptors back for good (`<>[]~exhausted`): a client
behind a full queue has no timeout in `connect`.  `GstPlayer!FairSpec` has every
thread run, and the pipeline play what it has and pass EOS on; errors are not
required and frames need not come.

What the violations say.  In the regime without wholly lost blocks the receive
path is right.  When a block is lost as a whole, the allocation loop of
`rbuf_get_block`, which adds both its counter and the already incremented
`ring_alloc`, leaves empty slots between blocks; `rbuf_free_block` then
decrements `ring_alloc` once per empty slot and past zero, after which the next
free or search does not end in practice; and blocks may be left behind the
front.  What is delivered stays genuine and is delivered once all the same.
In the event loop, `inet_rx_socket` and `inet_tx_socket` do not close a socket
that they cannot attach, and the watchdog asks for a new one every second.  A
listener that captures logs frames without a type, where the analyser stops.

The models show more of this kind, for which there is no run; each can be seen by
setting the constant or stating the property named here:

* after a lost block a late frame may keep the thread in the search of
  `rbuf_get_block` (state `searching`), and `purge_stale` may leave an older
  block in the ring (`OldBlocksForgotten` with `MaxGap` 2);
* a header a multiple of 2^32 blocks ahead makes `new_blocks` zero
  (`Aliased`): the slot of another block is returned, and when its duplicate test
  ends `rx_data` before decryption, the window stays moved.  Only a frame that is
  not of the session's key can carry such a header; `BlockAskedFor` and
  `WindowAuthentic` allow for it (see Proofs);
* a transmitter whose first epoch is not 0 is received without a log
  (`RxLogCreate` is taken only for an epoch that is not above the last);
* a stale pid file with the starter's own pid makes it refuse to start, which
  `RefusedForRival` allows for; a daemon that unlinks the file another is about
  to lock lets two daemons run, on two inodes; a second listener takes the
  control socket's path away from the first (`Serve`, `IpcCleanup`);
* with `IgnoresSigpipe = FALSE`, a listener in the foreground, a reply that comes
  too late ends the listener, and `Linearizable` fails;
* a second replay is not waited for, as `eos_detected` stays set (`PlayedToTheEnd`
  is about the first), an error after end of stream was asked for leaves
  `wfb_gst_eos` waiting (the exception of `ExitCompletes`), and writing a file
  sends its frames to a context that was never opened (`app = "crashed"`);
* a start that fails after the pipeline was made gives it back and leaves the
  pointer, `init_player` does not look at the error, and `wfb_gst_eos` reads the
  pipeline that is gone (`pipeline = "dangling"`; `FreedLast` says of it that
  neither a loop nor a writer is there to read it as well);
* the control socket's event is still registered when the base is freed, where
  `_main` has the comment "XXX: more cleanup" (`BaseOutlivesEvents` names it), and
  nobody notices that the netcore thread could not be created;
* while the listener has no descriptor, which the run `redistribute` shows to last,
  clients behind the queue wait in `connect` (`ClientReturns` without its premise);
* with `PlayerThread`, messages of the player's thread tear records apart
  (`WellFormed`); with `Debug`, a log begins with a message and is refused
  (`LoadedAll`); a delivered block with a frame that only completes the FEC
  block is counted as corrupted, which `CorruptedIsLost` allows for;
* a fragment logged twice, from two mirrors or in two sessions, counts twice toward
  `fec_k`, so that a filter may keep a frame that could not have been rebuilt:
  `FilterExact` says that a frame is dropped rightly, and which ones are;
* where sessions share a log after a rising epoch, the blocks of a session with a
  smaller `fec_k` than the file header's count as corrupted although nothing is
  lost (`CorruptedIsLost` leaves them out), and a replay mixes the sessions: equal
  sequence numbers follow each other in the order of decoding (`ReplayInOrder`);
* a median of -128 dBm is shown as -127, since the loop begins at index 1, and a
  strength of 127 dBm has an index beyond the histogram; `MedianInMiddle` leaves out
  the latter and a log with no other strength than -128, where no median is found.

## Proofs

Each theorem is about every value of the constants that its module's assumptions
and its own hypotheses admit.  The hypotheses are five, each a regime of the code:

* `MaxGap = 1`: no block is lost as a whole (an authentic frame is at most one
  block ahead).  The run `lost_block` shows that without it the ring goes wrong;
* `FecToggles = FALSE`: no client switches FEC while frames are received;
* `IgnoresSigpipe`: the listener is a daemon, which ignores SIGPIPE;
* `~Debug`, `~PlayerThread`: only the network thread logs, without debugging
  messages, as in a listener without a player;
* `~Captures`: the frames come from mirrors, none from a capture of the listener's
  own, whose records have no type and stop the loader (run `log_captured`).

### Receive path

The proofs assume `RingAssumption` and `ReceiverAssumption`.  The first has
`2 * RingSize + 1 < IntMod`: a count that `rbuf_get_block` raises by a ring's
length stays an int (the code has 40 slots and 2^32).  Where no `MaxGap` is
named, the gap between blocks is arbitrary below 2^32, so that a theorem holds
also where the ring's bookkeeping is wrong.

`ReceiverProofs!TypeCorrect` (types, hence array bounds) is inductive with
`AllocInv`: while `rbuf_get_block` allocates, the block is ahead of the window
and `new_blocks` is `NewBlocks` of it, which bounds the block numbers given out.

`ReceiverProofs!CoherentSession` and `ReceiverProofs!GenuineDelivery` use
`GenuineInv`:

* `SessionInv`: a handler past its checks runs in a session, and a session in
  use is one of the announcements, so that the coder fits the key;
* `StoredGenuine`: a fragment of non-zero length is what its place stands for;
* `UsedCounts`: `fragment_used` is the number of such fragments, so that with
  `fragment_used = fec_k` as many data fragments are lost as parity is at hand
  (`AllUsed`) and recovery is exact (`Recovery`);
* `FreedSent`: a slot is freed only with nothing left to send, so that the
  purge of an empty front slot sends nothing;
* `BlockFound`: an authentic frame is stored in its own block, which needs
  `MaxGap < 2^32` (the 32-bit difference is then not zero);
* `RecoveredGenuine`: what `send_data_recovered` still has to send is there.

`DeliveryProofs!DeliveredOnce` adds `OnceInv` to it:

* `OneSlotEach`: no two slots hold the same block number;
* `SentBefore`, `SentUpTo`: what was delivered lies in blocks up to the newest
  one, and of a block still in the ring it lies before `fragment_to_send`, so
  that the three sending loops, which start there, repeat nothing;
* `RecoversInRing`: `send_data_recovered` sends from the block it recovered.

A block that left the ring never comes back, because `rbuf_get_block` gives out
only numbers beyond `last_block`.

`NothingSkipped` (`SkipInv`): the only block that is skipped through is the one
at the front while the purge is at it, and that one is freed.  `BlockReturned`
(`AskedInv`) needs that `new_blocks` is not zero.  The attempt to prove it of all
frames failed for a reason: a header that is a multiple of 2^32 blocks ahead has
`(int)(block_idx - last_block) = 0`, nothing is allocated and the slot of another
block is returned.  The property now names that case, `Aliased`, and shows that it
takes a frame of another key.  `RebuiltInTime` (`FecInv`): with FEC on throughout,
`fragment_used` of a block never passes `fec_k`, and reaches it only in the block
the handler is at, so that the exact test `fragment_used == fec_k` is never
missed.

The theorems for `MaxGap = 1` rest on `InOrderInv`:

* `WindowInOrder`: `ring_alloc` slots are in use, contiguous from the front, with
  rising block numbers.  A frame that is not
  authentic may move the window any number of blocks; until its session is given
  up (`Moved`) the order is not claimed;
* `Alive`: but even then the loops that allocate and free meet a slot in use or a
  count of one, and so end;
* `SentInOrder`: nothing newer than a block of the ring was delivered;
* `AtWork`: where the handler is with respect to the front: after the purge the
  block it works on is the front.

From it follow `OldForgotten`, `LoopsEnd` (neither a free nor a search hangs;
`HandlerReturns` with fairness stays with TLC), and `DeliveryImplemented`: each
step is a step of `Delivery`, a new session or a stutter, the refinement mapping
being the stream `out` itself.  `NewestAuthentic` adds `NewestSeen`: the newest block
has a fragment in the ring or in the stream, except between the allocation for a
frame and the verdict on it.

`ReceiverProofs!SearchComputed` and `FreeComputed` state `SearchAgrees` and
`FreeAgrees` of `LoopsSpec`, the specification of `RingLoops`: where a loop ends,
its result is the closed form that `Receiver` uses.  `LoopInv` says that the search has not met the block in its turns so far
(`SearchedTurns`), and that after some number of turns below `Turns(ring_alloc)`
the freeing loop has met as many empty slots (`FreeTurns`).  A turn beyond the
first lap is at a slot that was passed before (`TurnsOfALap`).

### Pid file

`PidFileProofs` proves `OwnerNamed`, `WholePidRead`, `PidTypes` and
`RefusedForCause`.  That a file names its
owner is not inductive: it depends on what a starting listener may still do to
the file it has open.  `PidInv` adds

* `Holds`: which lock a listener has follows from where it is;
* `ExclusiveAlone`: an exclusive lock has no other lock beside it on that inode;
* `Owned`: a listener that has a file is alive and its pid is in it;
* `Unowned`: once a listener has read that nobody is there, the file is nobody's
  until it writes it itself.  This is the heart: between the read under the shared
  lock and the exclusive lock another listener can only own the file by locking it
  exclusively, which the shared lock prevents, and the upgrade of the lock is
  refused when another holds one.

`PidTypes` adds the remaining variables; with it, `-K` signals only a pid that it
has read.  `RefusedForCause` uses `Alone`: while a listener that starts has met no other
process there is none, neither a listener nor a `-K` nor a program with a pid of one.  The only assumption
is `PidFileAssumption`; the numbers of listeners,
of `-K` and of inodes are arbitrary.

### Event loop

`NetCoreProofs` proves `OwnEvent`, `RxRetried` and `BaseFreedLast` from `NetInv`:

* `Apart`: a descriptor has one owner, among them the leaked ones and the control
  socket, and an event is on its owner's descriptor.  It is kept because the kernel
  gives out free ones only, and a descriptor is closed together with its event;
* `ThreadPhase`, `Taken`: where `_main` is tells whether the netcore thread may
  run and what has been taken down: everything but the control socket and its
  event, which `BaseFreedLast` therefore names as the one left on the base;
* `Retried`: `netinet_rx_initialize` is the last to add a hook, so that its hook is
  the first of every pass: a receiver without a socket has its hook still to run,
  or `error` set, or `reload` set between two passes.

### Control socket

`IpcProofs!ServiceImplemented`: `Ipc` implements `IpcService`.  The moment at
which a request is carried out is `ipc_rx` handling it; all steps of clients but
returning and giving up are stutters.  `IpcInv` says that a client unheard of has
no answer (`Unknown`), that a client is in the queue once and not yet served
(`Queue`, `InHand`), that what it can read is the answer its request was given
(`Replies`) and that `ipc_success` is the number of requests carried out
(`Counted`).  The set of clients may be infinite: only those answered are counted.
A failing `accept` is a stutter of the service: it changes only `ipc_error`.

### Player

`GstPlayerProofs` proves `PipelineFreedLast` and `FirstStreamPlayed` from
`PlayerInv`: a write is under way only while the owner sends, an error is handled
only after `closing` is set (`Threads`), and in the first stream the end of stream
is on the bus or detected only when all that was pushed was played (`FirstEnd`).
`Unopened` keeps the failed start apart: with a dangling pipeline the context is not
initialized, so that nothing but the owner reads the pointer.

### Mirror

`MirrorProofs` proves `FramesMirrored`, `NoWrappedFrame` and `CountersRight` from
`MirrorInv`: what was handed to `rx_wfb` is exactly what the datagrams of the group
contain, at the host that captured and at those it reached (`Explained`,
`Complete`), datagrams are distinct (`Numbered`), and each such frame was counted
(`Tally`).  `MetaRoundTrip` is the lemma that frequency and signed signal
strength survive their conversion to network order and back; `StrayRefused`
that a datagram shorter than the mirror's header, whose length wraps, is refused.
`MirrorAssumption` bounds what the radio delivers: sizes are `size_t`, signal
strengths an `int8_t`, and a `size_t` is wider than the largest frame.

### Log

`LogProofs!RecordsWhole` uses `LogInv`: every log is well formed but for its end,
and the log being written ends in a header without its data exactly while the
second `fwrite` of `rx_log` is due (`Midway`).  `OldLogsSafe` is an action property
and needs no hypothesis: with finitely many files there are, by the pigeonhole
principle, free names from any number on, and `fixup_filename`, which counts up,
ends at one (`FreshName`).

### Log analyser

`LogProofs` proves `StoreIntact`, `FilterForgets`, `MedianShown` and `FilterIsExact`
with no hypothesis on who writes the logs: a log is any sequence of chunks
(`ChunkInv`), so also one cut off, shared by sessions or mixed up by two threads.
`AllLoaded`, `ReplayOrdered` and `CorruptionReal` compare the store with what a
listener logged, and are about logs of the network thread alone, of frames from
mirrors.
All are about what a loop computes from any input, and the prover has no
induction.  `load_log`'s loop is therefore written as a function of the position in
the log (`Loaded`), of which `LoadedBy` shows that it exists, and what every turn
keeps is proved by looking at the first turn that would not (`LeastNat`,
`LogLoaded`).  The first four theorems rest on these:

* `Sound` is kept by every turn: each of the three lists is the index of the records
  with such a key (`Indexes`: keys ascend, a record is in the list of its key, no
  list is empty), and what has a size has its data.  It is stronger than `StoreOK`:
  that no list is empty makes `log_update_kv`'s `assert(block_kv)` hold, and that
  every record has a list makes `mark_inet6` and `mark_h265` count where they
  should.  `KvAtFound` says where the search from the tail stops, `KvAdded` that
  an insertion there leaves an index;
* `ShellInv`: the store is that of its log but for marks and counters
  (`SameStore`), and after a filter it is what the filter makes of the log.
  `FilterAlike` is the reason: `log_filter_reset` makes the records equal again
  (`ResetAlike`), and `log_update_kv` reads records, keys and lists, but no counter
  that it has not set itself (`UpdateAlike`);
* the median: the loop's cumulative count at an index is the number of frames up to
  it (`CumulativeCounts`), the loop stops at the least index, from 1 on, that passes
  half of the frames (`MedianFound`), and those below it are at most half
  (`MedianMiddle`); what lies at index 0 counts toward index 1;
* the filter: the first pass marks the weak frames and no other (`Weakened`).  The
  records left in a list, which `log_update_kv` counts, are those heard above the
  cut-off with the list's key (`LeftCounted`, `AlikeCounted`, `BlockCounted`), and
  its verdict falls on the last decoded frame of a list (`LastJudged`);
  `DroppedExact` puts them together.  Records are counted, not fragments, so that
  nothing need be known of mirrors, duplicates or sessions.

The other three rest on `Logging`, which adds to the above and to `LogInv`

* `RecordInv`: what a listener leaves in a log (`Recorded`): every record is of a
  known type, data follow their own header, the file header has the `fec_k` of the
  log's first session, and the decoded frames are those delivered with a payload;
  in a log of one session each is in its place and there once.  Nothing is said of
  how often a fragment was heard;
* `SourceInv`: the log loaded is that of a listener that is gone, and unless a
  filter was applied the store is what `load_log` made of it.  The filter's cut-off
  tells which, so that `CutOffAssumption` keeps the value that stands for none out
  of the cut-offs; `RxLogAssumption` has no mirror named like the capture.

From there:

* `AllLoaded`: `Tallied` and `Traces` are carried along with the turns (`Turn`,
  `LogTraced`): the counters are the sizes of sets of records, and the records of
  the store and the headers of the log correspond one to one, in order.  A
  correspondence preserves counts (`SameCount`), so that what was counted is what
  was logged (`FramesLoaded`, `BodiesLoaded`);
* `CorruptionReal`: a block that `mark_h265` leaves marked has fewer decoded frames
  than the file header's `fec_k`, so that not all of as many data fragments of a
  session are among them (`FragmentMissing`);
* `ReplayOrdered`: `FlattenedBy` and `SentBy` show that the two walks exist as
  functions of the position.  The walk over the lists has every record once, in the
  order of keys and, for equal keys, in that of reading (`Ranked`, `WalkRanked`),
  and its part that is sent inherits that (`PlayRanked`).  In a log of one session a
  key names one fragment (`KeyInjective`), which is decoded once (`DecodedOnce`), so
  that the order of keys is strict.

### Model-checked only

Every invariant that a passing run checks is stated by a theorem, and so are the
action properties and the refinements.  Liveness stays with TLC, as TLAPS does not
do fairness: `HandlerReturns`, `HupServed`, `StopsWhenTold`, `RxComesBack`,
`ClientReturns`, `ExitObeyed`, `ExitCompletes`.

`MinNat` (least elements) rests on the library's well-founded relation on the
naturals.

## Plan

Link: transmitter, two mirrors and a lossy, duplicating, reordering network
composed with `Receiver`; the session is regained after it was given up.

## Not modelled

* libsodium, zfec, libevent, GStreamer and libpcap themselves: external, taken
  from how they are used.
* Building the GStreamer pipeline and drawing the overlay (`wfb_gst.c` 309-671,
  `wfb_gst_overlay.c`): calls without decisions of the program's own.
* Options, environment and usage (`main.c`, `log_analysis.c`), the parsing of
  shell commands, and the layout of CSV, JSON, histogram and messages.
* The memory of the analyser's lists (`free_log`): the store is a value here.
* Failures of `fopen` and `fwrite` in `rx_log.c`, and whether a session key is there
  when a frame is logged: `RxLog` has a session from the first log on, and allows
  every frame at any time.
* The transmit contexts of the parsers, which no program uses, and
  `decode_h265.c`, which is not compiled.
