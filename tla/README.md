# opendisplay-windows: a verification project

TLA+ models of the Windows receiver (`src/`), the TLC configurations that check
them and TLAPS proofs: the ownership of a connection, the queue and the threads
around it, the keyframe logic, the window, what two threads tell a sender, the
clocks, and what framing, the Annex-B parser and the control parser make of
every stream. Paths below are relative to `src/`.

1. [The system](#1-the-system)
2. [Modules and how they correspond to the code](#2-modules-and-how-they-correspond-to-the-code)
3. [What each run checks](#3-what-each-run-checks)
4. [Bounds](#4-bounds)
5. [Fairness](#5-fairness)
6. [What is proved](#6-what-is-proved)
7. [Where the code differs from what it says](#7-where-the-code-differs-from-what-it-says)
8. [What is not modelled](#8-what-is-not-modelled)
9. [Plan](#9-plan)
10. [Running it](#10-running-it)

## 1. The system

The receiver advertises itself with mDNS, listens on TCP, and shows in a window
the H.264 stream a sender (a Mac) sends it. It answers with input events,
keyframe requests, pings, statistics and `hello` messages that announce the size
it wants. A new connection replaces the old one.

Five kinds of threads share one `App` object (`app/main.cpp`):

| Thread | Runs | Shares |
|---|---|---|
| main | `WndProcHandle`, `App::Run`, `TearDown` | `session`, `endedSession` under `sessionMutex`; `latestFrame` under its own mutex; atomics for the adaptive hello |
| listener | `TcpListener`'s accept loop, `App::OnAccept` | the same, and it calls `Close` and `SendHello` on sessions |
| one read thread per `Session` | `Session::ReadLoop`, `onControl`, `onVideo`, `onClosed` | its `Session` through a `weak_ptr`, `sessionMutex`, the video queue |
| decode | `VideoQueue::PopWait`, `H264Decoder::Submit` | the queue, `latestFrame`, `sessionMutex` for keyframe requests |
| mDNS responder | `MdnsAdvertiser`'s loop | its socket and a flag |

### Components, their state, and what makes them correct

| Component | State | Operations | Correct when | Hard because |
|---|---|---|---|---|
| session ownership (`app/main.cpp`, `net/session.cpp`) | `session`, `endedSession`, `sessionMutex`; `closed_`, `sendMutex_`; shared_ptrs in locals and callbacks | `OnAccept`, `onControl`, `onClosed`, `ReapEndedSession`, `MaybeSendResizeHello`, `SendTouch`, `WM_CLOSE`, `TearDown`, `~Session`, `SendControl` | nobody uses a destroyed `Session`; no thread joins a read thread while holding the mutex it needs; one session receives at a time; ended sessions are destroyed; every connection gets `hello` | four kinds of threads, raw pointers, a destructor that joins, a `send` that may block under a lock |
| TCP listener (`net/tcp_listener.cpp`) | `running_`, listening socket | `Start`, accept loop, `Stop` | `Stop` ends the thread | an accept in progress during `Stop` |
| read loop (`net/session.cpp`) | buffers, liveness and ping clocks | `ReadLoop` | every frame handled once, in order; a silent sender is dropped | verdict and frames of `Feed` come together; time |
| frame decoder (`protocol/framing.cpp`) | `buffer_`, `size_`, `cursor_` | `Feed`, `Reset`, `EncodeFrame` | payloads delivered are payloads framed, whatever the chunks | growth, compaction, spans into a buffer that moves |
| demultiplexer (`protocol/demux.cpp`) | none | `IsControlJson` | video is never taken for control | a size limit and one byte decide |
| Annex-B parser (`protocol/annexb.cpp`) | none | `ParseAnnexB`, `IsKeyframe`, `SliceType` | the decoder gets every slice in order behind its parameter sets | start codes, zero bytes, unit order |
| control messages (`protocol/control.cpp`) | none | build JSON text, scan it for keys | a field read is the one the sender wrote | a scanner that does not parse: keys inside strings, escapes |
| SPS parser (`protocol/sps.cpp`) | a bit reader | `ParseSps` | the size is that of the stream | Exp-Golomb codes, cropping |
| video queue (`app/video_queue.h`) | `queue_`, `shutdown_` | `Push`, `PopWait`, `Shutdown` | bounded, drops the oldest, wakes its consumer | full and empty at once with shutdown |
| decoder (`video/h264_decoder.cpp`) | `mftReady_`, `lastSps_`, request limiter, pending timestamps | `Submit`, `SetupMft`, `ResetMft`, `Drain` | started by a keyframe, built for the stream, restarted after failures | every step may fail; the stream changes under it |
| keyframe recovery (`app/main.cpp`, decoder) | `lastKfSendMs_`, `lastKfRequestMs` | `MaybeRequestKeyframe`, `RequestKeyframe` | a broken picture is repaired | two limiters, answers that overtake drops |
| presentation (`app/main.cpp`, `render/renderer.cpp`) | `latestFrame`, `lastPresentedFrame`, `redrawNeeded`, D3D objects | decode callback, `Run`, `Resize`, `Present` | the latest frame reaches the screen at the window's size | publication during drawing; partial failures |
| pointer input (`app/main.cpp`) | `mouseDown`, `lastTouch` | mouse messages, `SendTouch` | no sender is left with a pressed button; a drag ends at the pointer | replacement and lost capture in the middle of a drag |
| adaptive hello (`app/main.cpp`, `app/config.cpp`) | `lastHelloWidth/Height`, `resizeAtMs`, `lastAdaptiveHelloAtMs` | `WM_SIZE`, `MaybeSendResizeHello`, `OnAccept` | the sender learns the final size | two threads send and store without a lock |
| statistics (`app/main.cpp`) | counters, round-trip time | `SendStats`, pong | differences of one session | counters of two sessions |
| mDNS (`net/mdns_advertise.cpp`) | socket, flag | `Start`, responder, self test, `Stop` | answers queries, not its own answers; stops | multicast loops back; a receive without timeout |
| configuration (`app/config.cpp`) | settings | `LoadConfig`, `AdaptiveDisplaySize` | sizes an encoder takes | numeric edges |
| hello id (`app/main.cpp`) | two files, the older version's and its own | read, take over or create | the same id after every start | interruption while writing; two starts at once |
| set-up and tear-down (`app/main.cpp`) | flags, threads | `Setup`, `Run`, `TearDown` | nothing is left when the program has ended | each join waits for a thread that may wait for something else; it may run twice |
| logging, test tools | – | – | – | – |

How they interact: the listener makes a `Session` and publishes it; its read
thread calls back into `App` (control, video, closed); `onVideo` pushes into the
queue the decode thread empties; the decode thread publishes a frame and posts a
message; the main thread draws it and sends input on whatever session is
published; the read thread's end is only noted (`endedSession`), and the main
loop lets the session go, because its destructor joins the read thread.

The hazards listed in `PROJECT.json` name the lines where these things bite.

## 2. Modules and how they correspond to the code

| Module | Code | Extends |
|---|---|---|
| `SessionLifecycle` | `app/main.cpp` (ownership), `net/session.cpp`, `net/tcp_listener.cpp` | – |
| `OneSender` | what the receiver promises its senders, without threads, locks or objects | – |
| `VideoQueue` | `app/video_queue.h`: mutex, condition variable, shutdown | – |
| `LossyBuffer` | what the queue promises, without locks or storage | – |
| `MdnsAdvertiser` | `net/mdns_advertise.cpp`: `Start`, self test, responder, `Stop` | – |
| `AppLifecycle` | `Setup`, `Run`'s end, `TearDown`'s joins, the decode, listener and mDNS threads, the read threads as far as they push samples | `VideoQueue`, `MdnsAdvertiser` |
| `VideoPipeline` | `onVideo`, `MaybeRequestKeyframe`, `video/h264_decoder.cpp` | – |
| `CaptureTimes` | the FIFO of times in `video/h264_decoder.cpp` | – |
| `MainWindow` | mouse messages, `SendTouch`, drawing in `app/main.cpp`; `render/renderer.cpp` | – |
| `AdaptiveHello` | `AdaptiveDisplaySize`, first hello, `WM_SIZE`, `MaybeSendResizeHello` | – |
| `SessionClocks` | liveness and ping clocks of `Session::ReadLoop` | – |
| `HelloId` | `MakeStableHelloId` in `app/main.cpp` | – |
| `FrameDecoder` | `protocol/framing.{h,cpp}`, its use in `net/session.cpp` | – |
| `AnnexB` | `protocol/demux.cpp`, `protocol/annexb.cpp`, the treatment of a frame in `net/session.cpp` | – |
| `ControlMessages` | `protocol/control.cpp`: finding and reading values | – |
| `SpsEncoder` | what an encoder puts into a parameter set (external) | – |
| `SpsParser` | `protocol/sps.cpp` | `SpsEncoder` |
| `*Proofs` | theorems: about the module they are named after; `AppLifecycleProofs` also covers `VideoQueue`, `ProtocolProofs` is about `FrameDecoder`, `AnnexB` and `ControlMessages`, `ComponentProofs` about `HelloId`, `SessionClocks`, `MdnsAdvertiser`, `CaptureTimes` and `AdaptiveHello`, `SpsProofs` about `SpsParser` | those modules, `TLAPS` |
| `SharedLemmas` | induction over numbers, joined sequences | extended by `ProtocolProofs` and `SpsProofs` |
| `MC*` | instances for TLC | the module they are named after |
| `MCComponents` | nine modules without shared state, each with its instance | `FrameDecoder`, `AnnexB`, `ControlMessages`, `CaptureTimes`, `SessionClocks`, `MdnsAdvertiser`, `HelloId`, `SpsParser`, `VideoPipeline` |
| `MCReceiver` | three more | `AppLifecycle`, `MainWindow`, `AdaptiveHello` |

Every module declares its parameters as `CONSTANTS`, one action per operation or
per step between two points another thread can see, and keeps properties apart at
its end. Definitions headed `Mutant:` are wrong variants of the definition below
them, each the smallest plausible mistake in that code; a property is kept only
if some such mistake violates it.

**SessionLifecycle.** A connection `c` stands for its socket, the `Session`
object made for it and that object's read thread. `phase[c]` is the object's
life, `addr[c]` where it was allocated. A `shared_ptr` is a variable that names
a connection: `session`, OnAccept's `s` and `replaced` (`lNew`, `lReplaced`),
the main thread's local (`mRef`) and the pointer a callback locks from its
`weak_ptr` (`rRef`). `Held(c)` is "the reference count is not zero"; every
action that lets a reference go contains `Release`, which starts `~Session` on
that very thread if it was the last one. `~Session` is `closed_ = true` and then
waiting (`joining[t]`) for the read thread (`JoinDone`); a read thread that joins
itself ends the program (`Terminated`), as `std::thread::join` throws out of a
destructor. Every blocking call is a place of its own: `SendBegin` waits for
`sendMutex_`, `SendOk` for the peer. Locks are variables that hold their owner.
What is abstracted: message contents (only whether `hello` went out), socket
errors (one `SendFail`, one `LoseConnection`), and pacing, so pings and requests
may be sent at any time. **OneSender** is the abstract specification: connections
come one at a time, each is waiting, then served at most once, then over, and one is
served only when nobody else is. `door` is the receiver's own state: once it is
leaving, the session that was served then may still be closed after another one has
begun, as `TearDown` takes the session before it stops the listener
(`app/main.cpp:856-862`). The mapping is in `SessionLifecycleProofs`: a connection
waits from its acceptance to `Start`, and is served while its read thread runs on an
open socket.

**VideoQueue** has one action per critical section of `video_queue.h`. `waiter`
is where the decode thread is in `PopWait`: in `wait_for` without the mutex,
notified or timed out and about to take the mutex again, or back with a result.
`Shutdown` sets its flag under the mutex and notifies afterwards, so it is two
actions with `unnotified` between them. **LossyBuffer** is the abstract
specification: samples are numbered as they are put, the buffer holds the latest
`N` of them, and they are handed out in order, each at most once. The mapping is
`put <- pushed`, `gone <- pushed - Len(queue)`, `taken <- popped`.

**AppLifecycle** composes the queue and the responder with the threads around
them. `main` is the main thread's place in `Setup`, `Run` and `TearDown`, one
place per join or flag. `SetupFails` is a failure before anything is started;
`ListenFails` tears down inside `Setup` and again in `main` (`again`). What a
join waits for is its guard. It says nothing about sessions: who holds a
`Session`, who runs its destructor and who waits for `sessionMutex` is the matter
of `SessionLifecycle`. The steps that depend on it (`DropSession` of `TearDown`,
`StartSession` and `AcceptReturns` of the listener, `Submit` with its keyframe
request) happen here at any time or never, which covers whatever they wait for.
`Advertise` may stay in the self test: `StartOpens` enters its `recvfrom`,
`SelfTest` or `SelfTestError` ends it.

**MdnsAdvertiser.** A packet is what `ThreadMain` tells apart. The buffer of the
socket is bounded and what it sends may come back (`loops`); a socket that could
not be bound receives nothing. `responder` is the thread's place; stopping is
noticed where the code looks at `running_`.

**VideoPipeline.** A frame is its connection, whether it is an IDR, its
parameter sets and whether a reference of it was lost. `chain` is the decoder's
reference chain, the thing the user sees. `dropLimited` and `decLimited` are the
two 500 ms windows. Between `Push` and the request lie three visible steps
(`asking`): `lastKfSendMs_` is read, written, and the request sent, with no lock
around them, by the read threads of two sessions at once.

**CaptureTimes.** Access units are numbers; `held` is what the MFT works on and
may swallow, `captureTimes` the FIFO beside it. `drifted` remembers that since
the MFT was built some unit came out without its frame, `lost` how many did since
the FIFO was last emptied.

**MainWindow.** Input and drawing belong together because they share the
letterbox rectangle: input is mapped with the size of the last video uploaded
and the window size, both changed by drawing. Positions are pixels of one
dimension. Each D3D call that can fail has its own outcome, since they leave
different things behind. `clean` names sessions installed with no drag going on
and a rectangle known; the others may see a drag that began elsewhere.

**AdaptiveHello.** Sizes are real pairs through `AdaptiveDisplaySize`. Taking
the size, comparing each dimension, sending and storing each dimension are
separate steps of two threads, and nothing is assumed about how long they take.
`resizeAt` and `recent` are the 500 ms and the 20 s. `crossed` is a history
variable, no state of the program: the main thread has compared a size while
OnAccept was between taking another one and storing it, and neither thread has
since sent a hello undisturbed by the other.

**SessionClocks.** One tick is `recv`'s timeout. The clocks are what the code
computes, `now - lastDataMs_` and `now - lastPingMs_`; `silence` and `gap` are
the sender's own, which the code cannot see. Callbacks and `SendPing` take up to
`MaxHold` ticks, in which bytes arrive unread.

**HelloId.** Processes, not threads: `Starts` run `MakeStableHelloId` on two
files, may overlap, may be killed between any two steps (`End`) and may fail to
write. `unstored` and `overlapped` record that one of the two happened.

**FrameDecoder** keeps the bytes: `buffer` has the allocated length with stale
bytes behind `size`, `Scan` is the extraction loop as a recursive function,
`Compact` is `memmove`, `View` the span built after it. One action is one round
of the read loop: `extracted` is what `Feed` has returned, `delivered` how much of
it the session has handled. The assumption on `kMaxFrameSize` is that it and one more fit
the header's 32 bits (the code has 16 MiB).

**AnnexB**, **ControlMessages** and **SpsParser** are pure algorithms. Each is
run on what a sender composes, and its reference definition is what the sender
composed: NAL units behind a prefix; members of a JSON object as a sequence of
quotes, marks, words and numbers; the fields of a parameter set written by the
standard's syntax. In `AnnexB` every loop is a recursive function of how far it
has come (`Serialized`, `Found`, `Selected`), and what was composed (`Sent`) is
defined without a loop, by rank. A NAL unit holds no start code: an encoder
escapes the bytes that would look like one, and the receiver relies on it
(`PayloadAssumption`). A prefix is text, so it holds no NUL. In `ControlMessages` a
text is a sequence of atoms; `Joined` puts the members behind one another, and the
searches (`find`, the loop over blanks) are `First` of the places that fit. `IntPart`
is what the conversion to `int` makes of a number, `kIntLimit` the 1e9 from which
on `FindInt` refuses it; `IntKeys`, `NumberKeys` and `StringKeys` say which of the
three searches reads a key. `SpsParser` reads a group of syntax elements per step; `pos`
is the bit reader's, or -1 once it has thrown. What arrives is written by
`SpsEncoder`, one operator for what lies from each group on, and may be cut short;
`WellFormed` says what an encoder may write. Halving stands for shifts: `Half(v)[k]`
is `v >> k`.

**MCComponents** and **MCReceiver.** Components that share no variable are put
beside each other; `part` is chosen in the initial state and only that part moves.
They do not interact in the code either (where they do, the interaction is in the
module: the queue in `VideoPipeline` and in `AppLifecycle`, the rectangle in
`MainWindow`), so nothing is lost by not interleaving them, and one run asks of
each the questions it needs. Fairness is that of the part that runs.

## 3. What each run checks

| Run | Question | Answer |
|---|---|---|
| `session_threads` | Are ownership, locks, replacement and tear-down safe with all traffic and the window closed at any moment? | Yes: `Ownership`, `NoUseAfterFree`, `NoJoinUnderSessionMutex`, `OneReceiver`, `HelloSentOrClosed`, `ReapNeedsEnd`, `ExitLeavesOnlyCallbacks`, with `TypeOK`; and no state is stuck (deadlock is checked) |
| `session_live` | A sender may stop reading while input, a keyframe request or `SendClosing` is in `send()` with `sessionMutex` held: are ended sessions destroyed, does a new connection become the session, does closing the window end the program? | Yes, if senders that stop reading resume (`EndedIsDestroyed`, `NewConnectionWinsIfRead`, `ShutdownCompletes`) |
| `components` | The questions in the next table, one component each | Yes |
| `receiver` | Those in the table after it | Yes |
| `session_hello_first` | Is `hello` the first message on every connection? | No (section 7) |
| `session_aba` | Does the reaper take only sessions whose loop ended? | No (section 7) |
| `session_self_join` | Does `~Session` never run on its own read thread? | No (section 7) |
| `frame_intact` | Are the bytes handed out the bytes sent? | No (section 7) |
| `frames_lost` | Are the frames in front of a corrupt length handled? | No (section 7) |
| `video_recovers` | Does every drop lead to a repaired picture? | No (section 7) |
| `resize_lost` | Does the sender learn the size of a window that stays? | Not always (section 7) |
| `mdns_self_test` | Does the advertiser get round to its announcements where it cannot receive? | No (section 7) |

`components` asks:

| Part | Properties | Say |
|---|---|---|
| `FrameDecoder` | `DeliveredInOrder`, `LastFeedIntact` | position, order, count, verdict: every complete frame is extracted, also in front of a corrupt length; compaction damages only frames that leftover bytes follow |
| `AnnexB` | `NeverMisrouted`, `SlicesReachDecoder`, `KeyframeIsIdr` | control and video are told apart, the decoder gets what was sent, an IDR with its SPS starts it and nothing else does but a disposable slice behind an SPS |
| `ControlMessages` | `FieldsAreSenders` | scanning is as good as parsing, up to the first quote in a string and the range of an int, unless a string in front of a field holds that field's key in quotes |
| `SpsParser` | `SizeIsEncoders` | the size is the encoder's; a set cut short gives this size or none |
| `VideoPipeline` | `StartedByKeyframe`, `BuiltForStream`, `BreakIsAnswered`, `DecoderRestarts`, `PictureRecoversIfAsked` | over replacement, size changes, drops and failures the decoder is started by a keyframe, built for its stream and restarted; a break has an answer under way, and the picture recovers, except where the limiter suppressed the request or frames of a replaced connection broke the picture |
| `CaptureTimes` | `PairedWithinLimit` | a frame has its own times until a unit is swallowed; times older than the limit come with the frame at which the FIFO is emptied, and only after more lost units than the limit |
| `SessionClocks` | `DroppedForSilence`, `ClocksAreKept` | a sender is dropped only for its silence and the thread's own delay; a dead one is noticed in time and a live one pinged |
| `MdnsAdvertiser` | `NoStorm` | no announcement answers an announcement |
| `HelloId` | `OneIdentity` | one id for ever, unless it could not be stored or two starts overlapped |

`receiver` asks:

| Part | Properties | Say |
|---|---|---|
| `AppLifecycle` | `WakeupPending`, `IsLossyBuffer`, `AllJoined` | no wakeup of the decode thread is lost and the queue is a lossy buffer (a refinement, with its liveness), without the help of `PopWait`'s 200 ms; the decoder is shut down, and `App` goes, only when the threads that use them have ended, also after a failed or partial set-up |
| `MainWindow` | `ReleaseIsSent`, `CleanSessionsSeeWholeDrags`, `EndsAtPointer`, `ScreenCurrent`, `InputMapsToScreen`, `FrameReachesScreen` | drags, screen and mapping, with a frame published or a session replaced at any point |
| `AdaptiveHello` | `LastHelloIsKnown`, `SenderKnowsSize`, `SizeReachesUncrossed` | the receiver knows what it announced, no resize is forgotten and the sender learns the final size, unless the two threads crossed; no sender ever gets a size its encoder refuses |

Some properties deserve a remark. `ReapNeedsEnd` is what holds in place of the
comment at `app/main.cpp:151`: the reaper takes a session whose loop has ended,
or one at the address of a destroyed session. `ExitLeavesOnlyCallbacks` is what
holds in place of "everything is destroyed when main returns": a session whose
read thread is inside a callback keeps itself alive beyond `~App`.
`PairedWithinLimit` is what holds in place of the comment at
`video/h264_decoder.cpp:164`, `KeyframeIsIdr` what holds in place of those at
`protocol/annexb.cpp:115` and `protocol/annexb.h:48`: see section 7.
`CleanSessionsSeeWholeDrags` promises nothing to a session that is installed during
a drag or before a picture is known, as the code does nothing for it.

## 4. Bounds

* **SessionLifecycle**: two connections for the full set of activities, as every
  interaction modelled is between a session and its successor; three for the
  reuse of an address, which needs an owner, a successor made while it exists
  and a third made after it is gone. Two (three) addresses: as many as can be in
  use. With activities switched off (`Activity`) the runs that ask about one
  mechanism leave out the others. Beyond the bounds the proofs of section 6 hold
  for any number of connections and addresses.
  In `session_live` the first connection starts installed, and its sender may stop
  reading and resume whenever something is sent.
* **AppLifecycle**: one connection, which pushes all the samples, as the queue does
  not know who pushes; the code's capacity of two, three samples, so that the queue
  overflows and is emptied again. The responder needs no packets here: what matters
  is that it stops.
* **VideoPipeline**: the code's queue of two (a full one has a head, which is
  dropped, and a rest), two parameter sets, two connections, one failure, in three
  parts: two connections of one size (`video`), one connection whose size changes
  (`resize`), two connections of different sizes with a decoder that is fast enough
  (`replace`). What is left out is a size change, or a second size, together with
  drops of two read threads: sizes decide about rebuilding the MFT, drops about
  requests, and no step looks at both. `video_recovers` needs one connection only.
* **MainWindow**: two sizes, two sessions, one failing call, one pointer position in
  the picture and one to the right of it, which is clamped; in two parts. In `mouse`
  sessions come and go over one picture, in `pictures` two frames, resizes and
  failures meet a mouse that stays where it is. The mouse handlers look at the
  pictures only through `RectKnown`, and drawing never looks at the mouse.
* **AdaptiveHello**: two connections; client areas that are minimized, the configured
  one, one that shares its height and is wider than an encoder takes, and one that
  is odd and different in both dimensions.
* **FrameDecoder**: up to three frames with lengths 0, 1 and 3, limit 6, one
  length over it; every chunking. Three frames in one chunk followed by a
  partial header, body or nothing, growth by doubling and by need, all happen.
* **AnnexB**: up to three NAL units out of two SPS, PPS, SEI, delimiter, IDR,
  reference and disposable slices, empty and zero-containing units; prefixes
  beginning with and without `{`; the sniff limit is reduced to 12 so that
  payloads lie on both sides of it.
* **ControlMessages**: all messages of up to three members out of more than twenty
  (types known and unknown, known keys with right and wrong kinds of values, a
  fraction and a billion where an int is expected, keys that contain other keys,
  strings of punctuation, strings that are or hold a key, escaped quotes, a string
  that imitates a key in quotes).
* **SpsParser**: baseline and high profile, every chroma format, scaling lists
  absent, default and sent, each picture order count type, with and without
  cropping (also to nothing), field and frame coding; whole and one, two or five
  bytes short. The offsets are such that an emulation prevention byte occurs.
* **SessionClocks**: intervals of 2 and 8 ticks of `recv`'s timeout, where the code
  has 8 and 20 (2 s and 5 s of 250 ms), and delays of up to 2: several timeouts
  in an interval, several pings before the drop. No counter is capped: the properties bound them.
* **CaptureTimes**: the limit is 2 instead of 64, the MFT holds three, seven units:
  enough to exceed the limit by swallowing and to go on after it.
* **MdnsAdvertiser**: two packets in the buffer, three from others, two periods:
  a storm would need one packet.
* **HelloId**: three starts and as many ids: one interrupted, one overlapping, one
  that reads what they left.

## 5. Fairness

Fairness is given to threads that run, never to people or peers: nobody has to
connect, send, disconnect, resize or click.

* `SessionLifecycle.FairSpec`: each thread takes the steps it is in the middle
  of. Steps that lock have strong fairness: another thread may take the mutex
  again and again, but `std::mutex` on Windows (an SRW lock) does not starve a
  waiter for ever. `ReapEndedSession` is called in each round of `App::Run`,
  which wakes at least every 100 ms. A blocked `send` returns only if its peer
  reads again, so the properties assume `PeersKeepReading` or the socket's end.
  `Once` collects the steps that lock and that a run can take only finitely often:
  strong fairness of their disjunction amounts to strong fairness of each, and is
  checked in a fraction of the time.
* `AppLifecycle.Fairness`: set-up, the joins of tear-down, decode and responder
  thread run, and `Submit` returns. The last is a premise: its keyframe request is
  a `send`, so a sender that does not read may hold it up (`session_live` has that
  case). Deliberately without fairness: the timeout of `PopWait` (a lost wakeup
  would otherwise be hidden by it), spurious wakeups, an error of the self test's
  `recvfrom`, whatever waits for `sessionMutex` (`DropSession`, `StartSession`,
  `AcceptReturns`), new connections and samples.
* `VideoPipeline.Fairness`, in `FairSpec` and in `components`: a sender goes on
  streaming and answers a `kf` with an IDR (`docs/RESEARCH.md:63-64`); a read
  thread in the middle of a request goes on; the decode thread runs; the
  decoder's 500 ms pass. Nothing forces the window after a drop to end. The
  premise `KeepsUp` says that in the end the queue is not full any more.
* `MainWindow.WindowFairness`: the message loop returns to drawing between bursts of
  messages (strong, since a message may come first), finishes a handler and a
  drawing.
* `AdaptiveHello.SizesFairness`: both threads run and time passes.

The other modules state safety only; `SessionClocks` bounds when things happen.

## 6. What is proved

TLAPS proves the following for every value of the constants: any number of
connections, addresses, samples, sessions, frames, failures, starts, packets, NAL
units, members of a message, any sizes, timeouts and delays, and any queue capacity.
The assumptions are the named ones of each module: distinctness of threads, connections and `None`; a
capacity of at least one; numbers are numbers; a configured size an encoder takes;
a frame size that fits 32 bits; NAL units without start codes in them; keys that are
no quote and numbers that are no mark; parameter sets an encoder may write.

| Module | Theorem | States | Rests on |
|---|---|---|---|
| `SessionLifecycleProofs` | `TypeCorrect` | `Spec => []TypeOK` | one lemma per thread |
| | `OwnershipCorrect` | `Spec => []Ownership` | `TypeOK` |
| | `NoUseAfterFreeCorrect` | no `SendControl` on a destroyed `Session`, no read thread beyond its `Session` | `Ownership` |
| | `NoJoinUnderSessionMutexCorrect` | listener, main and decode threads never join with `sessionMutex` held | `Ownership` |
| | `ReapNeedsEndCorrect` | what the reaper takes has ended or lies at a reused address | `Ownership`, `Marks` |
| | `OneReceiverCorrect` | one session receives at a time, but for the one TearDown is closing and for reused addresses | `Ownership`, `Marks`, `Replacement` |
| | `ImplementsOneSender` | `Spec /\ [](~AddressReused) => Sender!Spec`: every step of the program is one of `OneSender`, or none | `Ownership`, `Marks`, `Replacement` |
| | `HelloSentOrClosedCorrect` | a connection OnAccept is done with got its hello or is closed | `Ownership`, `FirstHello` |
| | `ExitLeavesOnlyCallbacksCorrect` | when main returns every session is destroyed, but for one whose read thread is in a callback | `Ownership`, `Return` |
| `AppLifecycleProofs` | `QueueTypeCorrect` | never more than `kCapacity` samples; types | `QueueInv` |
| | `ImplementsBuffer` | `QueueSpec => Buffer!Spec`: every step of the queue is a step of the lossy buffer or none | `QueueInv` |
| | `NoLostWakeup` | the decode thread never sleeps on with work or a shutdown before it | `QueueInv` |
| | `ProgramImplementsBuffer` | the queue is a lossy buffer between the program's threads | `ImplementsBuffer` |
| | `AllJoinedCorrect` | the decoder is shut down, and `App` gone, without a thread that uses them | `Joined` |
| `VideoPipelineProofs` | `StartedByKeyframeCorrect`, `BuiltForStreamCorrect` | the two decoder properties | inductive as they stand |
| | `BreakIsAnsweredCorrect` | a broken picture has an answer under way | `BreakInv` |
| `MainWindowProofs` | `ReleaseIsSentCorrect`, `CleanSessionsSeeWholeDragsCorrect`, `EndsAtPointerCorrect` | the three drag properties | `DragInv` |
| | `ScreenCurrentCorrect`, `InputMapsToScreenCorrect` | what the screen shows and input is mapped by | `ScreenInv` |
| `ComponentProofs` | `OneIdentityCorrect` | one id is announced | `IdInv` |
| | `DroppedForSilenceCorrect`, `ClocksAreKeptCorrect` | when a sender is dropped and pinged | `ClocksInv` |
| | `NoStormCorrect` | announcements are bounded by the start, the queries and the periods | `StormInv` |
| | `PairedWithinLimitCorrect` | an action property: whose times a frame carries | `TimesInv` |
| | `LastHelloIsKnownCorrect`, `SenderKnowsSizeCorrect` | the two safety properties, for any size, connection and timing | `HelloInv` |
| `ProtocolProofs` | `DeliveredInOrderCorrect` | every complete frame is extracted once, in order, however the stream is cut, also in front of a corrupt length; only behind such a length frames go unhandled | `FrameInv` |
| | `LastFeedIntactCorrect` | an action property: a byte the compaction spares is the byte framed | `FrameInv` |
| | `NeverMisroutedCorrect` | control and video are told apart | `PayloadInv` |
| | `SlicesReachDecoderCorrect` | the decoder gets every slice, whole and in order | `PayloadInv` |
| | `KeyframeIsIdrCorrect` | an IDR with its SPS is a keyframe; anything else is one only with a disposable slice and an SPS | `PayloadInv` |
| | `FieldsAreSendersCorrect` | a field read from a control message is the sender's, cut at a quote or to an int, or its default, unless a string in front of it imitates its key | `ControlInv` |
| `SpsProofs` | `SizeIsEncodersCorrect` | the size read is the encoder's, for every parameter set and wherever it is cut short | `SpsInv` |

The inductive invariants, and why the properties need them:

**Ownership.** That a thread may send on a raw pointer depends on whose reference
keeps the object alive, which depends on where that thread is and on who holds
the mutex. Its parts are
* `RefsAreLive`: references exist exactly to live objects;
* `OneDestroyer`: an object being destroyed has one thread in its destructor,
  and a read thread is only ever in its own;
* `ListenerPlace`, `MainPlace`, `ReaderPlace`: what each place in the code says
  about the locals there. The decisive conjunct is that from the snapshot to the
  installation `session` is `replaced` or empty: overwriting `session` under the
  mutex is therefore never the last release;
* `MutexPlace`, `SendPlace`: who holds the mutex, and on what a thread sends.

**Marks** adds that two objects that exist have two addresses, that an object
has an address exactly once it is made, and that `endedSession` is the address of
some session whose loop has ended. If the session at that address is another one,
the former is dead, hence the address reused. **Replacement** adds that what
receives is published, that `replaced` is closed before the new object is made,
and that a session not yet started is published or closed. Its `Start` and reaper
cases are where `Marks` is needed: without reuse the reaper cannot take a session
that is about to start. Each step of `Next` is first classed (`Quiet`, `Settled`,
`HelloKept`) by what it leaves alone, so that only the few that matter are argued.

**ImplementsOneSender** follows from the same invariants and one question more: how
many sessions can a step take out of service. Most steps are `Calm`: nobody comes or
is served, and at most one session stops, so the step is an `End` or a stutter. What
is left is `Accept`, `Start`, and the two steps of the main thread that move `door`.
`Start` is the argument: the invariant behind `OneReceiver` holds also after the step,
so whatever received before it is the session `TearDown` has taken. The hypothesis
excludes the behaviours of the run `session_aba`, in which the reaper takes a
session that has just been installed, so that it receives beside its successor; it is
a hypothesis about the allocator (once an address has been reused it stays so), and
no assumption about threads or senders. The refinement is safety only.

**Return** says where the last references can be when main returns: a connection
not yet a `Session` is OnAccept's, which is over; `~App` leaves `session` empty;
and main returns only from a program that was not terminated. With `Ownership`
each other place that may hold a reference, or a destructor, excludes itself.

**QueueInv** is the types, `WakeupPending` and `Latest`: the queue holds the last
samples pushed, in order, and so what is popped is the number after those gone.
Stated pointwise it needs no induction over sequences. In `AppLifecycle` every
step of the program is a step of the queue or leaves it alone (`UsesQueue`), so
theorems about the queue become theorems about the program.

**Joined** says what each place of `Setup` and `TearDown` knows of the threads:
which are not there yet and which have been joined. A thread that is gone does not
come back, as only `Setup` starts one; and the second `TearDown` finds what the
first one left. No place needs to know anything about sessions.

**BreakInv** strengthens `BreakIsAnswered` from "there is a keyframe in the queue"
to "there is one behind every break" (`AnsweredBehind`), since a keyframe in
front of the break would be consumed without repairing it, and a full queue drops
from the front.

**DragInv** relates `touch`, the message being sent, to the button and to what
the current sender has seen; `RectKnown` and `Fresh` say that a clean session has
a rectangle and that sessions not yet made have seen nothing. **ScreenInv** says
that frames are numbered in the order they pass from the decoder to the screen, and
states `ScreenCurrent` for the steps in which the loop is not in front of its draw.

**HelloInv** follows each thread from taking a size to having stored it. What the
main thread carries is the window's size, as no message is handled in between.
What OnAccept carries is the window's while the main thread is at work or has no
resize to look at, unless the window is minimized or the threads have crossed. So
where their sends and stores interleave without having crossed, they carry one size;
and a crossing is over with the next hello for which the other thread is at rest.

**IdInv** says where at most one start is choosing that the files and what it
holds agree, and that what was announced is what a later start will find.

**ClocksInv** bounds each clock at each place of the read loop. `LookedAt` says
how old the two clocks can be there, given when the loop last looked at them;
`ReadSoon` how long bytes may have lain unread; `NotOlder` that the code's clocks
are never behind the sender's. The limit of a clock grows with `waited` in `recv`
and with `busy` in a callback, which is why one bound for all places is not inductive.

**StormInv** counts: announcements sent, announcements the start and the timer
still owe, and queries waiting in the socket's buffer are together at most three,
the queries and the periods. A looped-back announcement is in none of the counts.
Two lemmas say how `Count` changes with `Append` and `Tail`.

**TimesInv** says that what the MFT holds and what the FIFO holds are both the
units accepted last. Only their numbers can differ, and they differ only after a
unit was swallowed; so the heads are one unit until then.

**FrameInv** is the decoder's place in the stream: behind the frames that were
extracted the buffer holds what has arrived and no complete frame, the verdict
is that of the first corrupt length, and while it has not fallen what was extracted
was handled. The step is `ScanFinds`: in a buffer that holds the stream from a
frame's beginning, the loop finds exactly the frames that are complete, and a
corrupt length only behind them. It is an induction from the last complete frame
backwards, along the calls of `Scan`. `LastFeedIntact` then compares offsets:
`Compact` writes below the new `size` only.

**PayloadInv** says that `result` is what `HandleFrame` makes of the composed
bytes; the rest is about the operators. `Layout` describes the bytes of a payload by
the positions of its units. `StartCodesAre` shows that a start code stands in front
of each unit and nowhere else: not within one (the assumption), not across the end
of one, whatever zeros it ends with, as the fourth byte would have to be a 1 where
the next start code has a 0. Hence `StartCodesFound`, `SplitIsComposed` and, by
counting ranks, `OfIsSent`. `SliceTypeIsNotI` goes through the seven possible
headers of a reference slice: read as Exp-Golomb numbers, the second number never
has the three leading zeros a 7 needs.

**ControlInv** says that members have distinct keys and that `parsed` is what
`ParseControlMessage` makes of their text. `TextLayout` and `MemberInText` place the
atoms of each member in the text and show that all others are braces or commas.
`KeyIsMembers` then goes through the places where a quote may stand (in front of a
key, behind it, at either end of a string or within one) and finds a quoted key at
the first of them, or within a string that imitates it: between the others there is
a mark. `OwnFirst` is the hypothesis of the property: no such string stands in front
of the key's own member. From there `ValueStart` follows the search over colon and
blanks, `FieldsRead` the value up to its first quote (`CutString`), and `IntAsMeant`
adds the conversion to an int.

**SpsInv** says where the reader is: what the encoder wrote from the group that is
read next lies ahead of `pos`, as far as it has arrived (`Ahead`), and what was read
is what the encoder meant (`AsMeant`). `ReadsAll` and its kin show that reading a group
returns what was written and leaves the rest ahead, or throws, and throws only in a
set cut short. They go down to one number: `Ue` writes as many zeros as its number
has digits behind the first, `ReadUe` finds the first 1 exactly there, and doubling
undoes halving, digit by digit; so no powers of two are needed. A scaling list ends
in both where the running scale becomes zero. `Arrive` is two inverses: the strip drops
the 3s that were put in and no others, as the two count zeros alike, and the bits of
the bytes of a code are the code. The assumption is `WellFormed`: numbers of at most 31
binary digits, lists as the standard has them, and sizes an `int` holds.

The last four invariants need induction over numbers, sets of which the library's
well-foundedness of `<` supports (`SetInduction`), and that a function defined
from each number to the next exists (`Recursion`), since only then its definition
can be unfolded; both are in `SharedLemmas`.

Only model-checked:

* all liveness: `EndedIsDestroyed`, `NewConnectionWinsIfRead`, `ShutdownCompletes`,
  `DecoderRestarts`, `PictureRecoversIfAsked`, `FrameReachesScreen`,
  `SizeReachesUncrossed`, and that part of `IsLossyBuffer`. Fairness and `ENABLED` are out of
  the prover's reach.

## 7. Where the code differs from what it says

Eight runs exhibit a disagreement between the code and a comment or a document:

* `session_hello_first`: the session is published before its `hello` is sent, so
  input or a keyframe request of another thread may be the first message
  (`app/main.cpp:599` against `:602`).
* `session_aba`: `endedSession` is a raw pointer that survives the replacement of
  its session; a later `Session` at the same address is taken by the reaper while
  it runs (`app/main.cpp:616` against `:151`).
* `session_self_join`: a callback holds a `shared_ptr`; if the session is
  replaced or taken meanwhile, that is the last one and `~Session` joins the
  thread it runs on (`app/main.cpp:560` against `:152`).
* `frame_intact`: spans are built from offsets taken before the compaction; a
  frame followed by part of another shows overwritten bytes
  (`protocol/framing.cpp:58` against `:37`).
* `frames_lost`: complete frames in front of a corrupt length in the same chunk are
  extracted but not handled, as the read loop looks at the verdict first
  (`net/session.cpp:143` against `protocol/framing.cpp:42-43`).
* `video_recovers`: a drop within 500 ms of an earlier request is dropped, not
  postponed; the IDR that answers the earlier request may precede the drop
  (`app/main.cpp:374` against `:572`).
* `resize_lost`: a resize that settles while `OnAccept` is between taking a size and
  storing it is compared with a size the sender does not have, or its size is
  overwritten by `OnAccept`'s later stores; the sender never learns the size of the
  window, unless a new connection or a resize comes (`app/main.cpp:603-608` and
  `:711-738` against `README.md:119-120`).
* `mdns_self_test`: where the mDNS port cannot be bound, the self test waits
  without a timeout for a packet that never comes, on the thread of `Setup`:
  nothing is announced and the main loop is not reached
  (`net/mdns_advertise.cpp:269` against `README.md:25` and
  `net/mdns_advertise.h:10-11`).

Noticed while modelling, in the models, without a run of their own:

* A connection accepted while `TearDown` runs is installed after the take
  (`app/main.cpp:856`) and destroyed only by `~App`; `ExitLeavesOnlyCallbacks` covers
  it.
* `TearDown`'s `reset` does not wait for a read thread inside a callback
  (`app/main.cpp:860`).
* `TearDown` runs twice when the port is taken (`app/main.cpp:519-524`, `:976`),
  and closes `frameEvent` twice (`:869`).
* A sender that does not read blocks input with `sessionMutex` held
  (`app/main.cpp:369`), and with it the acceptance of its successor and the end of
  the program: hence the premises of `NewConnectionWinsIfRead` and
  `ShutdownCompletes`.
* A late frame of a replaced connection, pushed behind the first IDR of its
  successor, breaks the picture, and nobody asks for another IDR: `lastDrop` is
  then `"foreign"`.
* A declared length of zero is accepted (`protocol/framing.cpp:47`) although
  `protocol/framing.h:61` calls it corrupt.
* The decoder is not reset when a session is replaced (`docs/RESEARCH.md:22`); it
  is rebuilt by the new stream's first IDR if its parameter sets differ, which is
  what `BuiltForStream` needs.
* `SliceType` begins at the NAL header instead of behind it
  (`protocol/annexb.cpp:35-65`). So not "any slice with slice_type 7 (I)" behind an
  SPS makes a keyframe (`:115`), as on a reference slice the test never fires; and
  on a disposable slice it may, so a keyframe need not be an access unit "with an
  IDR slice" (`protocol/annexb.h:48`). `KeyframeIsIdr` states both.
* Parameter sets are moved in front of all slices, though
  `net/session.cpp:174` speaks of wire order; `SlicesReachDecoder` states the
  order the code produces.
* A string that holds a key in quotes (as one that equals a key does, or one with
  escaped quotes) in front of the key's own member, also the value of a field that
  "MUST be ignored" (`protocol/control.h:6`), hides that member from the scanner of
  control messages: `Displaced` in `FieldsAreSenders`. An escaped quote ends a
  string, and a number from a billion on is no int.
* The frame at which the FIFO of capture times is emptied still carries its stale
  times, so one "fake 20-second latency" per drift is reported, contrary to
  `video/h264_decoder.cpp:164-171`; those the MFT then still holds get times that
  are too new. `PairedWithinLimit` states both.
* Bytes that reached the socket in time are thrown away unread when the thread
  was held up beyond the liveness timeout (`net/session.cpp:125`).
* An id is announced although it could not be stored, and two first starts at
  once may announce two (`unstored`, `overlapped` in `HelloId`).
* A failing `select` ends the responder silently while `running_` stays set
  (`net/mdns_advertise.cpp:323`); a machine without an address leaves it set, too
  (`:155-158`).
* After a failed `ResizeBuffers` the renderer goes on with the old size
  (`render/renderer.cpp:239-246`), for the picture and for input, although the
  window has another one: `ScreenCurrent` and `InputMapsToScreen` are about the
  renderer's size.

## 8. What is not modelled

* Platform I/O: sockets' set-up, Direct3D, Media Foundation, windows, the copying
  of pixels. Their calls appear as outcomes (success, failure) where the code
  reacts to them.
* Text that is only written: the `Build` functions of control messages, telemetry,
  logging, the window title. `config.ini` is read once, line by line, into
  settings with defaults; nothing runs beside it.
* Statistics: counters are read, subtracted and reset once a second to fill a
  message the sender only logs. Over a change of session the difference is taken
  between counters of two sessions, in unsigned numbers (`app/main.cpp:689`); the
  hazard is listed, but nothing in the receiver depends on the value, so there is
  no promise to check.
* mDNS: the choice of interfaces and the bytes of the packets.
* `sps.cpp`'s `ue()` for codes of 31 and more leading zeros, which overflow its
  `int`: no field of the standard has them.
* The wheel (one message without state) and a drag in progress when the window
  closes.
* The test tools, which were read as evidence of what either side promises.

## 9. Plan

The order was by how much depends on a part: ownership, framing, the video path,
demultiplexing, the window, adaptive hello; then the queue with its refinement and
the tear-down around it; then mDNS, clocks, capture times, the hello id and the two
parsers; then proofs, module after module, until each safety property of a passing run
had its theorem. What is left: pointer input's wheel, and statistics, if the sender ever
relies on them.

## 10. Running it

    tlc -workers 2 -config MCSessionLifecycle.cfg MCSessionLifecycle
    tlapm SessionLifecycleProofs.tla
    tlapm AppLifecycleProofs.tla

`PROJECT.json` lists each run with its module, configuration and properties, and
maps every definition to the lines it models. `MCComponents.cfg` takes about two
minutes, `MCSessionLifecycle.cfg`, `MCSessionLive.cfg` and `MCReceiver.cfg` about a
minute each, the others seconds. `ProtocolProofs` and `SpsProofs` take about eight
minutes from nothing, each other proof module up to five.
