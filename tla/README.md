# TLA+ models of XLiveMeet

XLiveMeet is an Android application for one-to-one voice and video calls,
meetings and live streaming.  This directory holds TLA+ modules translated from
its source (the calls, the ring player, the live publisher with its RTMP client,
and the software encoder from the screen down to the threads of libx264), TLC
configurations that check them on small instances, and proofs checked by TLAPS.
`PROJECT.json` maps every definition to the lines it models and lists the runs, the hazards and the theorems.

    tlc -workers 2 -config CallContend.cfg MCCall.tla  # model-check
    tlapm CallProofs.tla                               # check proofs

## 1. Inventory

The repository has no README of its own; the parts below are its Gradle modules
and packages.  Paths are relative to `src/`; `app/...` stands for
`app/src/main/java/cn/nchu/wuxi/xlivemeet/`, `p2p/...` for
`module_p2pchat/src/main/java/com/dds/skywebrtc/`, `meeting/...` for
`module_meeting/src/main/java/com/dds/webrtclib/`, `yasea/...` for
`yasea/src/main/java/net/ossrs/yasea/`, `cpp/...` for `yasea/src/main/cpp/`.

| Component | State | Operations | Status |
|---|---|---|---|
| Ring player, `app/webrtc/voip/AsyncPlayer.java` (and a copy in `meeting`) | command queue, registered worker thread, player, requested state, wake lock | `play`, `stop`, `setUsesWakeLock`, the worker's loop | modelled, proved |
| Calls, `p2p/SkyEngineKit.java`, `CallSession.java`, `Peer.java` | the current session; per session its state, room, target, streams, factory, peer, executor queue | `startOutCall`, `startInCall`, `endCall`, the tasks of the executor, WebRTC callbacks | partly: everything but offers, answers, candidates, switching to audio and the camera; proved |
| Signalling client, `app/webrtc/socket/SocketManager.java`, `DWebSocket.java` | the connection, its flag `connectFlag`, runnables on the main looper | one handler per message, send operations, open, close, error, reconnect | partly: the handlers of calls |
| Call screens, `app/webrtc/voip/CallSingleActivity.java`, `FragmentAudio.java`, `FragmentVideo.java`, `VoipReceiver.java` | whether the screen is there and which buttons it shows | accept, hang up, open on invitation, close when the call ends | partly: what changes a call |
| Live publisher, `yasea/SrsPublisher.java`, `SrsEncoder.java`, `SrsFlvMuxer.java` | `started`, worker, frame cache and its counter, sequence headers, `needToFindKeyFrame` | `start`, `stop`, `pause`, the worker's loop, encoder callbacks, `disconnect` on a thread of its own | partly: everything but pausing, switching the encoder and the codecs; proved |
| RTMP client, `yasea/src/main/java/com/github/faucamp/simplertmp/io/RtmpConnection.java` | socket, receiving thread, `connected`, `publishPermitted`, stream id | `connect`, `publish`, `close`, `shutdown`, receive loop | modelled |
| Coding in software, `cpp/libenc/libenc.cc`, `yasea/SrsCameraView.java`, `SrsEncoder.java`, `SrsPublisher.java`, `app/activity/PushActivity.java` | `mIsEncoding`, the queue `mGLIntBufferCache`, the worker, the static encoder and frames of `libenc.cc` | `onDrawFrame`, `enableEncoding`, `disableEncoding`, `RGBASoftEncode`, opening and closing, turning the phone, changing the camera | partly: everything but pausing, the hard encoder and the conversion of pixels; proved |
| Software encoder, `cpp/libx264/common/threadpool.c`, `common/frame.c`, `encoder/encoder.c`, `lookahead.c`, `analyse.c`, `slicetype.c` | the pool's lists and threads, one context per thread, buffers of pictures with their counts, the rows published so far | `x264_encoder_open`, `_encode`, `_close`, the job of a picture | partly: everything about threads, pictures and references; not how a macroblock is coded; proved |
| Buffer pool, `yasea/SrsAllocator.java` | free allocations | `allocate`, `release` | not modelled, see 5 |
| Chat socket, `app/core/chat/ChatWsManager.java`, `ChatSocketListener.java` | client, connect flag, posted heart beats and reconnects | `init`, `connect`, `closeConnect`, `reconnectWs`, heart beat, callbacks | not modelled, see 5 |
| Meetings, `meeting/WebRTCManager.java`, `PeerConnectionHelper.java`, `ws/JavaWebSocket.java` | room members, a connection per member, one `_role` shared by all | connect, join, member joined or left, offer, answer, candidate, leave | not modelled, see 5 |
| MP4 recorder, `yasea/SrsMp4Muxer.java` | frame cache, worker, file | `record`, `pause`, `resume`, `stop` | not modelled: the push screens never record |
| Screens, REST calls, storage: activities, fragments, adapters, `HttpUtil`, `ACache`, `CrashHandler`, bullet comments | views, caches | input and output | not modelled: no protocol of their own |
| Commented-out code: `NodeLoginPresenter`, `SocketClient`, the room screen | - | - | not modelled: never runs |
| Vendored: `libwebrtc`, mp4parser, coremedia, magicfilter, libyuv, the rest of libx264 | - | - | external, see 5 |

How they interact.  Clicks and broadcasts run on the main thread and call
`SkyEngineKit`, which keeps one current `CallSession` and replaces it when its
state is `Idle`.  A session gives most of its work to a single-thread executor
of its own.  The tasks send messages through `VoipEvent`, `SocketManager` and
`DWebSocket` to a signalling server, which is not in the repository; messages
come back on the socket's thread, are posted to the main looper, fetch the
session that is current at that moment and call it, which posts another task.
The publisher is apart from all this: the encoding threads put
frames into a cache, the worker of `SrsFlvMuxer` takes them out and sends them
through `RtmpConnection`, whose receiving thread wakes it when the RTMP server
answers; the main thread starts and stops, and a stop leaves disconnecting to a
thread of its own.  Before that, pictures go from the drawing thread into the queue of
`SrsCameraView`, from there by its worker through `libenc.cc` into
`x264_encoder_encode`, which hands each to a thread of its pool and gives out
an earlier one, which goes to the muxer.  WebRTC calls the `Peer` back on its
own thread.  `VoipEvent` rings through an
`AsyncPlayer`, which has a worker thread of its own.  An exception nobody
catches kills the process (`utils/OwnUncaughtExceptionHandler.java:17`).

What is hard.

- *Interleaving.*  `_callState` is written by the main thread (`endCall` sets
  `Idle` at once) and by the executor (`Connecting`, `Connected`, `Idle` again)
  with no lock; what was tested on one thread may be stale on the other.
- *Ordering.*  Messages name a sender but not a call.  A late message acts on
  whatever call is current.
- *Partial failure.*  `release` assumes a local stream, a remote stream and a
  peer; the executor dies of a missing one, and the process with it.
- *Hand-over.*  `AsyncPlayer` has a worker only while there is work; a command
  queued as the worker leaves must not be stranded.
- *Reuse.*  One `SrsFlvMuxer` and one `RtmpConnection` serve every stream; their
  fields have no lock, and the threads of an old stream or connection may still
  be at them when the next begins.
- *Shared statics.*  `libenc.cc` keeps its encoder and frames in static
  variables without a lock; only the order in which the main thread stops,
  joins, closes and reallocates keeps the worker away from them.
- *Prediction across threads.*  Pictures are coded at the same time although
  each is predicted from those before it: a row may be read only when another
  thread has finished it, from a buffer that has not been given away.
- *Lost wake-ups.*  The lists of the thread pool have one condition variable
  that is never signalled.
- *Liveness.*  An accept takes effect through four tasks and three messages.

What makes each component correct is written with its properties below; the
hazards, also those of components that are not modelled, are listed in
`PROJECT.json` at the lines where they bite.

## 2. The models

### AsyncPlayer, RingRequests, AsyncPlayerProofs, MCAsyncPlayer

`AsyncPlayer` has the fields of the class (`mCmdQueue`, `mThread`, `mPlayer`,
`mState`, the wake lock as `usesWakeLock` and `held`), for each worker thread a
program counter `pc` and the command it holds, and in `setter` where a caller of
`setUsesWakeLock` is.  An action is one `synchronized` block, or the code between
two of them: `Play` and `Stop` for the callers, `Take`, `StartSound`, `StopSound`
for the worker.  `setUsesWakeLock` takes no lock.  It is two actions,
`SetUsesWakeLockTest` and `SetUsesWakeLockWrite`, and any other step may come
between them; and since it may come between `mThread = null` and
`releaseWakeLock`, the worker's last block is two actions as well, `Check` and
`Release`, during which the other blocks wait (`Unlocked`).  In the block of
`enqueueLocked` it does what it would have done before or after that block.  One
thread at a time calls it, and the fields are read and written in one order for
all threads.  A `MediaPlayer` is represented by the sound it plays; loading a
sound may fail, and then the old one goes on.  `removeFirst` on an empty queue and
`WakeLock.release` without an acquire would throw and end the process: the worker
then is `crashed`.  `NeverTakesFromEmpty` excludes the first of the two.

`RingRequests` is what the player promises: requests take effect one at a time
in the order they were accepted, and a stop that follows a stop is not
recorded.  `AsyncPlayer` implements it with a refinement mapping that reads the
pending requests off the command in the worker's hands (`InHand`) and the queue.

Properties: `SingleWorker`, `WorkHasWorker`, `NeverTakesFromEmpty` (the
hand-over), `SilentWhenStopped` (the pairing of the early `mState` with the
late `mPlayer`), `LockNeverLeft` (whenever `setUsesWakeLock` is called, the wake
lock is held once at most, and only while there is a worker that will release
it), `RequestsInOrder` (refinement), and `StopEndsSound`: after a stop the sound
ends or a play follows.

What the code asserts and does not ensure is `NoWorkerCrashes`: `setUsesWakeLock`
refuses to set the wake lock up while there is a worker (`AsyncPlayer.java:149`), but
it may come between `mThread = null` and `releaseWakeLock`, and the worker then
releases what it has not acquired and throws; likewise a worker may start between
its test and its write.  TLC shows this when `NoWorkerCrashes` is added to the
invariants of `AsyncPlayer.cfg`.  Nobody in the repository calls `setUsesWakeLock`,
so the app does not meet it today, and no run is spent on it.

### Call, CallProofs, CallRingProofs, MCCall

`Call` has one state machine per phone and the server between them:

| Variable | Code |
|---|---|
| `ses[u]` | all `CallSession`s a phone ever made; the last is `mCurrentCallSession`; a replaced one keeps its executor and its tasks |
| `ring[u]` | what `VoipEvent` last told the ring player |
| `inbox[u]` | runnables posted to the main looper by `SocketManager` |
| `invites[u]` | broadcasts on their way to `VoipReceiver` |
| `members` | the rooms of the server |
| `alive`, `died` | whether the process runs, and what killed it |
| `main[u]` | where the main thread is in `onClick` of the hang-up button |

| Action | Code |
|---|---|
| `Dial` | `CallSingleActivity.init`, `startOutCall` |
| `ReceiveInvite`, `OpenUi` | `VoipReceiver.onReceive`, `startInCall`; the screen comes after an HTTP look-up, or never |
| `Accept` | `onClick` of the call fragments, `joinHome` |
| `HangUp`, `HangUpIdle`, `HangUpFinish` | `onClick` of the call fragments: `endCall` up to the posting of its tasks, its write of `Idle`, `finish` |
| `ShowConnected` | the runnable of `didChangeState` that takes the accept button away |
| `OnPeers`, `OnNewPeer`, `OnRing`, `OnReject`, `OnLeave` | the runnables of `SocketManager` |
| `TaskCreate` ... `TaskNewPeer` | the runnables given to a session's `executor` |
| `TaskRelease`, `TaskClose` | the runnable of `release` up to its write of `Idle`, and its call back of the screen |
| `RemoteStream` | `Peer.onAddStream` |

`_callState` is tested and written on two threads without a lock, so what tests
and writes it is split where the other thread may come between: `endCall` between
its test, its write and the `finish` of the screen, `release` between its write and
its call back of the screen.  Every other task is one action: other threads may
run between two tasks of one executor, and inside a task nothing another thread
reads changes except `_callState` and the ring, in its last steps.  The buttons of
a screen act on the current session, whatever call the screen was opened for, and
the screen that takes clicks is the newest one that is not closed (`OnTop`).

A message is sent, relayed and put in the inbox of its receiver in one step and
is delayed there; inboxes keep the order.  The server (`ServerEnter`,
`ServerInvite`, `ServerLeave`, `Relay`) is external and modelled from how the
client uses it.  A failing task is `Die`.  The history fields `stray` (the session
took a message of another call, or a click on another call's screen), `end` and
`room` of messages are read only by properties.

Properties:

- `RingSilencedByConnect` - a connected call is not accompanied by a ring;
- `SetupNeverFatal` - no task that sets a call up meets a null factory, stream
  or screen, unless the call was ended or another call's message was taken;
- `ConnectedIsEquipped` - connected means a peer, a stream and a place in the room;
- `ReplacedIsOver` - only a session that has been ended is replaced, and if its
  screen is still there, `release` is about to close it (unless it is `stray`);
- `LeftIsTold` - when all is dealt with, the other side of a connected call is
  connected too, unless it hung up while it believed it was still calling;
- `InviteAnswered`, `AcceptConnects` - the liveness of inviting and accepting;
- `IInv`, `SetupInv`, `RingInv` - the inductive invariants of the proofs (section
  4), checked as well.  `SetupInv` contains `SetupNeverFatal`.

Findings (runs that are expected to find a violation):

- `ReleaseReachesIdle` (`call_refused`): a caller who is refused has no remote
  stream, `release` throws at `CallSession.java:293`, and the process is killed
  before the state is set to `Idle`.
- `NobodyTalksAlone` (`call_left_alone`): the task of `newPeer` connects the caller
  between the test and the write of `endCall`.  Only a cancel is sent, and the other
  side stays connected, alone.  `LeftIsTold` is what remains true: it excuses exactly
  the phones that hung up believing they were still calling.

Two more comments of the code fail, with no run of their own; put in place of the
invariant of `CallLeftAlone.cfg` and, for the second, with the plan `Both`, TLC
refutes them:

- `HungUpStaysDown`: a caller hangs up right after dialling.  What the call has
  under way goes on, the other side is invited and accepts, and the task of
  `newPeer` sets the hung-up session to `Connected`.
- `ScreenOfPresentCall`: a session is replaced between the write of `Idle` and the
  call back in `release`.  Its screen is still there, and the hang-up button on it
  ends the new call.  `ReplacedIsOver` says that this is the only way, and that the
  screen is then about to be closed.

A cancelled call keeps ringing at the callee, because `SocketManager.onCancel` is
empty; the model has this, and no run is spent on it.

### RtmpConnection, FlvMuxer, FlvMuxerProofs, MCFlvMuxer

`RtmpConnection` has the fields of the class that its threads share, for each
connection ever made its state and that of its receiving thread, and for each
caller where it is.  It has no `Next`: `FlvMuxer` extends it and composes its steps
with those of `SrsPublisher`, `SrsEncoder` and `SrsFlvMuxer`.

| Variable | Code |
|---|---|
| `socket`, `session`, `out`, `rxPacketHandler`, `connected`, `publishPermitted`, `currentStreamId`, `videoFrameCacheNumber` | fields of `RtmpConnection`; an object is named by the connection it was made for |
| `call`, `interrupted` | where the worker is in `connect` and `publish`; its interrupt status |
| `down[t]` | where the worker (0) or the thread of the `t`-th stop is in `close` or `shutdown` |
| `tcp[c]`, `rx[c]`, `reads[c]`, `rxInterrupted[c]` | each connection; its receiving thread, what it reads from and its interrupt status |
| `asked[c]` | the conversation with the server of connection `c` (external) |
| `started`, `mFlvTagCache`, `headers`, `needToFindKeyFrame`, `got` | fields of `SrsFlvMuxer` and of its `SrsFlv` |
| `worker`, `hand` | where the worker is; the frame it has polled |
| `enc[t]` | the thread that encodes a track: not in `flvTagCacheAdd`, before or after the `add` |
| `main`, `pushing`, `destroyed` | the main thread in `stopPublish`, the button, `onDestroy` |
| `starts`, `stops`, `taken`, `delivered` | history and bounds |

| Action | Code |
|---|---|
| `StartPublish`; `StopPublish`, `StopMuxer`, `StopReturns` | `SrsPublisher.startPublish`; `stopPublish`, split where it joins the encoding threads and the worker |
| `BeginConnect` ... `PublishDone` | `connect`, `rtmpConnect`, `createStream`, split at the blocking calls and at the two waits |
| `CloseStream` ... `Reset`, `Disconnected` | `close`, `shutdown`, `reset`, split at the join of the receiving thread; `disconnect` |
| `ReceiveConnected` ... `ReceiverEnds` | one turn of the receiving loop |
| `Encode`, `AddFrame`, `FrameAdded` | a sample; `flvTagCacheAdd`, split between its test, its `add` and its count |
| `LoopTest`, `CacheTest`, `TakeFrame`, `SendFrame`, `Park`, `WaitOver` | the worker's loop |

What is atomic here and not in the code: the assignments of `reset`, the guards
of a call with the packet it sends, `shutdown` up to its join, and a received
packet with the loop test after it.  A receiving thread reads the fields again
for every packet, so that of an old connection may come to read a newer one; that
two threads then tear packets apart is left out, as are transaction numbers: an
answer that finds another session is unknown there (and kills the process) or
passes for one of that session.  A handshake that fails leaves its socket open,
as the code does, until the stop closes it.  A null that is used is `Crash`.  The push screen
ignores the notifications of the RTMP client and never pauses, so neither is
modelled.

Properties:

- `NoStaleFrame` - no frame of one stream is sent in another, though the cache,
  its guard and every field of the connection outlive the stream;
- `CacheNumber` - the counter that throttles the encoders is the number of video
  frames waiting (first stream: later ones meet the late `reset` of an earlier stop);
- `StoppedIsClosed` - when the user has stopped and all is through, no connection is open;
- `FramesLeave` - a frame in the cache is sent or cleared even when its
  notification found nobody waiting;
- `StreamingStopReturns` - a stop that interrupts the worker in its loop ends.

Findings: `StopEnds` (`flv_stop_blocks`) - a stop that meets the worker in the
waits of `connect` or `publish` may block the main thread for ever, because the
interrupt is swallowed there; `StoppedIsClosed` with a restart (`flv_leaks`) - the
late disconnect of the first stream closes the second connection and leaves the
first one open; `PublishAfterStart` (`flv_permission`) - a frame should reach a
connection only after its own server has permitted it, but all connections set one
flag.  Two streams are too few to see it: the `reset` of the first stop comes between
or its shutdown closes the connection.  With three, the thread of stop 1, delayed in
`reset`, takes the socket from stream 2, whose shutdown then leaves its connection
open, and the late answer of server 2 permits stream 3.

### ThreadPool, EncoderPipe, FrameThreads, ThreadPoolProofs, FrameThreadsProofs, FramePicturesProofs, MCFrameThreads

`ThreadPool` is `common/threadpool.c` with the synchronised lists of
`common/frame.c`: `uninit`, `run` and `done` are the lists, `wk[w]` and `cur[w]`
where each thread is and the job it has, `caller` and `carg` the calling thread in
`x264_threadpool_run`, `_wait` and `_delete`, and `exit` the flag.  A step is what
happens under one lock.  A thread tests `exit` without the lock (`Top`) and again
with it (`Sleep`, `NoJob`).  A push to a full list would sleep on `cv_empty`, which
nobody signals for `run` and `done`; such a push is never enabled.

`FrameThreads` extends it with `encoder/encoder.c`, in the configuration
`libenc.cc` opens (veryfast or superfast, zerolatency, baseline): no B pictures, no
lookahead thread, no sliced threads, no weighted prediction, more than one thread.

| Variable | Code |
|---|---|
| `phase`, `ctx[t]` | `i_thread_phase`; `h->thread[t]` with its `fdec`, `fenc`, `frames.reference`, `fref`, `b_thread_active`, the row its job is at |
| `encBufs`, `decBufs` | all source and reconstructed pictures with `i_reference_count` and `i_lines_completed`, and the lists `frames.unused` |
| `input`, `lastKey`, `lastNonb` | `frames.i_input`, the lookahead's last key frame and last picture |
| `call`, `closing` | where `x264_encoder_encode` is; whether `closeSoftEncoder` runs |
| `sent`, `dpb` | history: what came out, and the pictures a decoder keeps (external) |

| Action | Code |
|---|---|
| `Encode`, `Queue` | `x264_encoder_encode`: synchronise the contexts, update the references, choose the type, start the job |
| `WaitOldest`, `Waiting`, `FrameEnd` | `x264_encoder_frame_end`: wait for the oldest job, give out its picture |
| `Await`, `CodeRow`, `Publish`, `Fail` | the job, `x264_slices_write`: wait for the rows of the references, code a row, publish it, fail for want of memory |
| `BeginClose`, `Flush`, `DeletePool`, `JoinPool`, `Reopen` | closing and opening again |

Only the calling thread touches counts and lists, and never inside a call of the
pool, so all it does between two such calls is one step.  A row is one step to code and
one to publish.

`EncoderPipe` is what the encoder promises to `libenc.cc`: a pipe of `Depth`
pictures that gives out the oldest when it is full and is emptied on closing.
`FrameThreads` implements it (`PipeRefined`).  The mapping `Inside` is the last
`Depth` pictures that were put in, where `Depth` counts the contexts in the pipe
(`InPipe`); that those are the pictures in the contexts' buffers, in the order of the
contexts, is `PicturesInOrder`, a part of `IInv`.  `SoftEncoder` is built on
`EncoderPipe`, so it needs nothing of the threads inside.

Properties:

- `NeverFull` - no push meets a full list;
- `PicturesInv` - why all of the following safety properties hold.  Its first part,
  `IInv`, is why the pipe keeps its order: the jobs of the pool are conserved,
  each in one list or in one hand (`PoolInv`); the pool has one job of a context in
  the pipe and none of the others (`OneJobEach`); the calls go through the pool in step
  with the contexts (`InStep`); a source picture is held until it comes out
  (`SourcesHeld`); those inside are numbered by age (`PicturesInOrder`).  The rest is
  about the pictures (section 4): `PicturesShared`, `SourcesCounted`, `JobsRun`,
  `PicturesNumbered`, `LinesFinal`, `DecoderKeeps`;
- `RefsReady` - a job that codes a row finds in its references' buffers the
  pictures it means, with final samples as far as a motion vector can reach;
- `CountsHold` - a buffer's count is the number of contexts that may use it,
  the free buffers are those nobody uses, and the arrays without a bound check suffice;
- `DecoderHasRefs` - what comes out refers to pictures a decoder has kept, also
  when jobs failed in between;
- `PipeRefined` - the refinement;
- `CallsReturn` - every call and every close returns, unless a job failed.

The last exception is the code's: a job that fails tells the others only with
sliced threads (`encoder.c:3090`), so jobs that wait for its rows, and the caller,
wait for ever.

### SoftEncoder, SoftEncoderProofs, MCSoftEncoder

Three threads meet in `SoftEncoder`: the drawing thread, the worker of
`SrsCameraView` and the main thread.

| Variable | Code |
|---|---|
| `main`, `job` | where the main thread is in `startEncode`, `stopEncode`, `setScreenOrientation`, `switchCameraFace`, and for which of the user's acts |
| `pushing`, `destroyed` | what the button says; `onDestroy` |
| `mIsEncoding`, `cache`, `worker` | fields of `SrsCameraView` (`mGLIntBufferCache` is `cache`) |
| `gl` | the drawing thread between its test of `mIsEncoding` and its `add` |
| `at[w]`, `intr[w]`, `hand[w]` | each thread `enableEncoding` ever made: its place, its interrupt flag, the picture it took |
| `header`, `scaled`, `coded` | `global_nal_header`; the orientation the frames were allocated and the encoder was opened for |
| `inside`, `input`, `last`, `open` | the encoder, as `EncoderPipe` |
| `fed`, `delivered`, `crashed`, `session` | history: what went in, what came out, the null picture, how often it was opened |

| Action | Code |
|---|---|
| `Push`, `Stop`, `Destroy`, `Change` | the user: the button, leaving, turning the phone, changing the camera |
| `Open`, `OpenFails`, `NoCodec` | `SrsEncoder.start` with `openSoftEncoder` |
| `Spawn`, `SetFlag`; `Unflag`, `Clear`, `Interrupt`, `Join` | `enableEncoding`; `disableEncoding` |
| `Close`, `Drain`, `Resize` | `closeSoftEncoder`, `setEncoderResolution` |
| `GlTest`, `GlAdd` | `onDrawFrame` |
| `Top`, `Look`, `Poll`, `WaitEnds` | the worker's loop |
| `Drop`, `CallNative`, `Convert`, `GiveHeader`, `Encode`, `NoOutput`, `Output` | `onGetRgbaFrame`, `RGBASoftEncode` with `convert_to_i420` and `x264_encode` |

Properties:

- `NativeSafe` - a worker is in `libenc.cc` only with an open encoder whose frames
  fit it, with the main thread elsewhere and no other worker there, and no encoder
  is opened over another;
- `SessionOutput` - a session gives out its headers, then its pictures in the
  order they were drawn, none left out on the way through the encoder;
- `StaleAtMostOne` - at most one picture of an earlier session is shown: the one
  `onDrawFrame` was about to add when the queue was cleared;
- `CrashOnlyStopping` - the worker polls an empty queue, and dies of it, only
  while `disableEncoding` is stopping it;
- `StopEnds` - every call of the main thread returns, although it joins a worker
  that may be waiting: the handler interrupts the thread again.

The crash itself is real: `clear()` may come between `isEmpty()` and `poll()`
(`SrsCameraView.java:270`), and `poll()` then gives null.  No document says
otherwise, so it is a hazard here and not a finding.

## 3. Runs, bounds, fairness

| Run | Instance | Shows |
|---|---|---|
| `async_player` | 2 sounds, 2 worker identities, 3 queued commands | all of the ring player |
| `call_contend` | three users, two of them call the third; 1 hang-up; 2 accepts in a single call, 1 once both call (`PatientSpec`) | one call in every interleaving, and a busy phone; with liveness |
| `call_redial` | two users; one calls twice, the other once; 2 hang-ups, 1 when all three calls have been dialled or a process has died (`PatientBoth`) | messages, tasks and the screen of an old call reaching a new one, and both busy for each other; the three invariants of the proofs |
| `call_refused`, `call_left_alone` | one call, 1 accept, 2 hang-ups | the findings |
| `flv_stream` | one stream, both tracks, 3 samples, a `VGOP` of 2 | the cache, its counter, waiting, stopping, with liveness |
| `flv_restart` | two streams, pictures, 1 sample each, 2 stops | what the first stream leaves behind for the second |
| `flv_stop_blocks`, `flv_leaks` | one stream; two streams | the findings |
| `flv_permission` | three streams, sound, 1 sample, under `GuidedSpec`: a part of the users, servers and schedules of `Spec` | a finding that needs three streams and some fifty steps |
| `x264_frames` | 3 threads, 4 pictures of 3 rows, 2 references, 1 scene cut, 1 failed job | the pool, the waiting of jobs, counts, references, the refinement; with liveness |
| `soft_encoder` | 2 sessions, 4 pictures, an encoder of depth 2, 2 turns or camera changes, 2 worker identities | the three threads around `libenc.cc`; with liveness |

Two worker identities are enough for a hand-over, because a thread that has
returned may be used again; three queued commands let a play, a stop and a play
be queued behind a command in hand.  `Plan` bounds how often a user dials,
`MaxHangUps` how many calls are hung up by users, `MaxClicks` how often accept
is pressed: two show the button pressed again after and before the first press
took effect.  Where several calls go on at once, `MCCall` bounds accepts and
hang-ups further.  `PatientBoth` is a state constraint of a run that checks safety
only.  The run that checks liveness has no constraint but `PatientSpec`, which puts
its bound on the steps: it holds back only the user who dials and the user who
presses accept, neither of whom is under any fairness, so each of its behaviours is
a fair behaviour of `FairSpec`.  Nothing else is bounded.

`MaxStarts` bounds how often the user starts, `MaxStops` how often a stop is
called, `MaxFrames` the samples of a stream, `VGOP` (48 in the code) the counter at
which encoders are throttled.  Two starts are the least at which an old
disconnect meets a new connection; one sample a stream is enough for a frame to
be left behind, three samples with a `VGOP` of 2 let the throttle take hold
and let go, and give headers, key frames and others.

In `x264_frames` a row waits for the next row of the picture before and one more,
so with three rows each of the three jobs can be held up by the one before while
that one is at work; with a key frame every 3 pictures and 2 references, the four
pictures have a first key frame, a full list of references, a scene cut and a
forced key frame.  The job that may fail does so before its second row, when
others wait for it.  A `Depth` of 2 in `soft_encoder` is the least that holds a
picture back; two identities let a worker that has not ended meet the next.

Three runs do not list `TypeOK`: it is a part of the `IInv` or `PicturesInv` they check.

`AsyncPlayer`'s fairness is weak fairness of the worker's steps: a started
thread runs.  `FairSpec` of `Call` is weak fairness of each main thread and of
each executor: the looper goes on to the next invitation or message, a begun
`endCall` goes on to its end, and the next task is run.  Users, the opening of the
screen, the runnable that hides its button and the remote stream have no fairness.
`FlvMuxer` assumes that the worker, the main thread
inside a stop, the threads of stops, the encoding threads inside
`flvTagCacheAdd` and a receiving thread whose connection has ended go on; a socket
has a connect time-out, and a write is taken to end.  Users, encoders and servers
have no fairness.  `FrameThreads` assumes that a call that has begun goes on, and so
do the threads of the pool and the jobs they run, each by itself; nobody has to
begin a call, and no job has to fail.  `SoftEncoder` assumes it of the main thread
inside a call and of each worker; the user and the drawing thread have no fairness.
All of them are threads of the operating system between two blocking calls, and
their waits are for conditions, not for locks that others could keep from them.

`CHECK_DEADLOCK FALSE` in the call runs: when everyone has hung up or died and
the plan is used up the system stops.  In the runs of `AsyncPlayer` a crash ends
the process, and with it everything.  The same in the runs of `FlvMuxer`: a
crash ends everything, and so does the last stop.  In `x264_frames` a failed job may
leave the caller waiting for ever, and in `soft_encoder` the sessions are used up.

## 4. Proofs

`AsyncPlayerProofs` proves, for any sounds, threads and queue bound:
`TypeCorrect`, `SingleWorkerAlways`, `WorkHasWorkerAlways`,
`NeverTakesFromEmptyAlways`, `SilentWhenStoppedAlways`, `LockNeverLeftAlways`, and
`Refinement` (`Spec => RequestsInOrder`).  The inductive invariant `IInv` ties the
pieces of state: the registered worker is the only one that is in its loop, a
worker about to take has something to take, the newest command agrees with
`mState` (`NewestAgrees`), nothing is queued while a worker leaves (`LeavesEmpty`),
and what is held was acquired after the wake lock was set up, by the worker that
is still there (`LockOfWorker`).  The refinement has one step per action: `Play`
and `Stop` append to the pending requests, `StartSound` and `StopSound` take their
head, the others leave them as they are.

`CallProofs` proves, for any users, plan of calls and bounds: `TypeCorrect` and
`ReplacedIsOverAlways`.  `ReplacedIsOver` is not inductive: that an idle session
is over depends on what queued releases will do, and that its screen closes, on
where executor and main thread are.  `IInv` adds `EndsInOrder` for every session:
a queued release means the call has been ended, and so does `Idle`; a session with
a peer has had a screen.  For the present session it adds `ClosesOnTime`: when it
is idle, its screen is closed, or the rest of its `release` will close it, or the
main thread will, before it runs anything else that could replace the session.
Nearly every step rewrites one session: `Follows` says what such a rewriting
respects, and one lemma (`SessionStep`) that the invariant survives it.  Only the
three steps of the hang-up button do not follow, because they move the main
thread, and have a lemma of their own (`SessionStepAt`).  There are lemmas for
each way a session is rewritten and for each thing the server does, and one per
action.

The same module proves, in the same generality, `SetupNeverFatalAlways` and
`ConnectedIsEquippedAlways`.  That a task finds the factory, the stream and the
screen it needs is decided long before it runs, so `SetupInv` follows the
messages and tasks between.  A room is entered only from a session with a
screen, or from a stray one, whose accept was pressed on another call's screen;
hence a phone hears of a room only if it has such a session (`PhoneOK`); a second session for the same room is not made without noting it,
so what is heard belongs to the present session; and who enters is told who was
there (`peers`) before it is told who comes (`newPeer`), first in the inbox
(`MsgsInOrder`), then among the tasks (`TasksInOrder`), so that the factory and
the streams are made before they are used (`Prepared`).  `SetupInv` speaks of
phones whose process runs; `ConnectedIsEquipped` also of the others, which have
no undisturbed connected session (`DeadHasNone`).

`CallRingProofs` proves `RingSilencedByConnectAlways`.  The ring is started on the
main thread and stopped on the executor, and no lock orders the two.  What orders
them is the way of a call through both phones and the server, and `RingInv`
follows it.  The announcement of a present call is in at most one of five
places: the task that creates the room, the answer of the server, the task that
invites, the invitation, the session of the phone that is called
(`Announcement`).  As long as it is under way its caller is alone in the room
(`Alone`).  The ring is sent from the last place, before that phone can join
(`RingsItsCaller`: ringing back is the first task of a session), and the inbox of
the caller keeps the order, so a ring comes before anything that tells of
somebody in the room (`RingsFirst`).  `Unheard` starts this for calls that have
not been dialled: nobody has heard of their rooms.  Nearly every step is calm for
nearly every room; there are lemmas for the steps that move the announcement from
one place to the next.

`FlvMuxerProofs` proves, for any number of starts, any tracks and any bounds:
`TypeCorrect` and `NoStaleFrameAlways`.  `NoStaleFrame` alone is not inductive: a
frame is sent to `out`, and that both belong to the present stream has to be
carried from where they were made.  `IInv` adds which stream the worker, its
connection and its output stream belong to (`WorkerInv`), that every frame that
exists is of the present stream (`FrameInv`), that between two streams there is
no worker, no frame and no encoder (`StoppedInv`), and that there are no more
stops than starts and a final one (`StopsInv`, which keeps the numbers of the
threads of stops apart).  The steps of the connection change nothing of the
muxer, which `ConnStep` says once for all of them.

The same module proves what holds of the first stream only.  `CacheNumberAlways`:
until the first stop returns (`Fresh`) no thread of a stop has begun, so nobody but
the worker resets the connection, and only when it gives up (`Failing`).  Until
then the worker counts down for each video frame it sends, an encoding thread up
for each it has added (`CountInv`; a frame between its `add` and its count is
`Uncounted`).  A sent frame is only counted when the connection is connected and
permitted (`PermitInv`), and a picture is only sent when the sequence header came
before it (`HeaderInv`); `TurnsInv` says how starts and stops follow each other.  `FirstStreamCloses`
and `StoppedIsClosedAlways`: only the connection in the field `socket` is alive,
and no longer once the thread of a stop is past closing it (`ClosedInv`).  With
one start this is all that happens; with two it is false, which `flv_leaks` shows,
and the theorem has `MaxStarts = 1` as its hypothesis for that reason.
`FirstStreamCloses` needs no such hypothesis and speaks of every behaviour as long
as the user has not started again.

`ThreadPoolProofs` proves, for any threads and jobs, that `PoolInv` is an invariant
of the pool and, from it, `NeverFullAlways`.  `NeverFull` alone says nothing about
where the other jobs are; `Conserved`, the sum over lists and hands, is what
makes a list that is about to be pushed to have room.  `FrameThreadsProofs` shows
that every step of the encoder is a step of the pool or leaves it alone
(`EncoderUsesPool`), so that both results hold of the encoder as well
(`PoolInvOfEncoder`, `EncoderNeverFull`) for any number of threads.

It goes on to prove the refinement of `EncoderPipe` (`PipeRefinement`), for any number of
threads, any pictures, references and failures.  Its invariant, `IInv` (`Invariance`), says
why pictures keep their order although their jobs end in any order.  Contexts are
used in turn, so the age of a context, how many calls ago it was used, tells which picture it
has; the context a call takes is the oldest, and nobody uses it, for its job was
waited for in the call before.  So no two jobs in the pool have one context
(`JobsApart`), which the pool by itself does not promise, and the job that
`x264_threadpool_wait` finds is the one that is meant.  The picture of the context that
leaves is the first of those inside because buffers are filled anew only when their
count is 0, and a picture inside is counted by its context and, if it is the last one,
by the lookahead once more.  There is a lemma for every action: the two that change the pipe,
`EncodeKeeps` and `OldestLeaves`, map to `PutIn` and `TakeOut`, the others to
`BeginClose`, `Reopen` or nothing.

`FramePicturesProofs` proves what the encoder promises of its pictures, for any number of
threads and references, any height and motion range and any jobs that fail:
`CountsAlwaysHold`, `RefsAlwaysReady` and `DecoderAlwaysHasRefs`.  None of the three is
inductive, and they need each other.  `PicturesInv` (`PicturesInvariance`) adds to `IInv`:

- `PicturesShared` - the count of a reconstructed picture is the number of contexts
  that use it.  A call lets one context take over the pictures of another, so what the
  younger contexts refer to, an older one refers to or has been filled since.  When no
  buffer is free, every buffer is a reference of the second oldest context or filled by
  one of the others, so there are never more than `Threads + NumRefs`, and the free list
  fits its array.
- `SourcesCounted` - the same of the source pictures, as long as no job has failed; the
  list of free ones is as long as the pipe leaves room for, whether jobs fail or not.
- `JobsRun` - how far a job is, by where its context is in the pool: a context in `run`
  has not begun, one in `done` has all its rows or has failed.
- `PicturesNumbered` - which picture is in which buffer: those in use are different,
  and the references of a picture are the ones before it without a gap, back to the
  last IDR picture at most.
- `LinesFinal` - published lines are 16 behind the final ones, so a job that has
  waited finds what it needs, and a job that has coded its last row has seen all its
  references finished.  Hence a picture that is predicted from a failed one is never
  finished either.
- `DecoderKeeps` - a reference that has come out, with all its lines and so have those
  after it, is where the decoder's order has it.

That the buffer a call fills is nobody's reference (`HoldsFilled`), that counts are raised
and lowered along whole lists (`HeldEach`, `ReleasedEach`) and that every other step is
calm (`CalmSteps`: it renames contexts but moves no picture) are the lemmas that carry most.
The model gives the result of the loops over such a list as one function of the list,
so no induction is needed.

`SoftEncoderProofs` proves, for any threads, depth and bounds: `TypeCorrect`,
`NativeSafeAlways`, `CrashOnlyStoppingAlways` and `SessionOutputAlways`.
`NativeSafe` needs to know who there is: only the thread in the field `worker` is
alive (`OneWorker`), the main thread is at its places of opening and closing only without
it (`MainInv`), a worker has an open encoder whose frames fit (`EncoderInv`), and
without the button the encoder is closed (`ButtonInv`).  `SessionOutput` needs a
second invariant, `OrderInv`: the numbers inside the encoder are the last it got
(`PipeInv`), what came out is a beginning of what went in (`OutInv`), and along the
queue, the hand and the encoder the numbers grow (`NumberInv`).  `StaleAtMostOneAlways`
needs a third, `AgeInv`: while `disableEncoding` clears the queue the drawing thread
may hold one picture that it has tested `mIsEncoding` for, and none can be taken up
before the flag is set again (`ClearedInv`); when the next encoder is opened the
hand and the encoder are empty, so whatever is older than that session is this one
picture, wherever it is by now (`StaleInv`).  By `NumberInv` two pictures in two
places have two numbers, which makes "one picture" a statement about places.

The proofs assume the constants' assumptions of each module and, in
`StoppedIsClosedAlways`, a single start.  Model-checked only are:

- liveness (`StopEndsSound`, `InviteAnswered`, `AcceptConnects`, `FramesLeave`,
  `StreamingStopReturns`, `CallsReturn`, `StopEnds`), which the prover cannot reach;
- `LeftIsTold`, which speaks of both phones at once when nothing is in
  flight, and needs an account of every message on its way;
- the findings, which are single behaviours.

## 5. Not modelled

- *Codec arithmetic.*  Nearly all of `cpp/` is libyuv and the inner parts of
  libx264: pixel conversion, transforms, motion search, entropy coding, rate
  control, each in several versions for different processors.  They are pure
  functions of one thread's data, and what they compute is far out of a model
  checker's reach.  The models cover what coordinates them, which is a small
  part of the lines.
- *libx264 beyond the configuration `libenc.cc` opens*: B pictures, the lookahead
  thread, sliced threads, interlacing, two-pass coding.  The app never enables them.
- *Offers, answers and candidates of calls and meetings.*  What may happen is decided by
  the order of WebRTC's callbacks, which the repository does not contain; `Call` has
  the steps on both sides of them.  Meetings use the same exchange for every member.
- *Reconnecting* of `DWebSocket`, and the chat socket with its heart beats.  In `Call`
  the connection stays open; a message sent on a closed one would throw on the
  executor, which is listed as a hazard.
- *The way of a call's screen apart from its call*: the back key, the floating
  window, a look-up of the caller that is answered when another call has begun, and
  `MainActivity`, which makes the current session `Idle` when it is created
  (`MainActivity.java:156`).  A screen that has begun to finish takes no more clicks.
- *Switching a call to audio, the camera of a call, pausing a stream, the hard
  encoder, the sound encoder.*  They do not take part in the protocols above.
- *`SrsAllocator`*: one object under one lock.  `allocate` compares the size asked for
  with the bytes used, which are 0 in whatever was released, so nothing is ever
  reused: a cost, and no wrong result.
- *The MP4 recorder*: the push screens never record.
- *A second push screen.*  `libenc.cc` would open a second encoder in the same
  static variables; `SoftEncoder` has one screen.

What would be worth proving next: `LeftIsTold` for any users, with
`SetupInv` and `RingInv` as a start.
