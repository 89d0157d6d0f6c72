------------------------------ MODULE FlvMuxer ------------------------------
(***************************************************************************)
(* The live publisher of the push screen: SrsPublisher, the encoding       *)
(* threads of SrsEncoder, and SrsFlvMuxer, over the connection of          *)
(* RtmpConnection.                                                         *)
(*                                                                         *)
(* The main thread starts and stops (the button of PushActivity, and       *)
(* onDestroy).  The encoding threads, one for each track, put frames into  *)
(* mFlvTagCache; the worker of the muxer connects, takes frames out and    *)
(* sends them.  stop joins the encoding threads and the worker, and leaves *)
(* the connection to a new thread that closes it while the user may        *)
(* already have started again.                                             *)
(*                                                                         *)
(* Streams are numbered by the starts, and a stream makes the connection   *)
(* with its number.  A frame keeps the number of its stream, and           *)
(* delivered the streams whose frames reached a connection: history for    *)
(* the properties, as are starts and taken, which are also bounds.  Both   *)
(* encoders start, the url is well formed, and a frame that is encoded     *)
(* yields one sample.  Recording, pausing and switching the camera are     *)
(* left out: the push screen does not use the first two.                   *)
(***************************************************************************)
EXTENDS RtmpConnection

CONSTANTS
  Track,     \* a subset of {"video", "audio"}: the tracks that are encoded
  VGOP,      \* the frames of a group of pictures, 48 in the code
  MaxStops,  \* bound: the calls of stop, by the button and by onDestroy
  MaxFrames  \* bound: the samples encoded in one stream

ASSUME MuxerAssumption ==
  /\ Track \subseteq {"video", "audio"}
  /\ VGOP \in Nat
  /\ MaxStops \in Nat
  /\ MaxFrames \in Nat

VARIABLES
  started,
  worker,     \* where the worker is, "none" when the field is null
  hand,       \* the frame it has taken out of the cache
  mFlvTagCache,
  headers,    \* the tracks whose sequence header field is not null
  got,        \* the tracks with h264_sps_pps_sent, aac_specific_config_got
  needToFindKeyFrame,
  enc,        \* the encoding threads
  main,       \* where the main thread is in stopPublish
  pushing,    \* the button says stop
  destroyed,  \* onDestroy has been called
  starts, stops, \* the calls of start and the threads made by stop
  taken,      \* samples encoded in this stream
  delivered   \* pairs of a connection and a stream

muxer == <<started, worker, hand, mFlvTagCache, headers, got,
           needToFindKeyFrame, enc, main, pushing, destroyed, starts, stops,
           taken, delivered>>
vars == <<conn, muxer>>

Frame   == [stream : Conn, track : Track, header : BOOLEAN]
NoFrame == [stream |-> 0, track |-> "none", header |-> FALSE]
Looping == {"loop", "poll", "take", "send", "park", "wait"}

TypeOK ==
  /\ ConnTypeOK
  /\ started \in BOOLEAN
  /\ worker \in {"none", "new", "connect", "ended"} \cup Looping
  /\ hand \in Frame \cup {NoFrame}
  /\ mFlvTagCache \in Seq(Frame)
  /\ headers \subseteq Track
  /\ got \subseteq Track
  /\ needToFindKeyFrame \in BOOLEAN
  /\ enc \in [Track -> [at : {"off", "idle", "add", "added"},
                        frame : Frame \cup {NoFrame}]]
  /\ main \in {"idle", "stopEncode", "join"}
  /\ pushing \in BOOLEAN
  /\ destroyed \in BOOLEAN
  /\ starts \in 0 .. MaxStarts
  /\ stops \in 0 .. MaxStarts + 1
  /\ taken \in 0 .. MaxFrames
  /\ delivered \subseteq (Conn \cup {0}) \X Conn

Off  == [at |-> "off", frame |-> NoFrame]
Idle == [at |-> "idle", frame |-> NoFrame]

Init ==
  /\ ConnInit
  /\ started = FALSE
  /\ worker = "none"
  /\ hand = NoFrame
  /\ mFlvTagCache = <<>>
  /\ headers = {}
  /\ got = {}
  /\ needToFindKeyFrame = TRUE
  /\ enc = [t \in Track |-> Off]
  /\ main = "idle"
  /\ pushing = FALSE
  /\ destroyed = FALSE
  /\ starts = 0
  /\ stops = 0
  /\ taken = 0
  /\ delivered = {}

\* A step of RtmpConnection alone; after a crash there are no more.
OnConnection(A) == ~crashed /\ A /\ UNCHANGED muxer

\* The variables of the connection a step of the worker's loop leaves alone.
connButCounter ==
  <<call, down, newest, socket, session, rxPacketHandler, out, connected,
    publishPermitted, currentStreamId, tcp, rx, reads, rxInterrupted, asked>>

-----------------------------------------------------------------------------
(* The main thread.                                                        *)

\* startPublish: a new worker and, with startEncode, the encoding threads.
StartPublish ==
  /\ ~crashed
  /\ main = "idle"
  /\ ~pushing
  /\ ~destroyed
  /\ starts < MaxStarts
  /\ pushing' = TRUE
  /\ started' = TRUE
  /\ worker' = "new"
  /\ interrupted' = FALSE
  /\ enc' = [t \in Track |-> Idle]
  /\ starts' = starts + 1
  /\ taken' = 0
  /\ UNCHANGED <<connButCounter, videoFrameCacheNumber, crashed, hand,
                 mFlvTagCache, headers, got, needToFindKeyFrame, main,
                 destroyed, stops, delivered>>

\* Variant for mutation: onDestroy may come again.
StopPublishAgain ==
  /\ ~crashed
  /\ main = "idle"
  /\ stops < MaxStops
  /\ pushing \/ stops > 0
  /\ pushing' = FALSE
  /\ main' = "stopEncode"
  /\ UNCHANGED <<conn, started, worker, hand, mFlvTagCache, headers, got,
                 needToFindKeyFrame, enc, destroyed, starts, stops, taken,
                 delivered>>

\* stopPublish, by the button or by onDestroy: stopEncode interrupts the
\* encoding threads and joins them.
StopPublish ==
  /\ ~crashed
  /\ main = "idle"
  /\ stops < MaxStops
  /\ \/ pushing /\ UNCHANGED destroyed
     \/ ~destroyed /\ destroyed' = TRUE
  /\ pushing' = FALSE
  /\ main' = "stopEncode"
  /\ UNCHANGED <<conn, started, worker, hand, mFlvTagCache, headers, got,
                 needToFindKeyFrame, enc, starts, stops, taken, delivered>>

\* Variant for mutation: the encoding threads are interrupted, not joined.
EncodersInterrupted == TRUE

\* stopAudio and stopCamera join the encoding threads.
EncodersDone == \A t \in Track : enc[t].at \in {"off", "idle"}

\* SrsFlvMuxer.stop up to the join of the worker.
StopMuxer ==
  /\ ~crashed
  /\ main = "stopEncode"
  /\ EncodersDone
  /\ enc' = [t \in Track |-> IF enc[t].at = "idle" THEN Off ELSE enc[t]]
  /\ started' = FALSE
  /\ mFlvTagCache' = <<>>
  /\ interrupted' = (worker \notin {"none", "ended"})
  /\ main' = "join"
  /\ UNCHANGED <<connButCounter, videoFrameCacheNumber, crashed, worker, hand,
                 headers, got, needToFindKeyFrame, pushing, destroyed, starts,
                 stops, taken, delivered>>

\* The rest of stop, once the worker has ended: a thread is to disconnect.
StopReturns ==
  /\ ~crashed
  /\ main = "join"
  /\ worker \in {"none", "ended"}
  /\ worker' = "none"
  /\ got' = {}
  /\ needToFindKeyFrame' = TRUE
  /\ stops' = stops + 1
  /\ Goto(stops + 1, "stream")
  /\ main' = "idle"
  /\ UNCHANGED <<call, interrupted, newest, socket, session, rxPacketHandler,
                 out, connected, publishPermitted, currentStreamId,
                 videoFrameCacheNumber, tcp, rx, reads, rxInterrupted, asked,
                 crashed, started, hand, mFlvTagCache, headers, enc, pushing,
                 destroyed, starts, taken, delivered>>

-----------------------------------------------------------------------------
(* disconnect, on the thread of stop k.                                    *)

Closing(k) ==
  \/ OnConnection(CloseStream(k))
  \/ OnConnection(ShutSocket(k))
  \/ OnConnection(JoinReceiver(k))
  \/ OnConnection(CloseSocket(k))
  \/ OnConnection(Reset(k))

\* The sequence headers are cleared when close has returned.
Disconnected(k) ==
  /\ ~crashed
  /\ down[k].at = "done"
  /\ Goto(k, "none")
  /\ headers' = {}
  /\ UNCHANGED <<call, interrupted, newest, socket, session, rxPacketHandler,
                 out, connected, publishPermitted, currentStreamId,
                 videoFrameCacheNumber, tcp, rx, reads, rxInterrupted, asked,
                 crashed, started, worker, hand, mFlvTagCache, got,
                 needToFindKeyFrame, enc, main, pushing, destroyed, starts,
                 stops, taken, delivered>>

-----------------------------------------------------------------------------
(* The encoding threads.                                                   *)

Sample(t) == IF t = "video" THEN {"config", "key", "inter"} ELSE {"raw"}

\* writeVideoSample writes the sequence header when the parameter sets have
\* changed, which is once in a stream, and pictures only after it;
\* writeAudioSample writes the first sample as the sequence header.
Writes(t, s) == t = "audio" \/ ((s = "config") <=> (t \notin got))

\* writeRtmpPacket drops pictures until it has seen a key frame; a sequence
\* header counts as one.
Passes(t, s) == t = "audio" \/ ~needToFindKeyFrame \/ s # "inter"

\* A picture or a piece of sound reaches the encoder and, by the number of
\* video frames waiting, is dropped or encoded; flvTagCacheAdd up to the test
\* of started.
Encode(t) ==
  /\ ~crashed
  /\ enc[t].at = "idle"
  /\ videoFrameCacheNumber < VGOP
  /\ taken < MaxFrames
  /\ taken' = taken + 1
  /\ \E s \in Sample(t) :
       LET f == [stream |-> starts, track |-> t, header |-> t \notin got]
       IN  /\ got' = IF Writes(t, s) THEN got \cup {t} ELSE got
           /\ needToFindKeyFrame' =
                (needToFindKeyFrame /\ ~(t = "video" /\ Writes(t, s)
                                           /\ Passes(t, s)))
           /\ enc' = IF Writes(t, s) /\ Passes(t, s) /\ started
                       THEN [enc EXCEPT ![t] = [at |-> "add", frame |-> f]]
                       ELSE enc
  /\ UNCHANGED <<conn, started, worker, hand, mFlvTagCache, headers, main,
                 pushing, destroyed, starts, stops, delivered>>

\* mFlvTagCache.add
AddFrame(t) ==
  /\ ~crashed
  /\ enc[t].at = "add"
  /\ mFlvTagCache' = Append(mFlvTagCache, enc[t].frame)
  /\ enc' = [enc EXCEPT ![t].at = "added"]
  /\ UNCHANGED <<conn, started, worker, hand, headers, got,
                 needToFindKeyFrame, main, pushing, destroyed, starts, stops,
                 taken, delivered>>

\* Variant for mutation: every frame is counted.
FrameAddedAny(t) ==
  /\ ~crashed
  /\ enc[t].at = "added"
  /\ enc' = [enc EXCEPT ![t] = Idle]
  /\ videoFrameCacheNumber' = videoFrameCacheNumber + 1
  /\ worker' = IF worker = "wait" THEN "loop" ELSE worker
  /\ UNCHANGED <<connButCounter, interrupted, crashed, started, hand,
                 mFlvTagCache, headers, got, needToFindKeyFrame, main,
                 pushing, destroyed, starts, stops, taken, delivered>>

\* A video frame is counted after it was added; the worker is woken.
FrameAdded(t) ==
  /\ ~crashed
  /\ enc[t].at = "added"
  /\ enc' = [enc EXCEPT ![t] = Idle]
  /\ videoFrameCacheNumber' =
       videoFrameCacheNumber + (IF t = "video" THEN 1 ELSE 0)
  /\ worker' = IF worker = "wait" THEN "loop" ELSE worker
  /\ UNCHANGED <<connButCounter, interrupted, crashed, started, hand,
                 mFlvTagCache, headers, got, needToFindKeyFrame, main,
                 pushing, destroyed, starts, stops, taken, delivered>>

-----------------------------------------------------------------------------
(* The worker.                                                             *)

WorkerConnects ==
  /\ ~crashed
  /\ worker = "new"
  /\ worker' = "connect"
  /\ BeginConnect(starts)
  /\ UNCHANGED <<started, hand, mFlvTagCache, headers, got,
                 needToFindKeyFrame, enc, main, pushing, destroyed, starts,
                 stops, taken, delivered>>

\* A step of RtmpConnection.connect or publish.
Connecting ==
  \/ OnConnection(Handshake)
  \/ OnConnection(HandshakeFails)
  \/ OnConnection(RtmpConnect)
  \/ OnConnection(WaitEnds)
  \/ OnConnection(ConnectDone)
  \/ OnConnection(CreateStream)
  \/ OnConnection(PublishDone)
  \/ OnConnection(ShutSocket(0))
  \/ OnConnection(JoinReceiver(0))
  \/ OnConnection(CloseSocket(0))
  \/ OnConnection(Reset(0))

\* SrsFlvMuxer.connect returns.
WorkerConnected ==
  /\ ~crashed
  /\ worker = "connect"
  /\ call \in {"ok", "failed"}
  /\ worker' = IF call = "ok" THEN "loop" ELSE "ended"
  /\ call' = "none"
  /\ headers' = {}
  /\ UNCHANGED <<interrupted, down, newest, socket, session, rxPacketHandler,
                 out, connected, publishPermitted, currentStreamId,
                 videoFrameCacheNumber, tcp, rx, reads, rxInterrupted, asked,
                 crashed, started, hand, mFlvTagCache, got,
                 needToFindKeyFrame, enc, main, pushing, destroyed, starts,
                 stops, taken, delivered>>

\* A step of the worker that changes only where it is.
Moves(from, to) ==
  /\ ~crashed
  /\ worker = from
  /\ worker' = to
  /\ UNCHANGED <<connButCounter, videoFrameCacheNumber, crashed, started,
                 hand, mFlvTagCache, headers, got, needToFindKeyFrame, enc,
                 main, pushing, destroyed, starts, stops, taken, delivered>>

\* while (!Thread.interrupted())
LoopTest ==
  /\ Moves("loop", IF interrupted THEN "ended" ELSE "poll")
  /\ interrupted' = FALSE

\* while (!mFlvTagCache.isEmpty())
CacheTest ==
  /\ Moves("poll", IF mFlvTagCache = <<>> THEN "park" ELSE "take")
  /\ UNCHANGED interrupted

\* poll, and the first use of what it returned: null when the cache has been
\* cleared since it was tested.
TakeFrame ==
  /\ ~crashed
  /\ worker = "take"
  /\ \/ mFlvTagCache = <<>> /\ Crash /\ UNCHANGED muxer
     \/ /\ mFlvTagCache # <<>>
        /\ hand' = Head(mFlvTagCache)
        /\ mFlvTagCache' = Tail(mFlvTagCache)
        /\ worker' = "send"
        /\ UNCHANGED <<conn, started, headers, got, needToFindKeyFrame, enc,
                       main, pushing, destroyed, starts, stops, taken,
                       delivered>>

\* A frame is sent when it is a sequence header or there has been one;
\* publishVideoData counts it off when the connection takes it.
SendFrame ==
  LET published == (hand.header \/ hand.track \in headers) /\ MayPublish
  IN  /\ ~crashed
      /\ worker = "send"
      /\ headers' = IF hand.header THEN headers \cup {hand.track}
                                   ELSE headers
      /\ delivered' = IF published /\ tcp[out] = "open"
                        THEN delivered \cup {<<out, hand.stream>>}
                        ELSE delivered
      /\ videoFrameCacheNumber' =
           videoFrameCacheNumber
             - (IF published /\ hand.track = "video" THEN 1 ELSE 0)
      /\ hand' = NoFrame
      /\ worker' = "poll"
      /\ UNCHANGED <<connButCounter, interrupted, crashed, started,
                     mFlvTagCache, got, needToFindKeyFrame, enc, main,
                     pushing, destroyed, starts, stops, taken>>

\* txFrameLock.wait(500) begins.
Park == Moves("park", "wait") /\ UNCHANGED interrupted

\* Variant for mutation: the wait has no timeout.
WaitOverNoTimeout ==
  Moves("wait", "loop") /\ interrupted /\ UNCHANGED interrupted

\* Variant for mutation: the worker does not interrupt itself again.
WaitOverSwallows == Moves("wait", "loop") /\ interrupted' = FALSE

\* It ends after the time, or by an InterruptedException after which the
\* worker interrupts itself.
WaitOver == Moves("wait", "loop") /\ UNCHANGED interrupted

-----------------------------------------------------------------------------
Receiving(c) ==
  \/ OnConnection(ReceiveConnected(c))
  \/ OnConnection(ReceiveCreated(c))
  \/ OnConnection(ReceiveStarted(c))
  \/ OnConnection(ReceiveOther(c))
  \/ OnConnection(ReceiverEnds(c))
  \/ OnConnection(Lose(c))

Worker == WorkerConnects \/ Connecting \/ WorkerConnected \/ LoopTest
            \/ CacheTest \/ TakeFrame \/ SendFrame \/ Park \/ WaitOver

Next ==
  \/ StartPublish
  \/ StopPublish
  \/ StopMuxer
  \/ StopReturns
  \/ \E k \in Closer : Closing(k) \/ Disconnected(k)
  \/ \E t \in Track : Encode(t) \/ AddFrame(t) \/ FrameAdded(t)
  \/ Worker
  \/ \E c \in Conn : Receiving(c)

\* The threads run; nobody has to press a button, a server may keep silent
\* and a connection need not break.  A write to a socket is taken to end.
Fairness ==
  /\ WF_vars(Worker)
  /\ WF_vars(StopMuxer \/ StopReturns)
  /\ \A k \in Closer : WF_vars(Closing(k) \/ Disconnected(k))
  /\ \A t \in Track : WF_vars(AddFrame(t) \/ FrameAdded(t))
  /\ \A c \in Conn : WF_vars(OnConnection(ReceiverEnds(c)))

Spec == Init /\ [][Next]_vars /\ Fairness

-----------------------------------------------------------------------------
(* Properties.                                                             *)

\* No frame of one stream is sent in another: what reaches connection n was
\* encoded in stream n, though the cache, its guard started, the headers and
\* every field of the connection outlive the stream (SrsPublisher 187-192,
\* SrsFlvMuxer 175-189).
NoStaleFrame == \A d \in delivered : d[1] = d[2]

\* "We can now publish AV data" (RtmpConnection 620, handleRxInvoke): a frame
\* reaches a connection only when its own server has answered
\* NetStream.Publish.Start, though publishPermitted is set by the threads of
\* all connections.
PublishAfterStart ==
  \A d \in delivered : asked[d[1]] \in {"started", "closed"}

\* In the first stream the counter the encoders are throttled by is the
\* number of video frames waiting, but for a frame that was added and is yet
\* to be counted (SrsFlvMuxer 982-987, RtmpConnection 428-449).
VideoIn(s) == {i \in DOMAIN s : s[i].track = "video"}
VideoWaiting ==
  Cardinality(VideoIn(mFlvTagCache)) + (IF hand.track = "video" THEN 1 ELSE 0)
Uncounted == IF "video" \in Track /\ enc["video"].at = "added" THEN 1 ELSE 0
CacheNumber ==
  starts = 1 /\ started /\ worker \in Looping =>
    videoFrameCacheNumber = VideoWaiting - Uncounted

\* A frame in the cache of a worker that is in its loop is taken out, or
\* cleared away by a stop, even when the worker tested the cache just before
\* the frame came and the notification found nobody waiting (SrsFlvMuxer
\* 138-164, 982-991).
FramesLeave ==
  (worker \in Looping /\ mFlvTagCache # <<>>)
    ~> (mFlvTagCache = <<>> \/ crashed)

\* stop returns when the worker was in its loop with the interrupt pending,
\* wherever it was interrupted (SrsFlvMuxer 138-164, 178-187).
StreamingStopReturns ==
  (main = "join" /\ worker \in Looping /\ interrupted)
    ~> (main # "join" \/ crashed)

\* stop returns and does not block the main thread for ever (SrsFlvMuxer
\* 178-197; the comment at 191).
StopEnds == main = "join" ~> (main # "join" \/ crashed)

\* When the user has stopped and every thread of a stop is through, no
\* connection is open (SrsFlvMuxer 172-174).
Quiet == main = "idle" /\ ~pushing /\ worker = "none"
           /\ \A k \in Caller : down[k].at = "none"
StoppedIsClosed ==
  Quiet => \A c \in Conn : tcp[c] \notin {"connecting", "open"}

-----------------------------------------------------------------------------
(* The inductive invariant behind NoStaleFrame.                            *)

\* Every call of connect is made for the stream of the worker, and the
\* output stream is the one of its connection once the handshake is done.
WorkerInv ==
  /\ worker \in {"new", "connect"} \cup Looping => starts # 0
  /\ worker = "connect" => newest = starts
  /\ worker \in Looping => out = starts
  /\ call # "none" => worker = "connect"
  /\ call \notin {"none", "handshake", "closing", "failed"} => out = newest
  /\ down[0].at # "none" => call = "closing"

\* Every frame that exists belongs to the present stream.
FrameInv ==
  /\ hand # NoFrame => worker = "send" /\ hand.stream = starts
  /\ worker = "send" => hand # NoFrame
  /\ \A i \in DOMAIN mFlvTagCache : mFlvTagCache[i].stream = starts
  /\ \A t \in Track : enc[t].at # "off" => starts # 0
  /\ \A t \in Track : enc[t].at \in {"add", "added"} =>
                        enc[t].frame \in Frame /\ enc[t].frame.stream = starts

\* Between two streams there is no frame and no thread to make or send one.
StoppedInv ==
  /\ main # "idle" => ~pushing
  /\ main = "idle" /\ ~pushing => worker = "none"
  /\ main = "join" \/ (main = "idle" /\ ~pushing) =>
       /\ mFlvTagCache = <<>>
       /\ \A t \in Track : enc[t].at = "off"

\* Every stop answers a start or is that of onDestroy.
One(b) == IF b THEN 1 ELSE 0
StopsInv ==
  stops + One(main # "idle") + One(pushing) <= starts + One(destroyed)

\* The inductive invariant: the type of every variable, which streams the
\* worker, the frames and the connection belong to, and NoStaleFrame
\* (SrsPublisher 173-192, SrsFlvMuxer 129-198).
IInv == TypeOK /\ WorkerInv /\ FrameInv /\ StoppedInv /\ StopsInv
          /\ NoStaleFrame
=============================================================================
