--------------------------- MODULE FlvMuxerProofs ---------------------------
(***************************************************************************)
(* Proofs about FlvMuxer, for any number of starts, any tracks and any     *)
(* bounds: IInv is inductive, so the types hold and no frame of one stream *)
(* is sent in another.  From it, what holds of the first stream only: the  *)
(* counter of the cache is right (FirstInv), and no connection is left     *)
(* open (ClosedInv).                                                       *)
(***************************************************************************)
EXTENDS FlvMuxer, TLAPS, FiniteSetTheorems, SequenceTheorems

\* The worker is one of the callers of the connection.
LEMMA ZeroCalls == 0 \in Caller
  BY MaxStartsAssumption DEF Caller

\* What Goto does.
LEMMA GotoMoves ==
  ASSUME down \in [Caller -> Down], NEW t \in Caller,
         NEW where \in {"none", "stream", "shut", "close", "reset", "done"},
         Goto(t, where)
  PROVE  /\ down' \in [Caller -> Down]
         /\ down'[t].at = where
         /\ \A u \in Caller : u # t => down'[u] = down[u]
  BY DEF Goto, Down

\* What the servers have been told stays of its type.
LEMMA SentType ==
  ASSUME NEW a \in [Conn -> Asked], NEW what \in Asked
  PROVE  Sent(a, what) \in [Conn -> Asked]
  BY DEF Sent

\* The initial state satisfies the invariant.
LEMMA InitInv == Init => IInv
<1> SUFFICES ASSUME Init PROVE IInv
  OBVIOUS
<1>1. /\ down \in [Caller -> Down]
      /\ 0 \in Caller /\ down[0].at = "none"
  BY MaxStartsAssumption DEF Init, ConnInit, Caller, Down
<1>a. tcp \in [Conn -> Tcp] /\ asked \in [Conn -> Asked]
        /\ reads \in [Conn -> Conn \cup {0}]
  BY DEF Init, ConnInit, Tcp, Asked
<1>b. rx \in [Conn -> {"none", "run", "ended"}]
        /\ rxInterrupted \in [Conn -> BOOLEAN]
  BY DEF Init, ConnInit
<1>2. ConnTypeOK
  <2>1. call = "none" /\ crashed = FALSE /\ interrupted = FALSE
          /\ connected = FALSE /\ publishPermitted = FALSE
    BY DEF Init, ConnInit
  <2>2. {newest, socket, session, rxPacketHandler, out, currentStreamId}
          \subseteq Conn \cup {0} /\ videoFrameCacheNumber \in Int
    BY DEF Init, ConnInit
  <2> QED
    BY <1>1, <1>a, <1>b, <2>1, <2>2, Zenon DEF ConnTypeOK
<1>3. enc \in [Track -> [at : {"off", "idle", "add", "added"},
                        frame : Frame \cup {NoFrame}]]
  BY DEF Init, Off
<1>7. mFlvTagCache \in Seq(Frame) /\ delivered = {} /\ main = "idle"
        /\ worker = "none" /\ hand = NoFrame
  BY DEF Init
<1>8. starts = 0 /\ stops = 0 /\ taken = 0
        /\ 0 \in 0 .. MaxStarts /\ 0 \in 0 .. MaxStarts + 1
        /\ 0 \in 0 .. MaxFrames
  BY MaxStartsAssumption, MuxerAssumption DEF Init
<1>9. TypeOK
  BY <1>2, <1>3, <1>7, <1>8 DEF Init, TypeOK
<1>10. WorkerInv
  BY <1>1, <1>7 DEF Init, ConnInit, WorkerInv, Looping
<1>4. FrameInv /\ StoppedInv
  BY DEF Init, FrameInv, StoppedInv, Off
<1>5. StopsInv
  BY DEF Init, StopsInv, One
<1>6. NoStaleFrame
  BY DEF Init, NoStaleFrame
<1> QED
  BY <1>9, <1>10, <1>4, <1>5, <1>6 DEF IInv

-----------------------------------------------------------------------------
(* Steps of RtmpConnection.                                                *)

\* What a step of the connection alone has to keep.
LEMMA ConnStep ==
  ASSUME IInv, UNCHANGED muxer, ConnTypeOK', WorkerInv'
  PROVE  IInv'
<1>1. TypeOK'
  BY DEF IInv, TypeOK, muxer
<1>2. FrameInv' /\ StoppedInv'
  BY DEF IInv, FrameInv, StoppedInv, muxer
<1>3. StopsInv' /\ NoStaleFrame'
  BY DEF IInv, StopsInv, NoStaleFrame, muxer
<1> QED
  BY <1>1, <1>2, <1>3 DEF IInv

\* A crash changes nothing else.
LEMMA CrashInv ==
  ASSUME IInv, UNCHANGED muxer, Crash
  PROVE  IInv'
<1>1. ConnTypeOK'
  BY DEF IInv, TypeOK, ConnTypeOK, Crash
<1>2. WorkerInv'
  BY DEF IInv, WorkerInv, Crash, muxer
<1> QED
  BY <1>1, <1>2, ConnStep

\* Steps of connect and publish before the worker has to shut down.
LEMMA ConnectingInv ==
  ASSUME IInv, UNCHANGED muxer,
         \/ Handshake \/ HandshakeFails \/ RtmpConnect \/ WaitEnds
         \/ ConnectDone \/ CreateStream \/ PublishDone
  PROVE  IInv'
<1> USE DEF IInv, TypeOK
<1>w. call # "none" => worker = "connect" /\ newest = starts
  BY DEF WorkerInv
<1>n. worker = "connect" => newest \in Conn
  BY MaxStartsAssumption DEF WorkerInv, Conn
<1>1. CASE Handshake
  <2>1. CASE Crash
    BY <2>1, CrashInv
  <2>2. CASE ~Crash
    <3>a. tcp' \in [Conn -> Tcp]
      BY <1>1, <2>2 DEF ConnTypeOK, Handshake, Tcp
    <3>b. rx' \in [Conn -> {"none", "run", "ended"}]
      BY <1>1, <2>2 DEF ConnTypeOK, Handshake
    <3>c. reads' \in [Conn -> Conn \cup {0}]
      <4>1. reads' = [reads EXCEPT ![newest] = newest]
        BY <1>1, <2>2, Zenon DEF Handshake
      <4>2. reads \in [Conn -> Conn \cup {0}] /\ newest \in Conn \cup {0}
        BY DEF ConnTypeOK
      <4> QED
        BY <4>1, <4>2
    <3>1. ConnTypeOK'
      BY <1>1, <2>2, <1>w, <1>n, <3>a, <3>b, <3>c DEF ConnTypeOK, Handshake
    <3>2. WorkerInv'
      BY <1>1, <2>2, <1>w DEF WorkerInv, Handshake, muxer, Looping
    <3> QED
      BY <3>1, <3>2, ConnStep
  <2> QED
    BY <2>1, <2>2
<1>2. CASE HandshakeFails
  <2>a. tcp' \in [Conn -> Tcp]
    BY <1>2 DEF ConnTypeOK, HandshakeFails, Tcp
  <2>1. ConnTypeOK'
    BY <1>2, <1>w, <1>n, <2>a DEF ConnTypeOK, HandshakeFails
  <2>2. WorkerInv'
    BY <1>2, <1>w DEF WorkerInv, HandshakeFails, muxer, Looping
  <2> QED
    BY <2>1, <2>2, ConnStep
<1>3. CASE RtmpConnect
  <2>1. CASE Crash
    BY <2>1, CrashInv
  <2>2. CASE ~Crash
    <3>a. asked' \in [Conn -> Asked]
      BY <1>3, <2>2, SentType DEF ConnTypeOK, RtmpConnect, Asked
    <3>1. ConnTypeOK'
      BY <1>3, <2>2, <3>a DEF ConnTypeOK, RtmpConnect
    <3>2. WorkerInv'
      BY <1>3, <2>2, <1>w DEF WorkerInv, RtmpConnect, muxer
    <3> QED
      BY <3>1, <3>2, ConnStep
  <2> QED
    BY <2>1, <2>2
<1>4. CASE WaitEnds
  <2>1. ConnTypeOK'
    BY <1>4 DEF ConnTypeOK, WaitEnds
  <2>2. WorkerInv'
    BY <1>4, <1>w DEF WorkerInv, WaitEnds, muxer
  <2> QED
    BY <2>1, <2>2, ConnStep
<1>5. ASSUME NEW where \in {"connectDone", "publishDone"}, NEW done \in BOOLEAN,
             NEW next \in {"createStream", "ok"}, AfterWait(where, done, next)
      PROVE  IInv'
  <2>a. down' \in [Caller -> Down]
    BY <1>5, ZeroCalls DEF ConnTypeOK, AfterWait, Down
  <2>b. call' = next \/ call' = "closing"
    BY <1>5 DEF AfterWait
  <2>1. ConnTypeOK'
    BY <1>5, <2>a, <2>b DEF ConnTypeOK, AfterWait
  <2>2. WorkerInv'
    BY <1>5, <1>w DEF WorkerInv, AfterWait, muxer, ConnTypeOK, Caller
  <2> QED
    BY <2>1, <2>2, ConnStep
<1>6. CASE ConnectDone
  BY <1>5, <1>6 DEF ConnectDone, ConnTypeOK
<1>7. CASE PublishDone
  BY <1>5, <1>7 DEF PublishDone, ConnTypeOK
<1>8. CASE CreateStream
  <2>a. asked' \in [Conn -> Asked]
    BY <1>8, SentType DEF ConnTypeOK, CreateStream, Asked
  <2>1. ConnTypeOK'
    BY <1>8, <2>a DEF ConnTypeOK, CreateStream
  <2>2. WorkerInv'
    BY <1>8, <1>w DEF WorkerInv, CreateStream, muxer
  <2> QED
    BY <2>1, <2>2, ConnStep
<1> QED
  BY <1>1, <1>2, <1>3, <1>4, <1>6, <1>7, <1>8

\* Steps of close and shutdown, of the worker and of the threads of a stop.
LEMMA ClosingInv ==
  ASSUME IInv, UNCHANGED muxer, NEW t \in Caller,
         \/ t # 0 /\ CloseStream(t)
         \/ ShutSocket(t) \/ JoinReceiver(t) \/ CloseSocket(t) \/ Reset(t)
  PROVE  IInv'
<1> USE DEF IInv, TypeOK
<1>1. CASE t # 0 /\ CloseStream(t)
  <2>a. asked' \in [Conn -> Asked]
    BY <1>1, SentType DEF ConnTypeOK, CloseStream, Asked
  <2>b. down' \in [Caller -> Down] /\ down'[0] = down[0]
    BY <1>1, GotoMoves, ZeroCalls DEF ConnTypeOK, CloseStream
  <2>1. ConnTypeOK'
    BY <1>1, <2>a, <2>b DEF ConnTypeOK, CloseStream
  <2>2. WorkerInv'
    BY <1>1, <2>b DEF WorkerInv, CloseStream, muxer
  <2> QED
    BY <2>1, <2>2, ConnStep
<1>2. CASE ShutSocket(t)
  <2>b. \/ Goto(t, "reset") \/ Goto(t, "close")
        \/ /\ rxPacketHandler # 0
           /\ down' = [down EXCEPT
                         ![t] = [at |-> "join", rx |-> rxPacketHandler]]
    BY <1>2 DEF ShutSocket
  <2>a. rxPacketHandler \in Conn \cup {0} /\ down \in [Caller -> Down]
    BY DEF ConnTypeOK
  <2>c. ASSUME down' = [down EXCEPT
                         ![t] = [at |-> "join", rx |-> rxPacketHandler]]
        PROVE  /\ down' \in [Caller -> Down]
               /\ \A u \in Caller : u # t => down'[u] = down[u]
    BY <2>a, <2>c DEF Down
  <2>1. down' \in [Caller -> Down]
          /\ \A u \in Caller : u # t => down'[u] = down[u]
    BY <2>a, <2>b, <2>c, GotoMoves
  <2>2. tcp' \in [Conn -> Tcp]
    BY <1>2 DEF ConnTypeOK, ShutSocket, Tcp
  <2>3. rxInterrupted' \in [Conn -> BOOLEAN]
    BY <1>2 DEF ConnTypeOK, ShutSocket
  <2>4. ConnTypeOK'
    BY <1>2, <2>1, <2>2, <2>3 DEF ConnTypeOK, ShutSocket
  <2>5. down'[0].at # "none" => down[0].at # "none"
    <3>1. t = 0 => down[0].at # "none"
      BY <1>2 DEF ShutSocket
    <3>2. t # 0 => down'[0] = down[0]
      BY <2>1, ZeroCalls
    <3> QED
      BY <3>1, <3>2
  <2>6. WorkerInv'
    BY <1>2, <2>5 DEF WorkerInv, ShutSocket, muxer
  <2> QED
    BY <2>4, <2>6, ConnStep
<1>3. CASE JoinReceiver(t)
  <2>1. CASE Crash
    BY <2>1, CrashInv
  <2>2. CASE ~Crash
    <3>1. /\ down' = [down EXCEPT ![t] = [at |-> "close", rx |-> 0]]
          /\ rxPacketHandler' = 0
          /\ interrupted' = interrupted \/ interrupted' = FALSE
          /\ UNCHANGED <<call, newest, socket, session, out, connected,
                         publishPermitted, currentStreamId,
                         videoFrameCacheNumber, tcp, rx, reads, rxInterrupted,
                         asked, crashed>>
      BY <1>3, <2>2, Zenon DEF JoinReceiver
    <3>a. down' \in [Caller -> Down]
      BY <3>1 DEF ConnTypeOK, Down
    <3>b. interrupted' \in BOOLEAN
      BY <3>1, Zenon DEF ConnTypeOK
    <3>2. ConnTypeOK'
      BY <3>1, <3>a, <3>b DEF ConnTypeOK
    <3>3. down'[0].at # "none" => down[0].at # "none"
      <4>1. t = 0 => down[0].at # "none"
        BY <1>3 DEF JoinReceiver
      <4>2. t # 0 => down'[0] = down[0]
        BY <3>1, ZeroCalls DEF ConnTypeOK
      <4> QED
        BY <4>1, <4>2
    <3>4. WorkerInv'
      BY <3>1, <3>3 DEF WorkerInv, muxer
    <3> QED
      BY <3>2, <3>4, ConnStep
  <2> QED
    BY <2>1, <2>2
<1>4. CASE CloseSocket(t)
  <2>1. CASE Crash
    BY <2>1, CrashInv
  <2>2. CASE ~Crash
    <3>g. Goto(t, "reset")
      BY <1>4, <2>2, Zenon DEF CloseSocket
    <3>a. down' \in [Caller -> Down]
      BY <3>g, GotoMoves DEF ConnTypeOK
    <3>b. tcp' \in [Conn -> Tcp]
      BY <1>4, <2>2 DEF ConnTypeOK, CloseSocket, Tcp
    <3>1. ConnTypeOK'
      BY <1>4, <2>2, <3>a, <3>b DEF ConnTypeOK, CloseSocket
    <3>2. down'[0].at # "none" => down[0].at # "none"
      <4>1. t = 0 => down[0].at # "none"
        BY <1>4 DEF CloseSocket
      <4>2. t # 0 => down'[0] = down[0]
        BY <3>g, GotoMoves, ZeroCalls DEF ConnTypeOK
      <4> QED
        BY <4>1, <4>2
    <3>3. WorkerInv'
      BY <1>4, <2>2, <3>2 DEF WorkerInv, CloseSocket, muxer
    <3> QED
      BY <3>1, <3>3, ConnStep
  <2> QED
    BY <2>1, <2>2
<1>5. CASE Reset(t)
  <2>g. Goto(t, IF t = 0 THEN "none" ELSE "done")
    BY <1>5, Zenon DEF Reset
  <2>a. down' \in [Caller -> Down]
    BY <2>g, GotoMoves DEF ConnTypeOK
  <2>b. connected' \in BOOLEAN
    BY <1>5, Zenon DEF Reset
  <2>c. call' \in {"none", "handshake", "check", "waitConnect", "connectDone",
                  "createStream", "waitPublish", "publishDone", "closing",
                  "failed", "ok"}
    BY <1>5 DEF ConnTypeOK, Reset
  <2>d. publishPermitted' \in BOOLEAN /\ UNCHANGED <<interrupted, crashed>>
    BY <1>5, Zenon DEF Reset
  <2>e. {newest, socket, session, rxPacketHandler, out, currentStreamId}'
          \subseteq Conn \cup {0}
    BY <1>5 DEF ConnTypeOK, Reset
  <2>f. videoFrameCacheNumber' \in Int
          /\ UNCHANGED <<tcp, rx, rxInterrupted, asked>>
    BY <1>5 DEF ConnTypeOK, Reset
  <2>h. UNCHANGED reads
    BY <1>5 DEF Reset
  <2>1. ConnTypeOK'
    BY <2>a, <2>b, <2>c, <2>d, <2>e, <2>f, <2>h, Zenon DEF ConnTypeOK
  <2>2. IF t = 0 THEN down'[0].at = "none" ELSE down'[0] = down[0]
    BY <2>g, GotoMoves, ZeroCalls DEF ConnTypeOK
  <2>3. t = 0 => call = "closing"
    BY <1>5 DEF WorkerInv, Reset
  <2>4. WorkerInv'
    BY <1>5, <2>2, <2>3 DEF WorkerInv, Reset, muxer
  <2> QED
    BY <2>1, <2>4, ConnStep
<1> QED
  BY <1>1, <1>2, <1>3, <1>4, <1>5

\* Steps of the receiving threads, and the loss of a connection.
LEMMA ReceivingInv ==
  ASSUME IInv, UNCHANGED muxer, NEW c \in Conn,
         \/ ReceiveConnected(c) \/ ReceiveCreated(c) \/ ReceiveStarted(c)
         \/ ReceiveOther(c) \/ ReceiverEnds(c) \/ Lose(c)
  PROVE  IInv'
<1> USE DEF IInv, TypeOK
<1>0. CASE Crash
  BY <1>0, CrashInv
<1>1. CASE ~Crash
  <2>0. reads[c] \in Conn \cup {0}
    BY DEF ConnTypeOK
  <2>n. ASSUME NextPacket(c)
        PROVE  /\ rx' \in [Conn -> {"none", "run", "ended"}]
               /\ reads' \in [Conn -> Conn \cup {0}]
    BY <2>n DEF ConnTypeOK, NextPacket
  <2>1. CASE ReceiveConnected(c)
    <3>1. connected' \in BOOLEAN
      BY <1>1, <2>1, Zenon DEF ReceiveConnected
    <3>2. asked' \in [Conn -> Asked]
      BY <1>1, <2>1 DEF ConnTypeOK, ReceiveConnected, Asked
    <3>3. ConnTypeOK'
      BY <1>1, <2>1, <2>n, <3>1, <3>2 DEF ConnTypeOK, ReceiveConnected
    <3>4. WorkerInv'
      BY <1>1, <2>1 DEF WorkerInv, ReceiveConnected, muxer
    <3> QED
      BY <3>3, <3>4, ConnStep
  <2>2. CASE ReceiveCreated(c)
    <3>1. asked' \in [Conn -> Asked]
      <4>1. "publish" \in Asked /\ "created" \in Asked
        BY DEF Asked
      <4>2. [asked EXCEPT ![reads[c]] = "created"] \in [Conn -> Asked]
        BY <4>1 DEF ConnTypeOK
      <4> DEFINE created == [asked EXCEPT ![reads[c]] = "created"]
      <4>3. asked' = Sent(created, "publish") \/ asked' = created
        BY <1>1, <2>2 DEF ReceiveCreated
      <4>4. Sent(created, "publish") \in [Conn -> Asked]
        BY <4>1, <4>2, SentType
      <4> QED
        BY <4>2, <4>3, <4>4
    <3>2. ConnTypeOK'
      BY <1>1, <2>0, <2>2, <2>n, <3>1 DEF ConnTypeOK, ReceiveCreated
    <3>3. WorkerInv'
      BY <1>1, <2>2 DEF WorkerInv, ReceiveCreated, muxer
    <3> QED
      BY <3>2, <3>3, ConnStep
  <2>3. CASE ReceiveStarted(c)
    <3>1. publishPermitted' \in BOOLEAN
      BY <1>1, <2>3, Zenon DEF ReceiveStarted
    <3>2. asked' \in [Conn -> Asked]
      BY <1>1, <2>3 DEF ConnTypeOK, ReceiveStarted, Asked
    <3>3. ConnTypeOK'
      BY <1>1, <2>3, <2>n, <3>1, <3>2 DEF ConnTypeOK, ReceiveStarted
    <3>4. WorkerInv'
      BY <1>1, <2>3 DEF WorkerInv, ReceiveStarted, muxer
    <3> QED
      BY <3>3, <3>4, ConnStep
  <2>4. CASE ReceiveOther(c)
    <3>1. ConnTypeOK'
      BY <1>1, <2>4, <2>n DEF ConnTypeOK, ReceiveOther
    <3>2. WorkerInv'
      BY <1>1, <2>4 DEF WorkerInv, ReceiveOther, muxer
    <3> QED
      BY <3>1, <3>2, ConnStep
  <2>5. CASE ReceiverEnds(c)
    <3>1. ConnTypeOK'
      BY <1>1, <2>5 DEF ConnTypeOK, ReceiverEnds
    <3>2. WorkerInv'
      BY <1>1, <2>5 DEF WorkerInv, ReceiverEnds, muxer
    <3> QED
      BY <3>1, <3>2, ConnStep
  <2>6. CASE Lose(c)
    <3>1. tcp' \in [Conn -> Tcp]
      BY <2>6 DEF ConnTypeOK, Lose, Tcp
    <3>2. ConnTypeOK'
      BY <2>6, <3>1 DEF ConnTypeOK, Lose
    <3>3. WorkerInv'
      BY <2>6 DEF WorkerInv, Lose, muxer
    <3> QED
      BY <3>2, <3>3, ConnStep
  <2> QED
    BY <2>1, <2>2, <2>3, <2>4, <2>5, <2>6
<1> QED
  BY <1>0, <1>1

-----------------------------------------------------------------------------
(* Steps of the main thread.                                               *)

\* A step that touches of the connection only the interrupt status of the
\* worker and the counter.
LEMMA ConnKept ==
  ASSUME ConnTypeOK, UNCHANGED <<connButCounter, crashed>>,
         interrupted' \in BOOLEAN, videoFrameCacheNumber' \in Int
  PROVE  ConnTypeOK'
  BY DEF ConnTypeOK, connButCounter

\* A stop that is under way answers a start, or is the one of onDestroy.
LEMMA StopsBound ==
  ASSUME IInv, main # "idle"
  PROVE  stops + 1 \in 1 .. MaxStarts + 1
<1>1. stops + 1 <= starts + One(destroyed)
  BY DEF IInv, TypeOK, StopsInv, One
<1> QED
  BY <1>1, MaxStartsAssumption DEF IInv, TypeOK, One

\* A start: no frame of an earlier stream is left.
LEMMA StartInv ==
  ASSUME IInv, StartPublish
  PROVE  IInv'
<1> USE DEF IInv, TypeOK
<1>1. starts' \in Conn /\ starts' \in 0 .. MaxStarts
  BY MaxStartsAssumption DEF StartPublish, Conn
<1>2. enc' \in [Track -> [at : {"off", "idle", "add", "added"},
                          frame : Frame \cup {NoFrame}]]
        /\ \A t \in Track : enc'[t].at = "idle"
  BY DEF StartPublish, Idle
<1>3. ConnTypeOK'
  BY ConnKept, Zenon DEF StartPublish, ConnTypeOK
<1>4. TypeOK'
  BY <1>1, <1>2, <1>3, MuxerAssumption DEF StartPublish
<1>5. worker = "none" /\ mFlvTagCache = <<>> /\ hand = NoFrame
  BY DEF StartPublish, StoppedInv, FrameInv
<1>6. starts' # 0
  BY <1>1, MaxStartsAssumption DEF Conn
<1>7. WorkerInv'
  BY <1>5, <1>6 DEF WorkerInv, StartPublish, connButCounter, Looping
<1>8. FrameInv'
  BY <1>2, <1>5, <1>6 DEF FrameInv, StartPublish
<1>9. StoppedInv'
  BY DEF StoppedInv, StartPublish
<1>10. StopsInv'
  BY DEF StopsInv, StartPublish, One
<1>11. NoStaleFrame'
  BY DEF NoStaleFrame, StartPublish
<1> QED
  BY <1>4, <1>7, <1>8, <1>9, <1>10, <1>11

\* The button or onDestroy.
LEMMA StopInv ==
  ASSUME IInv, StopPublish
  PROVE  IInv'
<1> USE DEF IInv, TypeOK
<1>1. destroyed' \in BOOLEAN
  BY Zenon DEF StopPublish
<1>2. ConnTypeOK'
  BY DEF StopPublish, conn, ConnTypeOK
<1>3. TypeOK'
  BY <1>1, <1>2 DEF StopPublish
<1>4. WorkerInv' /\ FrameInv' /\ NoStaleFrame'
  BY DEF WorkerInv, FrameInv, NoStaleFrame, StopPublish, conn
<1>5. StoppedInv'
  BY DEF StoppedInv, StopPublish
<1>6. StopsInv'
  BY DEF StopsInv, StopPublish, One
<1> QED
  BY <1>3, <1>4, <1>5, <1>6

\* stop clears the cache when no encoding thread is left to fill it.
LEMMA StopMuxerInv ==
  ASSUME IInv, StopMuxer
  PROVE  IInv'
<1> USE DEF IInv, TypeOK
<1>1. /\ enc' \in [Track -> [at : {"off", "idle", "add", "added"},
                             frame : Frame \cup {NoFrame}]]
      /\ \A t \in Track : enc'[t].at = "off"
  <2>1. \A t \in Track : enc[t].at = "idle" \/ enc[t].at = "off"
    BY DEF StopMuxer, EncodersDone
  <2> QED
    BY <2>1 DEF StopMuxer, Off
<1>2. interrupted' \in BOOLEAN
  BY Zenon DEF StopMuxer
<1>3. ConnTypeOK'
  BY <1>2, ConnKept DEF StopMuxer, ConnTypeOK
<1>4. mFlvTagCache' \in Seq(Frame) /\ mFlvTagCache' = <<>>
  BY DEF StopMuxer
<1>5. TypeOK'
  BY <1>1, <1>3, <1>4 DEF StopMuxer
<1>6. WorkerInv'
  BY DEF WorkerInv, StopMuxer, connButCounter
<1>7. FrameInv'
  BY <1>1, <1>4 DEF FrameInv, StopMuxer
<1>8. StoppedInv'
  BY <1>1, <1>4 DEF StoppedInv, StopMuxer
<1>9. StopsInv' /\ NoStaleFrame'
  BY DEF StopsInv, NoStaleFrame, StopMuxer, One
<1> QED
  BY <1>5, <1>6, <1>7, <1>8, <1>9

\* stop returns: the worker has ended, and with it what it had in hand.
LEMMA StopReturnsInv ==
  ASSUME IInv, StopReturns
  PROVE  IInv'
<1> USE DEF IInv, TypeOK
<1>1. stops + 1 \in Closer /\ stops + 1 # 0 /\ stops' \in 0 .. MaxStarts + 1
  BY StopsBound, MaxStartsAssumption DEF StopReturns, Closer, Caller
<1>2. down' \in [Caller -> Down]
        /\ down'[0] = down[0]
  BY <1>1, ZeroCalls, GotoMoves DEF StopReturns, ConnTypeOK, Closer
<1>3. ConnTypeOK'
  BY <1>2 DEF StopReturns, ConnTypeOK
<1>4. TypeOK'
  BY <1>1, <1>3 DEF StopReturns
<1>5. WorkerInv'
  BY <1>2 DEF WorkerInv, StopReturns, Looping
<1>6. FrameInv'
  BY DEF FrameInv, StopReturns
<1>7. StoppedInv'
  BY DEF StoppedInv, StopReturns
<1>8. StopsInv' /\ NoStaleFrame'
  BY DEF StopsInv, NoStaleFrame, StopReturns, One
<1> QED
  BY <1>4, <1>5, <1>6, <1>7, <1>8

\* The sequence headers are cleared by the thread of a stop.
LEMMA DisconnectedInv ==
  ASSUME IInv, NEW k \in Closer, Disconnected(k)
  PROVE  IInv'
<1> USE DEF IInv, TypeOK
<1>1. down' \in [Caller -> Down]
        /\ down'[0] = down[0]
  BY ZeroCalls, GotoMoves DEF Disconnected, ConnTypeOK, Closer
<1>2. ConnTypeOK'
  BY <1>1 DEF Disconnected, ConnTypeOK
<1>3. TypeOK'
  BY <1>2 DEF Disconnected
<1>4. WorkerInv'
  BY <1>1 DEF WorkerInv, Disconnected
<1>5. FrameInv' /\ StoppedInv' /\ StopsInv' /\ NoStaleFrame'
  BY DEF FrameInv, StoppedInv, StopsInv, NoStaleFrame, Disconnected
<1> QED
  BY <1>3, <1>4, <1>5

-----------------------------------------------------------------------------
(* Steps of the encoding threads.                                          *)

\* A sample becomes a frame of the present stream.
LEMMA EncodeInv ==
  ASSUME IInv, NEW t \in Track, Encode(t)
  PROVE  IInv'
<1> USE DEF IInv, TypeOK
<1>1. PICK s \in Sample(t) :
        /\ got' = IF Writes(t, s) THEN got \cup {t} ELSE got
        /\ needToFindKeyFrame' =
             (needToFindKeyFrame /\ ~(t = "video" /\ Writes(t, s)
                                        /\ Passes(t, s)))
        /\ enc' = IF Writes(t, s) /\ Passes(t, s) /\ started
                    THEN [enc EXCEPT ![t] = [at |-> "add",
                            frame |-> [stream |-> starts, track |-> t,
                                       header |-> t \notin got]]]
                    ELSE enc
  BY Zenon DEF Encode
<1>2. starts # 0 /\ starts \in Conn
  BY DEF Encode, FrameInv, Conn
<1>3. [stream |-> starts, track |-> t, header |-> t \notin got] \in Frame
  BY <1>2 DEF Frame
<1>4. enc' \in [Track -> [at : {"off", "idle", "add", "added"},
                          frame : Frame \cup {NoFrame}]]
  BY <1>1, <1>3
<1>5. needToFindKeyFrame' \in BOOLEAN
  BY <1>1, Zenon
<1>6. got' \subseteq Track /\ taken' \in 0 .. MaxFrames
  BY <1>1, MuxerAssumption DEF Encode
<1>7. ConnTypeOK'
  BY DEF Encode, conn, ConnTypeOK
<1>8. TypeOK'
  BY <1>4, <1>5, <1>6, <1>7 DEF Encode
<1>9. WorkerInv' /\ StopsInv' /\ NoStaleFrame'
  BY DEF WorkerInv, StopsInv, NoStaleFrame, Encode, conn
<1>10. FrameInv'
  BY <1>1, <1>2, <1>3 DEF FrameInv, Encode
<1>11. StoppedInv'
  BY <1>1 DEF StoppedInv, Encode
<1> QED
  BY <1>8, <1>9, <1>10, <1>11

\* A frame is put into the cache; no stop has cleared it for good meanwhile.
LEMMA AddFrameInv ==
  ASSUME IInv, NEW t \in Track, AddFrame(t)
  PROVE  IInv'
<1> USE DEF IInv, TypeOK
<1>1. enc[t].frame \in Frame /\ enc[t].frame.stream = starts
  BY DEF AddFrame, FrameInv
<1>2. mFlvTagCache' \in Seq(Frame)
        /\ \A i \in DOMAIN mFlvTagCache' : mFlvTagCache'[i].stream = starts
  BY <1>1 DEF AddFrame, FrameInv
<1>3. enc' = [enc EXCEPT ![t].at = "added"]
  BY DEF AddFrame
<1>4. /\ enc' \in [Track -> [at : {"off", "idle", "add", "added"},
                             frame : Frame \cup {NoFrame}]]
      /\ \A u \in Track : enc'[u].frame = enc[u].frame
      /\ \A u \in Track : u # t => enc'[u] = enc[u]
  BY <1>3
<1>5. TypeOK'
  BY <1>2, <1>4 DEF AddFrame, conn, ConnTypeOK
<1>6. WorkerInv' /\ StopsInv' /\ NoStaleFrame'
  BY DEF WorkerInv, StopsInv, NoStaleFrame, AddFrame, conn
<1>7. FrameInv'
  BY <1>1, <1>2, <1>4 DEF FrameInv, AddFrame
<1>8. StoppedInv'
  BY DEF StoppedInv, AddFrame
<1> QED
  BY <1>5, <1>6, <1>7, <1>8

\* The frame is counted and the worker woken.
LEMMA FrameAddedInv ==
  ASSUME IInv, NEW t \in Track, FrameAdded(t)
  PROVE  IInv'
<1> USE DEF IInv, TypeOK
<1>1. enc' = [enc EXCEPT ![t] = Idle]
  BY DEF FrameAdded
<1>2. enc' \in [Track -> [at : {"off", "idle", "add", "added"},
                          frame : Frame \cup {NoFrame}]]
        /\ enc'[t].at = "idle"
        /\ \A u \in Track : u # t => enc'[u] = enc[u]
  BY <1>1 DEF Idle
<1>3. videoFrameCacheNumber' \in Int
  BY DEF FrameAdded, ConnTypeOK
<1>4. ConnTypeOK'
  BY <1>3, ConnKept DEF FrameAdded, ConnTypeOK
<1>5. worker' = worker \/ (worker = "wait" /\ worker' = "loop")
  BY DEF FrameAdded
<1>6. TypeOK'
  BY <1>2, <1>4, <1>5 DEF FrameAdded, Looping
<1>7. WorkerInv'
  BY <1>5 DEF WorkerInv, FrameAdded, connButCounter, Looping
<1>8. StopsInv' /\ NoStaleFrame'
  BY DEF StopsInv, NoStaleFrame, FrameAdded
<1>9. FrameInv'
  BY <1>2, <1>5 DEF FrameInv, FrameAdded
<1>10. StoppedInv'
  BY <1>2, <1>5 DEF StoppedInv, FrameAdded
<1> QED
  BY <1>6, <1>7, <1>8, <1>9, <1>10

-----------------------------------------------------------------------------
(* Steps of the worker.                                                    *)

\* The call of connect is for the stream of the worker.
LEMMA WorkerConnectsInv ==
  ASSUME IInv, WorkerConnects
  PROVE  IInv'
<1> USE DEF IInv, TypeOK
<1>1. starts \in Conn
  BY MaxStartsAssumption DEF WorkerConnects, WorkerInv, Conn
<1>2. ConnTypeOK'
  BY <1>1 DEF WorkerConnects, BeginConnect, ConnTypeOK, Tcp
<1>3. TypeOK'
  BY <1>2 DEF WorkerConnects
<1>4. call = "none" /\ down[0].at = "none"
  BY DEF WorkerConnects, WorkerInv
<1>5. WorkerInv'
  BY <1>4 DEF WorkerInv, WorkerConnects, BeginConnect, Looping
<1>6. FrameInv' /\ StoppedInv' /\ StopsInv' /\ NoStaleFrame'
  BY DEF FrameInv, StoppedInv, StopsInv, NoStaleFrame, WorkerConnects
<1> QED
  BY <1>3, <1>5, <1>6

\* When publish has returned true the output stream is the one of the call.
LEMMA WorkerConnectedInv ==
  ASSUME IInv, WorkerConnected
  PROVE  IInv'
<1> USE DEF IInv, TypeOK
<1>1. ConnTypeOK'
  BY DEF WorkerConnected, ConnTypeOK
<1>2. TypeOK'
  BY <1>1 DEF WorkerConnected, Looping
<1>3. call = "ok" => out = newest
  BY DEF WorkerInv
<1>4. WorkerInv'
  BY <1>3 DEF WorkerInv, WorkerConnected, Looping
<1>5. FrameInv' /\ StoppedInv' /\ StopsInv' /\ NoStaleFrame'
  BY DEF FrameInv, StoppedInv, StopsInv, NoStaleFrame, WorkerConnected
<1> QED
  BY <1>2, <1>4, <1>5

\* A step of the worker that neither takes a frame nor sends one.
LEMMA MovesInv ==
  ASSUME IInv, NEW from \in Looping \ {"take", "send"},
         NEW to \in {"ended"} \cup (Looping \ {"send"}), Moves(from, to),
         interrupted' \in BOOLEAN
  PROVE  IInv'
<1> USE DEF IInv, TypeOK
<1>1. ConnTypeOK'
  BY ConnKept DEF Moves, ConnTypeOK
<1>2. TypeOK'
  BY <1>1 DEF Moves, Looping
<1>3. WorkerInv'
  BY DEF WorkerInv, Moves, connButCounter, Looping
<1>4. FrameInv' /\ StoppedInv' /\ StopsInv' /\ NoStaleFrame'
  BY DEF FrameInv, StoppedInv, StopsInv, NoStaleFrame, Moves, Looping
<1> QED
  BY <1>2, <1>3, <1>4

\* The frame taken out is of the present stream, as all in the cache are.
LEMMA TakeFrameInv ==
  ASSUME IInv, TakeFrame
  PROVE  IInv'
<1> USE DEF IInv, TypeOK
<1>1. CASE Crash /\ UNCHANGED muxer
  BY <1>1, CrashInv
<1>2. CASE ~(Crash /\ UNCHANGED muxer)
  <2>1. /\ mFlvTagCache # <<>>
        /\ hand' = Head(mFlvTagCache)
        /\ mFlvTagCache' = Tail(mFlvTagCache)
        /\ worker = "take"
        /\ worker' = "send"
        /\ UNCHANGED <<conn, started, headers, got, needToFindKeyFrame, enc,
                       main, pushing, destroyed, starts, stops, taken,
                       delivered>>
    BY <1>2 DEF TakeFrame
  <2>2. hand' \in Frame /\ hand'.stream = starts
          /\ mFlvTagCache' \in Seq(Frame)
          /\ \A i \in DOMAIN mFlvTagCache' : mFlvTagCache'[i].stream = starts
    BY <2>1 DEF FrameInv
  <2>3. hand' # NoFrame
    BY <2>2 DEF Frame, NoFrame, Conn
  <2>4. ConnTypeOK'
    BY <2>1 DEF conn, ConnTypeOK
  <2>5. TypeOK'
    BY <2>1, <2>2, <2>4 DEF Looping
  <2>6. WorkerInv' /\ StopsInv' /\ NoStaleFrame'
    BY <2>1 DEF WorkerInv, StopsInv, NoStaleFrame, conn, Looping
  <2>7. FrameInv'
    BY <2>1, <2>2, <2>3 DEF FrameInv
  <2>8. StoppedInv'
    BY <2>1 DEF StoppedInv
  <2> QED
    BY <2>5, <2>6, <2>7, <2>8
<1> QED
  BY <1>1, <1>2

\* The frame in hand and the output stream belong to the same stream.
LEMMA SendFrameInv ==
  ASSUME IInv, SendFrame
  PROVE  IInv'
<1> USE DEF IInv, TypeOK
<1>1. /\ worker = "send" /\ worker' = "poll" /\ hand' = NoFrame
      /\ headers' = IF hand.header THEN headers \cup {hand.track}
                                   ELSE headers
      /\ delivered' = delivered \/ delivered' = delivered \cup
                                                  {<<out, hand.stream>>}
      /\ UNCHANGED <<connButCounter, interrupted, crashed, started,
                     mFlvTagCache, got, needToFindKeyFrame, enc, main,
                     pushing, destroyed, starts, stops, taken>>
  BY Zenon DEF SendFrame
<1>2. hand \in Frame /\ hand.stream = starts /\ out = starts
  BY <1>1 DEF FrameInv, WorkerInv, Looping
<1>3. videoFrameCacheNumber' \in Int
  BY DEF SendFrame, ConnTypeOK
<1>4. ConnTypeOK'
  BY <1>1, <1>3, ConnKept DEF ConnTypeOK
<1>5. headers' \subseteq Track /\ delivered' \subseteq (Conn \cup {0}) \X Conn
  BY <1>1, <1>2 DEF Frame
<1>6. TypeOK'
  BY <1>1, <1>4, <1>5 DEF Looping
<1>7. NoStaleFrame'
  BY <1>1, <1>2 DEF NoStaleFrame
<1>8. WorkerInv'
  BY <1>1 DEF WorkerInv, connButCounter, Looping
<1>9. FrameInv' /\ StoppedInv' /\ StopsInv'
  BY <1>1 DEF FrameInv, StoppedInv, StopsInv
<1> QED
  BY <1>6, <1>7, <1>8, <1>9

\* Every step of the worker.
LEMMA WorkerStepInv ==
  ASSUME IInv, Worker
  PROVE  IInv'
<1>1. CASE WorkerConnects
  BY <1>1, WorkerConnectsInv
<1>2. CASE Connecting
  BY <1>2, ZeroCalls, ConnectingInv, ClosingInv DEF Connecting, OnConnection
<1>3. CASE WorkerConnected
  BY <1>3, WorkerConnectedInv
<1>4. interrupted \in BOOLEAN
  BY DEF IInv, TypeOK, ConnTypeOK
<1>5. CASE LoopTest
  <2>1. Moves("loop", "ended") \/ Moves("loop", "poll")
    BY <1>5 DEF LoopTest
  <2> QED
    BY <1>5, <2>1, MovesInv DEF LoopTest, Looping
<1>6. CASE CacheTest
  <2>1. Moves("poll", "park") \/ Moves("poll", "take")
    BY <1>6 DEF CacheTest
  <2> QED
    BY <1>4, <1>6, <2>1, MovesInv DEF CacheTest, Looping
<1>7. CASE TakeFrame
  BY <1>7, TakeFrameInv
<1>8. CASE SendFrame
  BY <1>8, SendFrameInv
<1>9. CASE Park
  BY <1>4, <1>9, MovesInv DEF Park, Looping
<1>10. CASE WaitOver
  BY <1>4, <1>10, MovesInv DEF WaitOver, Looping
<1> QED
  BY <1>1, <1>2, <1>3, <1>5, <1>6, <1>7, <1>8, <1>9, <1>10 DEF Worker

-----------------------------------------------------------------------------

\* Every step keeps the invariant.
LEMMA NextInv == IInv /\ [Next]_vars => IInv'
<1> SUFFICES ASSUME IInv, [Next]_vars PROVE IInv'
  OBVIOUS
<1>1. CASE StartPublish \/ StopPublish
  BY <1>1, StartInv, StopInv
<1>2. CASE StopMuxer \/ StopReturns
  BY <1>2, StopMuxerInv, StopReturnsInv
<1>3. ASSUME NEW k \in Closer, Closing(k) PROVE IInv'
  BY <1>3, ClosingInv DEF Closing, OnConnection, Closer
<1>4. ASSUME NEW k \in Closer, Disconnected(k) PROVE IInv'
  BY <1>4, DisconnectedInv
<1>5. ASSUME NEW t \in Track, Encode(t) \/ AddFrame(t) \/ FrameAdded(t)
      PROVE  IInv'
  BY <1>5, EncodeInv, AddFrameInv, FrameAddedInv
<1>6. CASE Worker
  BY <1>6, WorkerStepInv
<1>7. ASSUME NEW c \in Conn, Receiving(c) PROVE IInv'
  BY <1>7, ReceivingInv DEF Receiving, OnConnection
<1>8. CASE UNCHANGED vars
  <2>1. UNCHANGED conn /\ UNCHANGED muxer
    BY <1>8 DEF vars
  <2>2. ConnTypeOK'
    BY <2>1 DEF IInv, TypeOK, ConnTypeOK, conn
  <2>3. WorkerInv'
    BY <2>1 DEF IInv, WorkerInv, conn, muxer
  <2> QED
    BY <2>1, <2>2, <2>3, ConnStep
<1> QED
  BY <1>1, <1>2, <1>3, <1>4, <1>5, <1>6, <1>7, <1>8 DEF Next

\* The invariant always holds: of every start, stop and step of the threads
\* of the publisher (SrsPublisher 173-192, SrsFlvMuxer 129-198).
THEOREM Invariance == Spec => []IInv
  BY InitInv, NextInv, PTL DEF Spec

\* Every variable of the publisher and of its connection keeps its type.
THEOREM TypeCorrect == Spec => []TypeOK
<1>1. IInv => TypeOK
  BY DEF IInv
<1> QED
  BY <1>1, Invariance, PTL

\* No frame of one stream is sent in another, however often the user stops
\* and starts and however late the threads of the stops close a connection
\* (SrsPublisher 187-192, SrsFlvMuxer 175-189).
THEOREM NoStaleFrameAlways == Spec => []NoStaleFrame
<1>1. IInv => NoStaleFrame
  BY DEF IInv
<1> QED
  BY <1>1, Invariance, PTL

-----------------------------------------------------------------------------
(* The first stream.                                                       *)

\* No stop has returned: no thread but the worker closes connections.
Fresh == starts <= 1 /\ stops = 0

\* The worker has given up, or is about to.
Failing == worker = "ended" \/ call \in {"closing", "failed"}

\* How starts and stops follow each other.
TurnsInv ==
  /\ main = "join" => ~started
  /\ stops > 0 /\ started => starts > 1
  /\ stops = 0 /\ main = "idle" /\ ~pushing => starts = 0
  /\ stops > 0 /\ starts <= 1 => worker = "none"
  /\ \A t \in Track : enc[t].at # "off" => started

\* The fields of the connection follow connect and publish, step by step.
PermitInv == Fresh =>
  /\ \A k \in Closer : down[k].at = "none"
  /\ starts = 0 => \A c \in Conn : asked[c] = "nothing" /\ rx[c] = "none"
  /\ starts = 0 => ~publishPermitted /\ videoFrameCacheNumber = 0
  /\ \A c \in Conn : rx[c] = "run" => out # 0 /\ reads[c] # 0
  /\ ~Failing =>
       /\ publishPermitted => currentStreamId # 0
       /\ \A c \in Conn : asked[c] \in {"publish", "started"} => currentStreamId # 0
       /\ call \in {"createStream", "waitPublish", "publishDone", "ok"} => connected
       /\ call = "ok" => publishPermitted
       /\ worker \in Looping => connected /\ publishPermitted

\* A picture in the cache comes after the sequence header.
VideoHeader(f) == f.track = "video" /\ f.header
HeaderTaken    == "video" \in headers \/ VideoHeader(hand)
HeaderCached   == HeaderTaken \/ \E j \in DOMAIN mFlvTagCache : VideoHeader(mFlvTagCache[j])
HeaderAdded    == enc["video"].at = "add" /\ enc["video"].frame.header
HeaderInv ==
  /\ starts = 0 => headers = {} /\ got = {}
  /\ Fresh /\ started =>
       /\ headers # {} => worker \in Looping \cup {"ended"}
       /\ hand.track = "video" => HeaderTaken
       /\ \A k \in VideoIn(mFlvTagCache) :
            HeaderTaken \/ \E j \in 1 .. k : VideoHeader(mFlvTagCache[j])
       /\ "video" \in Track =>
            /\ enc["video"].at = "add" => HeaderAdded \/ HeaderCached
            /\ "video" \in got => HeaderAdded \/ HeaderCached

\* A frame an encoding thread adds is one of its track.
TrackInv ==
  \A t \in Track : enc[t].at \in {"add", "added"} => enc[t].frame.track = t

\* What is counted is what waits.
CountInv ==
  Fresh /\ started /\ ~Failing =>
    videoFrameCacheNumber = VideoWaiting - Uncounted

FirstInv == TurnsInv /\ TrackInv /\ PermitInv /\ HeaderInv /\ CountInv

\* Only the connection of the field socket is alive, none once a thread of a
\* stop is past closing it, and none before the first connect.  The threads
\* are as many as the stops that have returned.
Alive(c) == tcp[c] \in {"connecting", "open"}
Past(k)  == k <= stops /\ down[k].at \in {"none", "reset", "done"}
ClosersInv == \A k \in Closer : down[k].at # "none" => k <= stops
AliveInv == starts <= 1 => \A c \in Conn : Alive(c) =>
  /\ socket = c
  /\ starts # 0 /\ worker # "new"
  /\ down[0].at # "reset"
  /\ \A k \in Closer : ~Past(k)
ClosedInv == ClosersInv /\ AliveInv

-----------------------------------------------------------------------------
(* How starts and stops follow each other.                                 *)

\* A step that is one of the connection alone, of the thread of a stop or of
\* the worker leaves the main thread and the encoding threads alone.
LEMMA Apart ==
  ASSUME IInv,
         \/ Worker
         \/ \E k \in Closer : Closing(k) \/ Disconnected(k)
         \/ \E c \in Conn : Receiving(c)
         \/ UNCHANGED vars
  PROVE  /\ UNCHANGED <<starts, stops, main, pushing, started, enc, got>>
         /\ worker = "none" => worker' = "none"
<1>1. CASE Worker
  <2>1. CASE Connecting
    BY <2>1 DEF Connecting, OnConnection, muxer
  <2>2. CASE Worker /\ ~Connecting
    BY <2>2 DEF Worker, WorkerConnects, WorkerConnected, LoopTest, CacheTest, Moves, TakeFrame,
       SendFrame, Park, WaitOver, muxer
  <2> QED
    BY <1>1, <2>1, <2>2
<1>2. CASE \E k \in Closer : Closing(k) \/ Disconnected(k)
  BY <1>2 DEF Closing, OnConnection, Disconnected, muxer
<1>3. CASE \E c \in Conn : Receiving(c)
  BY <1>3 DEF Receiving, OnConnection, muxer
<1>4. CASE UNCHANGED vars
  BY <1>4 DEF vars, muxer
<1> QED
  BY <1>1, <1>2, <1>3, <1>4

\* Starts and stops keep following each other.
LEMMA TurnsStep ==
  ASSUME IInv, TurnsInv, [Next]_vars
  PROVE  TurnsInv'
<1>0. /\ starts \in Nat /\ stops \in Nat
      /\ enc \in [Track -> [at : {"off", "idle", "add", "added"}, frame : Frame \cup {NoFrame}]]
  BY MaxStartsAssumption DEF IInv, TypeOK
<1>1. CASE StartPublish
  <2>1. /\ started' /\ starts' = starts + 1 /\ stops' = stops /\ pushing' /\ main' = main
        /\ main = "idle" /\ ~pushing /\ ~destroyed
    BY <1>1 DEF StartPublish
  <2>2. stops <= starts
    BY <1>0, <2>1 DEF IInv, StopsInv, One
  <2> QED
    BY <1>0, <2>1, <2>2 DEF TurnsInv
<1>2. CASE StopPublish
  BY <1>2 DEF StopPublish, TurnsInv
<1>3. CASE StopMuxer
  <2>1. \A t \in Track : enc'[t].at = "off"
    BY <1>0, <1>3 DEF StopMuxer, EncodersDone, Off
  <2> QED
    BY <1>3, <2>1 DEF StopMuxer, TurnsInv
<1>4. CASE StopReturns
  BY <1>0, <1>4 DEF StopReturns, TurnsInv
<1>5. ASSUME NEW t \in Track, Encode(t) \/ AddFrame(t) \/ FrameAdded(t)
      PROVE  TurnsInv'
  <2>1. UNCHANGED <<starts, stops, main, pushing, started>>
    BY <1>5 DEF Encode, AddFrame, FrameAdded
  <2>2. worker = "none" => worker' = "none"
    BY <1>5 DEF Encode, AddFrame, FrameAdded
  <2>3. \A u \in Track : enc'[u].at # "off" => enc[u].at # "off"
    BY <1>0, <1>5 DEF Encode, AddFrame, FrameAdded, Idle
  <2> QED
    BY <2>1, <2>2, <2>3 DEF TurnsInv
<1>6. CASE \/ Worker
           \/ \E k \in Closer : Closing(k) \/ Disconnected(k)
           \/ \E c \in Conn : Receiving(c)
           \/ UNCHANGED vars
  BY <1>6, Apart DEF TurnsInv
<1> QED
  BY <1>1, <1>2, <1>3, <1>4, <1>5, <1>6 DEF Next

\* An encoding thread adds frames of its own track.
LEMMA TrackStep ==
  ASSUME IInv, TrackInv, [Next]_vars
  PROVE  TrackInv'
<1>0. enc \in [Track -> [at : {"off", "idle", "add", "added"}, frame : Frame \cup {NoFrame}]]
  BY DEF IInv, TypeOK
<1>1. CASE StartPublish \/ StopPublish \/ StopMuxer \/ StopReturns
  BY <1>0, <1>1 DEF StartPublish, StopPublish, StopMuxer, StopReturns, TrackInv, Idle, Off
<1>2. ASSUME NEW t \in Track, Encode(t) PROVE TrackInv'
  <2>1. PICK f \in {[stream |-> starts, track |-> t, header |-> b] : b \in BOOLEAN} :
          enc' = enc \/ enc' = [enc EXCEPT ![t] = [at |-> "add", frame |-> f]]
    BY <1>2 DEF Encode
  <2> QED
    BY <1>0, <2>1 DEF TrackInv
<1>3. ASSUME NEW t \in Track, AddFrame(t) \/ FrameAdded(t) PROVE TrackInv'
  BY <1>0, <1>3 DEF AddFrame, FrameAdded, TrackInv, Idle
<1>4. CASE \/ Worker
           \/ \E k \in Closer : Closing(k) \/ Disconnected(k)
           \/ \E c \in Conn : Receiving(c)
           \/ UNCHANGED vars
  BY <1>4, Apart DEF TrackInv
<1> QED
  BY <1>1, <1>2, <1>3, <1>4 DEF Next

-----------------------------------------------------------------------------
(* The fields of the first connection.                                     *)

\* What the steps below use: while no stop has returned only the worker
\* closes a connection, and it connects to that of the first stream.
LEMMA FreshFacts ==
  ASSUME IInv, PermitInv, Fresh
  PROVE  /\ \A k \in Closer : down[k].at = "none"
         /\ call # "none" => worker = "connect" /\ newest = starts /\ starts # 0
         /\ call \notin {"none", "handshake", "closing", "failed"} => out = newest
         /\ down[0].at # "none" => call = "closing"
         /\ \A c \in Conn : rx[c] = "run" => starts # 0 /\ out # 0 /\ reads[c] # 0 /\ reads[c] \in Conn
         /\ reads \in [Conn -> Conn \cup {0}] /\ asked \in [Conn -> Asked]
         /\ rx \in [Conn -> {"none", "run", "ended"}]
         /\ out \in Conn \cup {0} /\ newest \in Conn \cup {0} /\ 0 \notin Conn
         /\ tcp \in [Conn -> Tcp]
<1>1. /\ \A k \in Closer : down[k].at = "none"
      /\ \A c \in Conn : rx[c] = "run" => starts # 0 /\ out # 0 /\ reads[c] # 0
  BY DEF PermitInv
<1>2. /\ call # "none" => worker = "connect" /\ newest = starts /\ starts # 0
      /\ call \notin {"none", "handshake", "closing", "failed"} => out = newest
      /\ down[0].at # "none" => call = "closing"
  BY DEF IInv, WorkerInv
<1>3. /\ reads \in [Conn -> Conn \cup {0}] /\ asked \in [Conn -> Asked]
      /\ rx \in [Conn -> {"none", "run", "ended"}] /\ tcp \in [Conn -> Tcp]
      /\ out \in Conn \cup {0} /\ newest \in Conn \cup {0} /\ 0 \notin Conn
  BY DEF IInv, TypeOK, ConnTypeOK, Conn
<1> QED
  BY <1>1, <1>2, <1>3

\* Steps of connect and publish.
LEMMA PermitConnecting ==
  ASSUME IInv, PermitInv, UNCHANGED muxer,
         \/ Handshake \/ HandshakeFails \/ RtmpConnect \/ WaitEnds
         \/ ConnectDone \/ CreateStream \/ PublishDone
  PROVE  PermitInv'
<1> SUFFICES ASSUME Fresh PROVE PermitInv'
  BY DEF PermitInv, Fresh, muxer
<1> USE FreshFacts
<1>1. CASE Crash
  BY <1>1 DEF PermitInv, Failing, Fresh, Crash, muxer
<1>2. CASE Handshake /\ ~Crash
  BY <1>2 DEF PermitInv, Failing, Fresh, Handshake, Looping, muxer
<1>3. CASE HandshakeFails
  BY <1>3 DEF PermitInv, Failing, Fresh, HandshakeFails, Looping, muxer
<1>4. CASE RtmpConnect /\ ~Crash
  <2>1. \A c \in Conn : asked'[c] = asked[c] \/ asked'[c] = "connect"
    BY <1>4 DEF RtmpConnect, Sent
  <2> QED
    BY <1>4, <2>1 DEF PermitInv, Failing, Fresh, RtmpConnect, Looping, muxer
<1>5. CASE WaitEnds
  BY <1>5 DEF PermitInv, Failing, Fresh, WaitEnds, Looping, muxer
<1>6. CASE ConnectDone \/ PublishDone
  <2>1. \A k \in Closer : down'[k].at = "none"
    BY <1>6 DEF ConnectDone, PublishDone, AfterWait, Closer, IInv, TypeOK, ConnTypeOK
  <2> QED
    BY <1>6, <2>1 DEF PermitInv, Failing, Fresh, ConnectDone, PublishDone, AfterWait, Looping, muxer
<1>7. CASE CreateStream
  <2>1. \A c \in Conn : asked'[c] = asked[c] \/ asked'[c] = "createStream"
    BY <1>7 DEF CreateStream, Sent
  <2> QED
    BY <1>7, <2>1 DEF PermitInv, Failing, Fresh, CreateStream, Looping, muxer
<1> QED
  BY <1>1, <1>2, <1>3, <1>4, <1>5, <1>6, <1>7

\* Steps that close a connection: only the worker does, after it failed.
LEMMA PermitClosing ==
  ASSUME IInv, PermitInv, UNCHANGED muxer, NEW t \in Caller,
         CloseStream(t) \/ ShutSocket(t) \/ JoinReceiver(t) \/ CloseSocket(t) \/ Reset(t)
  PROVE  PermitInv'
<1> SUFFICES ASSUME Fresh PROVE PermitInv'
  BY DEF PermitInv, Fresh, muxer
<1>1. t = 0 /\ call = "closing" /\ starts # 0
  BY FreshFacts DEF CloseStream, ShutSocket, JoinReceiver, CloseSocket, Reset, Closer
<1>2. call' \in {"closing", "failed"}
  BY <1>1 DEF CloseStream, ShutSocket, JoinReceiver, CloseSocket, Reset, Crash
<1>3. \A k \in Closer : down'[k].at = "none"
  BY <1>1, FreshFacts DEF CloseStream, ShutSocket, JoinReceiver, CloseSocket, Reset, Crash, Goto,
     Closer, IInv, TypeOK, ConnTypeOK
<1>4. UNCHANGED <<out, reads, rx>>
  BY DEF CloseStream, ShutSocket, JoinReceiver, CloseSocket, Reset, Crash
<1>5. worker \notin Looping
  BY <1>1, FreshFacts DEF Looping
<1> QED
  BY <1>1, <1>2, <1>3, <1>4, <1>5, FreshFacts DEF PermitInv, Failing, Fresh, muxer

\* Steps of a receiving thread: the answer to publish comes after that to
\* createStream.
LEMMA PermitReceiving ==
  ASSUME IInv, PermitInv, UNCHANGED muxer, NEW c \in Conn,
         \/ ReceiveConnected(c) \/ ReceiveCreated(c) \/ ReceiveStarted(c)
         \/ ReceiveOther(c) \/ ReceiverEnds(c) \/ Lose(c)
  PROVE  PermitInv'
<1> SUFFICES ASSUME Fresh PROVE PermitInv'
  BY DEF PermitInv, Fresh, muxer
<1> USE FreshFacts
<1>1. CASE Crash \/ Lose(c)
  BY <1>1 DEF PermitInv, Failing, Fresh, Crash, Lose, muxer
<1>2. CASE ReceiveConnected(c) /\ ~Crash
  BY <1>2 DEF PermitInv, Failing, Fresh, ReceiveConnected, Reads, NextPacket, Looping, muxer
<1>3. CASE ReceiveCreated(c) /\ ~Crash
  <2>1. \A d \in Conn : asked'[d] = asked[d] \/ asked'[d] \in {"created", "publish"}
    BY <1>3 DEF ReceiveCreated, Reads, Sent
  <2>2. currentStreamId' # 0
    BY <1>3 DEF ReceiveCreated, Reads
  <2> QED
    BY <1>3, <2>1, <2>2 DEF PermitInv, Failing, Fresh, ReceiveCreated, Reads, NextPacket, Looping, muxer
<1>4. CASE ReceiveStarted(c) /\ ~Crash
  BY <1>4 DEF PermitInv, Failing, Fresh, ReceiveStarted, Reads, NextPacket, Looping, muxer
<1>5. CASE ReceiveOther(c) /\ ~Crash
  BY <1>5 DEF PermitInv, Failing, Fresh, ReceiveOther, Reads, NextPacket, Looping, muxer
<1>6. CASE ReceiverEnds(c) /\ ~Crash
  BY <1>6 DEF PermitInv, Failing, Fresh, ReceiverEnds, Looping, muxer
<1> QED
  BY <1>1, <1>2, <1>3, <1>4, <1>5, <1>6

\* Steps of the publisher.
LEMMA PermitMuxer ==
  ASSUME IInv, PermitInv,
         \/ StartPublish \/ StopPublish \/ StopMuxer \/ StopReturns
         \/ \E k \in Closer : Disconnected(k)
         \/ \E t \in Track : Encode(t) \/ AddFrame(t) \/ FrameAdded(t)
         \/ WorkerConnects \/ WorkerConnected \/ LoopTest \/ CacheTest
         \/ TakeFrame \/ SendFrame \/ Park \/ WaitOver
         \/ UNCHANGED vars
  PROVE  PermitInv'
<1> SUFFICES ASSUME Fresh' PROVE PermitInv'
  BY DEF PermitInv
<1>0. starts \in Nat /\ stops \in Nat
  BY MaxStartsAssumption DEF IInv, TypeOK
<1> USE FreshFacts
<1>1. CASE StartPublish
  <2>1. Fresh /\ starts = 0 /\ starts' = 1
    BY <1>0, <1>1 DEF StartPublish, Fresh
  <2>2. worker = "none" /\ call = "none" /\ worker' = "new"
    BY <1>1 DEF StartPublish, IInv, StoppedInv, WorkerInv
  <2> QED
    BY <1>1, <2>1, <2>2 DEF PermitInv, Failing, StartPublish, connButCounter, Looping
<1>2. CASE StopPublish \/ UNCHANGED vars
  BY <1>2 DEF PermitInv, Failing, Fresh, StopPublish, conn, vars, muxer
<1>3. CASE StopMuxer
  BY <1>3 DEF PermitInv, Failing, Fresh, StopMuxer, connButCounter
<1>4. CASE StopReturns
  BY <1>0, <1>4 DEF Fresh, StopReturns
<1>5. ASSUME NEW k \in Closer, Disconnected(k) PROVE PermitInv'
  BY <1>5 DEF Disconnected, Fresh
<1>6. ASSUME NEW t \in Track, Encode(t) \/ AddFrame(t) PROVE PermitInv'
  BY <1>6 DEF PermitInv, Failing, Fresh, Encode, AddFrame, conn
<1>7. ASSUME NEW t \in Track, FrameAdded(t) PROVE PermitInv'
  <2>1. starts # 0
    BY <1>7 DEF FrameAdded, IInv, FrameInv
  <2> QED
    BY <1>7, <2>1 DEF PermitInv, Failing, Fresh, FrameAdded, connButCounter, Looping
<1>8. CASE WorkerConnects
  BY <1>8 DEF PermitInv, Failing, Fresh, WorkerConnects, BeginConnect, Looping, IInv, WorkerInv
<1>9. CASE WorkerConnected
  BY <1>9 DEF PermitInv, Failing, Fresh, WorkerConnected, Looping, IInv, WorkerInv
<1>10. CASE LoopTest \/ CacheTest \/ Park \/ WaitOver
  <2>1. worker \in Looping /\ worker' \in Looping \cup {"ended"} /\ starts # 0
    BY <1>10 DEF LoopTest, CacheTest, Park, WaitOver, Moves, Looping, IInv, WorkerInv
  <2>2. UNCHANGED <<connButCounter, videoFrameCacheNumber, starts, stops>>
    BY <1>10 DEF LoopTest, CacheTest, Park, WaitOver, Moves
  <2> QED
    BY <2>1, <2>2 DEF PermitInv, Failing, Fresh, connButCounter, Looping
<1>11. CASE TakeFrame
  BY <1>11 DEF PermitInv, Failing, Fresh, TakeFrame, Crash, conn, muxer, Looping
<1>12. CASE SendFrame
  <2>1. worker \in Looping /\ worker' \in Looping /\ starts # 0
    BY <1>12 DEF SendFrame, Looping, IInv, WorkerInv
  <2>2. UNCHANGED <<connButCounter, starts, stops>>
    BY <1>12 DEF SendFrame
  <2> QED
    BY <2>1, <2>2 DEF PermitInv, Failing, Fresh, connButCounter, Looping
<1> QED
  BY <1>1, <1>2, <1>3, <1>4, <1>5, <1>6, <1>7, <1>8, <1>9, <1>10, <1>11, <1>12

\* Every step.
LEMMA PermitStep ==
  ASSUME IInv, PermitInv, [Next]_vars
  PROVE  PermitInv'
<1>1. CASE \E k \in Closer : Closing(k)
  BY <1>1, PermitClosing DEF Closing, OnConnection, Closer
<1>2. CASE \E c \in Conn : Receiving(c)
  BY <1>2, PermitReceiving DEF Receiving, OnConnection
<1>3. CASE Connecting
  BY <1>3, ZeroCalls, PermitClosing, PermitConnecting DEF Connecting, OnConnection
<1> QED
  BY <1>1, <1>2, <1>3, PermitMuxer DEF Next, Worker

-----------------------------------------------------------------------------
(* Counting the video frames of the cache.                                 *)

\* The places of the video frames are finitely many.
LEMMA VideoFinite ==
  ASSUME NEW s \in Seq(Frame)
  PROVE  /\ IsFiniteSet(VideoIn(s)) /\ Cardinality(VideoIn(s)) \in Nat
         /\ VideoIn(s) \subseteq 1 .. Len(s) /\ Len(s) \in Nat
<1>1. VideoIn(s) \subseteq 1 .. Len(s) /\ Len(s) \in Nat
  BY LenProperties DEF VideoIn
<1>2. IsFiniteSet(1 .. Len(s))
  BY ONLY <1>1, FS_Interval
<1> QED
  BY <1>1, <1>2, FS_Subset, FS_CardinalityType

\* A frame at the end.
LEMMA VideoAppended ==
  ASSUME NEW s \in Seq(Frame), NEW f \in Frame
  PROVE  Cardinality(VideoIn(Append(s, f))) =
           Cardinality(VideoIn(s)) + (IF f.track = "video" THEN 1 ELSE 0)
<1> DEFINE a == Append(s, f)
<1>1. /\ a \in Seq(Frame) /\ Len(a) = Len(s) + 1 /\ a[Len(s) + 1] = f
      /\ \A k \in 1 .. Len(s) : a[k] = s[k]
  BY AppendProperties
<1>2. /\ DOMAIN s = 1 .. Len(s) /\ Len(s) \in Nat /\ DOMAIN a = 1 .. Len(s) + 1
  BY <1>1, LenProperties
<1> HIDE DEF a
<1>3. IsFiniteSet(VideoIn(s)) /\ Cardinality(VideoIn(s)) \in Nat /\ Len(s) + 1 \notin VideoIn(s)
  <2>1. /\ IsFiniteSet(VideoIn(s)) /\ Cardinality(VideoIn(s)) \in Nat
        /\ VideoIn(s) \subseteq 1 .. Len(s)
    BY VideoFinite
  <2>2. Len(s) + 1 \notin 1 .. Len(s)
    BY ONLY <1>2
  <2> QED
    BY <2>1, <2>2
<1>4. CASE f.track = "video"
  <2>1. VideoIn(a) = VideoIn(s) \cup {Len(s) + 1}
    BY <1>1, <1>2, <1>4 DEF VideoIn
  <2> QED
    BY <1>3, <1>4, <2>1, FS_AddElement DEF a
<1>5. CASE f.track # "video"
  <2>1. VideoIn(a) = VideoIn(s)
    BY <1>1, <1>2, <1>5 DEF VideoIn
  <2> QED
    BY <1>3, <1>5, <2>1 DEF a
<1> QED
  BY <1>4, <1>5

\* The frame at the front taken away.
LEMMA VideoTaken ==
  ASSUME NEW s \in Seq(Frame), s # <<>>
  PROVE  Cardinality(VideoIn(s)) =
           Cardinality(VideoIn(Tail(s))) + (IF Head(s).track = "video" THEN 1 ELSE 0)
<1> DEFINE b == Tail(s)
           R == VideoIn(s) \ {1}
<1>1. /\ b \in Seq(Frame) /\ Len(b) = Len(s) - 1 /\ Head(s) = s[1] /\ Len(s) >= 1
      /\ \A k \in 1 .. Len(b) : b[k] = s[k + 1]
  BY HeadTailProperties, EmptySeq, LenProperties
<1>2. DOMAIN s = 1 .. Len(s) /\ Len(s) \in Nat /\ DOMAIN b = 1 .. Len(b) /\ Len(b) \in Nat
  BY <1>1, LenProperties
<1> HIDE DEF b
<1>3. /\ IsFiniteSet(VideoIn(s)) /\ Cardinality(VideoIn(s)) \in Nat
      /\ IsFiniteSet(VideoIn(b)) /\ Cardinality(VideoIn(b)) \in Nat
  BY <1>1, VideoFinite
<1>4. Cardinality(R) = Cardinality(VideoIn(b))
  <2> DEFINE g == [k \in VideoIn(b) |-> k + 1]
  <2>1. \A k \in VideoIn(b) : k \in Nat /\ k + 1 \in R
    BY <1>1, <1>2 DEF VideoIn
  <2>2. \A j \in R : j - 1 \in VideoIn(b) /\ j \in Nat /\ (j - 1) + 1 = j
    <3>1. ASSUME NEW j \in R PROVE j - 1 \in VideoIn(b) /\ j \in Nat /\ (j - 1) + 1 = j
      <4>1. j \in 1 .. Len(s) /\ j # 1 /\ s[j].track = "video"
        BY <1>2, <3>1 DEF VideoIn
      <4>2. j - 1 \in 1 .. Len(b) /\ (j - 1) + 1 = j /\ j \in Nat
        BY ONLY <1>1, <1>2, <4>1
      <4>3. b[j - 1] = s[j]
        BY <1>1, <4>2
      <4> QED
        BY <1>2, <4>1, <4>2, <4>3 DEF VideoIn
    <3> QED
      BY <3>1
  <2>3. g \in [VideoIn(b) -> R]
    BY <2>1
  <2>4. \A k, l \in VideoIn(b) : g[k] = g[l] => k = l
    BY <2>1
  <2>5. \A j \in R : \E k \in VideoIn(b) : g[k] = j
    BY <2>2
  <2> HIDE DEF g, R
  <2>6. g \in Bijection(VideoIn(b), R)
    BY <2>3, <2>4, <2>5 DEF Bijection, Injection, Surjection, IsInjective
  <2>7. ExistsBijection(VideoIn(b), R)
    BY <2>6 DEF ExistsBijection
  <2> QED
    BY <1>3, <2>7, FS_Bijection
<1>5. 1 \in VideoIn(s) <=> Head(s).track = "video"
  BY <1>1, <1>2 DEF VideoIn
<1>6. Cardinality(R) = IF 1 \in VideoIn(s) THEN Cardinality(VideoIn(s)) - 1 ELSE Cardinality(VideoIn(s))
  BY <1>3, FS_RemoveElement
<1> QED
  BY <1>3, <1>4, <1>5, <1>6 DEF b

-----------------------------------------------------------------------------
(* The sequence header comes first.                                        *)

\* A step that touches neither the frames nor the headers.
LEMMA HeaderStill ==
  ASSUME HeaderInv, UNCHANGED <<starts, stops, started, headers, hand, mFlvTagCache, got, enc>>,
         worker \in Looping => worker' \in Looping \cup {"ended"},
         worker = "ended" => worker' = "ended"
  PROVE  HeaderInv'
BY DEF HeaderInv, Fresh, HeaderTaken, HeaderCached, HeaderAdded, VideoHeader, VideoIn

\* Encoding the first picture of the first stream gives the sequence header.
LEMMA HeaderEncode ==
  ASSUME IInv, HeaderInv, TurnsInv, NEW t \in Track, Encode(t)
  PROVE  HeaderInv'
<1>0. /\ enc \in [Track -> [at : {"off", "idle", "add", "added"}, frame : Frame \cup {NoFrame}]]
      /\ starts # 0 /\ enc[t].at = "idle" /\ started
  BY DEF IInv, TypeOK, FrameInv, TurnsInv, Encode
<1>1. PICK s \in Sample(t) :
        LET f == [stream |-> starts, track |-> t, header |-> t \notin got]
        IN  /\ got' = IF Writes(t, s) THEN got \cup {t} ELSE got
            /\ enc' = IF Writes(t, s) /\ Passes(t, s) /\ started
                        THEN [enc EXCEPT ![t] = [at |-> "add", frame |-> f]]
                        ELSE enc
  BY DEF Encode
<1>2. UNCHANGED <<starts, stops, started, headers, hand, mFlvTagCache, worker>>
  BY DEF Encode
<1>3. HeaderCached' = HeaderCached /\ HeaderTaken' = HeaderTaken
  BY <1>2 DEF HeaderCached, HeaderTaken, VideoHeader
<1>4. CASE t = "video"
  <2>1. CASE t \in got
    <3>1. "video" \in got => HeaderCached \/ ~Fresh
      BY <1>0, <1>4 DEF HeaderInv, HeaderAdded
    <3> QED
      BY <1>0, <1>1, <1>2, <1>3, <1>4, <2>1, <3>1 DEF HeaderInv, Fresh, VideoHeader
  <2>2. CASE t \notin got
    <3>1. CASE Writes(t, s)
      <4>1. Passes(t, s)
        BY <1>4, <2>2, <3>1 DEF Writes, Passes
      <4>2. enc' = [enc EXCEPT ![t] = [at |-> "add",
                       frame |-> [stream |-> starts, track |-> t, header |-> t \notin got]]]
        BY <1>0, <1>1, <3>1, <4>1
      <4>3. HeaderAdded'
        BY <1>0, <1>4, <2>2, <4>2 DEF HeaderAdded
      <4> QED
        BY <1>0, <1>2, <1>3, <4>3 DEF HeaderInv, Fresh, VideoHeader
    <3>2. CASE ~Writes(t, s)
      BY <1>1, <1>2, <3>2, HeaderStill
    <3> QED
      BY <3>1, <3>2
  <2> QED
    BY <2>1, <2>2
<1>5. CASE t # "video"
  <2>1. "video" \in got' => "video" \in got
    BY <1>1, <1>5
  <2>2. "video" \in Track => enc'["video"] = enc["video"]
    BY <1>0, <1>1, <1>5
  <2> QED
    BY <1>0, <1>2, <1>3, <2>1, <2>2 DEF HeaderInv, HeaderAdded, Fresh, VideoHeader
<1> QED
  BY <1>4, <1>5

\* A frame goes to the end of the cache.
LEMMA HeaderAdd ==
  ASSUME IInv, HeaderInv, TrackInv, NEW t \in Track, AddFrame(t)
  PROVE  HeaderInv'
<1>0. /\ enc \in [Track -> [at : {"off", "idle", "add", "added"}, frame : Frame \cup {NoFrame}]]
      /\ starts # 0 /\ enc[t].at = "add" /\ enc[t].frame \in Frame /\ enc[t].frame.track = t
      /\ mFlvTagCache \in Seq(Frame)
  BY DEF IInv, TypeOK, FrameInv, TrackInv, AddFrame
<1> DEFINE f == enc[t].frame
           c == mFlvTagCache
<1>1. /\ UNCHANGED <<starts, stops, started, headers, hand, got, worker>>
      /\ c' = Append(c, f) /\ enc' = [enc EXCEPT ![t].at = "added"]
  BY DEF AddFrame
<1>2. /\ DOMAIN c = 1 .. Len(c) /\ DOMAIN c' = 1 .. Len(c) + 1 /\ Len(c) \in Nat
      /\ c'[Len(c) + 1] = f /\ \A k \in 1 .. Len(c) : c'[k] = c[k]
  <2>1. /\ c' \in Seq(Frame) /\ Len(c') = Len(c) + 1 /\ c'[Len(c) + 1] = f
        /\ \A k \in 1 .. Len(c) : c'[k] = c[k]
    BY <1>0, <1>1, AppendProperties
  <2> QED
    BY <1>0, <2>1, LenProperties
<1>3. HeaderTaken' = HeaderTaken
  BY <1>1 DEF HeaderTaken, VideoHeader
<1>4. HeaderCached => HeaderCached'
  BY <1>2, <1>3 DEF HeaderCached, VideoHeader
<1>5. VideoHeader(f) => HeaderCached'
  BY <1>2 DEF HeaderCached, VideoHeader
<1>6. "video" \in Track => \/ t = "video" /\ enc'["video"].at = "added"
                           \/ t # "video" /\ enc'["video"] = enc["video"]
  BY <1>0, <1>1
<1>7. t = "video" /\ HeaderAdded => VideoHeader(f)
  BY <1>0 DEF HeaderAdded, VideoHeader
<1>8. ASSUME Fresh, started, NEW k \in VideoIn(c')
      PROVE  HeaderTaken \/ \E j \in 1 .. k : VideoHeader(c'[j])
  <2>1. CASE k \in 1 .. Len(c)
    <3>1. HeaderTaken \/ \E j \in 1 .. k : VideoHeader(c[j])
      BY <1>2, <1>8, <2>1 DEF HeaderInv, VideoIn
    <3>2. \A j \in 1 .. k : j \in 1 .. Len(c)
      BY <1>2, <2>1
    <3> QED
      BY <1>2, <3>1, <3>2
  <2>2. CASE k = Len(c) + 1
    <3>1. t = "video"
      BY <1>0, <1>2, <1>8, <2>2 DEF VideoIn
    <3>2. VideoHeader(f) \/ HeaderCached
      BY <1>0, <1>7, <1>8, <3>1 DEF HeaderInv
    <3>3. k \in 1 .. k /\ \A j \in 1 .. Len(c) : j \in 1 .. k
      BY <1>2, <2>2
    <3> QED
      BY <1>2, <2>2, <3>2, <3>3 DEF HeaderCached, VideoHeader
  <2> QED
    BY <1>2, <1>8, <2>1, <2>2 DEF VideoIn
<1>9. ASSUME Fresh, started, "video" \in Track
      PROVE  /\ enc'["video"].at = "add" => HeaderAdded' \/ HeaderCached'
             /\ "video" \in got' => HeaderAdded' \/ HeaderCached'
  <2>1. t # "video" => HeaderAdded' = HeaderAdded
    BY <1>6, <1>9 DEF HeaderAdded
  <2> QED
    BY <1>1, <1>4, <1>5, <1>6, <1>7, <1>9, <2>1 DEF HeaderInv
<1> HIDE DEF f, c
<1> QED
  BY <1>0, <1>1, <1>3, <1>8, <1>9 DEF HeaderInv, Fresh, c

\* The worker takes the frame at the front.
LEMMA HeaderTake ==
  ASSUME IInv, HeaderInv, TakeFrame
  PROVE  HeaderInv'
<1>1. CASE Crash /\ UNCHANGED muxer
  BY <1>1, HeaderStill DEF muxer
<1>2. CASE ~(Crash /\ UNCHANGED muxer)
  <2> DEFINE c == mFlvTagCache
  <2>1. /\ c # <<>> /\ hand' = Head(c) /\ c' = Tail(c)
        /\ worker = "take" /\ worker' = "send"
        /\ UNCHANGED <<headers, starts, stops, started, got, enc>>
    BY <1>2 DEF TakeFrame
  <2>2. hand = NoFrame /\ hand.track # "video" /\ starts # 0
    BY <2>1 DEF IInv, FrameInv, WorkerInv, Looping, NoFrame
  <2>3. /\ DOMAIN c = 1 .. Len(c) /\ Len(c) \in Nat /\ Len(c) >= 1
        /\ DOMAIN c' = 1 .. Len(c) - 1 /\ Head(c) = c[1]
        /\ \A k \in 1 .. Len(c) - 1 : c'[k] = c[k + 1]
    <3>1. c \in Seq(Frame)
      BY DEF IInv, TypeOK
    <3>2. /\ c' \in Seq(Frame) /\ Len(c') = Len(c) - 1 /\ Head(c) = c[1]
          /\ Len(c) >= 1 /\ \A k \in 1 .. Len(c') : c'[k] = c[k + 1]
      BY <2>1, <3>1, HeadTailProperties, EmptySeq, LenProperties
    <3> QED
      BY <3>1, <3>2, LenProperties
  <2>4. HeaderTaken => HeaderTaken'
    BY <2>1, <2>2 DEF HeaderTaken, VideoHeader
  <2>5. \A j \in DOMAIN c : VideoHeader(c[j]) =>
          HeaderTaken' \/ (j - 1 \in DOMAIN c' /\ VideoHeader(c'[j - 1]))
    <3>1. \A j \in DOMAIN c : j = 1 \/ (j - 1 \in DOMAIN c' /\ c'[j - 1] = c[j])
      BY <2>3
    <3> QED
      BY <2>1, <2>3, <3>1 DEF HeaderTaken, VideoHeader
  <2>6. HeaderCached => HeaderCached'
    BY <2>4, <2>5 DEF HeaderCached, VideoHeader
  <2>7. ASSUME Fresh, started, hand'.track = "video" PROVE HeaderTaken'
    <3>1. 1 \in VideoIn(c)
      BY <2>1, <2>3, <2>7 DEF VideoIn
    <3>2. HeaderTaken \/ VideoHeader(c[1])
      BY <2>7, <3>1 DEF HeaderInv
    <3> QED
      BY <2>1, <2>3, <2>4, <3>2 DEF HeaderTaken, VideoHeader
  <2>8. ASSUME Fresh, started, NEW k \in VideoIn(c')
        PROVE  HeaderTaken' \/ \E j \in 1 .. k : VideoHeader(c'[j])
    <3>1. k + 1 \in VideoIn(c) /\ k \in Nat
      BY <2>3, <2>8 DEF VideoIn
    <3>2. HeaderTaken \/ \E j \in 1 .. k + 1 : VideoHeader(c[j])
      BY <2>8, <3>1 DEF HeaderInv
    <3>3. \A j \in 1 .. k + 1 : j \in DOMAIN c
      BY <2>3, <3>1 DEF VideoIn
    <3>4. \A j \in 1 .. k + 1 : j - 1 \in DOMAIN c' => j - 1 \in 1 .. k
      BY <2>3, <3>1
    <3> QED
      BY <2>4, <2>5, <3>2, <3>3, <3>4
  <2>9. HeaderAdded' = HeaderAdded
    BY <2>1 DEF HeaderAdded
  <2> HIDE DEF c
  <2> QED
    BY <2>1, <2>2, <2>6, <2>7, <2>8, <2>9 DEF HeaderInv, Fresh, c, VideoHeader, Looping
<1> QED
  BY <1>1, <1>2

\* A sequence header that is sent stays.
LEMMA HeaderSend ==
  ASSUME IInv, HeaderInv, SendFrame
  PROVE  HeaderInv'
<1>1. /\ worker = "send" /\ worker' = "poll" /\ hand' = NoFrame
      /\ headers' = IF hand.header THEN headers \cup {hand.track} ELSE headers
      /\ UNCHANGED <<starts, stops, started, mFlvTagCache, got, enc>>
  BY DEF SendFrame
<1>2. starts # 0 /\ hand'.track # "video"
  BY <1>1 DEF IInv, WorkerInv, Looping, NoFrame
<1>3. HeaderTaken => HeaderTaken'
  BY <1>1 DEF HeaderTaken, VideoHeader
<1>4. HeaderCached => HeaderCached'
  BY <1>1, <1>3 DEF HeaderCached, VideoHeader
<1>5. HeaderAdded' = HeaderAdded
  BY <1>1 DEF HeaderAdded
<1> QED
  BY <1>1, <1>2, <1>3, <1>4, <1>5 DEF HeaderInv, Fresh, VideoHeader, VideoIn, Looping

\* Every step.
LEMMA HeaderStep ==
  ASSUME IInv, TurnsInv, TrackInv, PermitInv, HeaderInv, [Next]_vars
  PROVE  HeaderInv'
<1>0. /\ starts \in Nat /\ stops \in Nat
      /\ enc \in [Track -> [at : {"off", "idle", "add", "added"}, frame : Frame \cup {NoFrame}]]
  BY MaxStartsAssumption DEF IInv, TypeOK
<1>1. CASE StartPublish
  <2>1. /\ mFlvTagCache' = <<>> /\ hand' = NoFrame
    BY <1>1 DEF StartPublish, IInv, StoppedInv, FrameInv
  <2>2. VideoIn(mFlvTagCache') = {} /\ hand'.track # "video"
    BY <2>1, EmptySeq DEF VideoIn, NoFrame
  <2>3. /\ starts' = starts + 1 /\ stops' = stops /\ headers' = headers /\ got' = got
        /\ \A t \in Track : enc'[t].at = "idle"
    BY <1>1 DEF StartPublish, Idle
  <2>4. starts' # 0 /\ (Fresh' => starts = 0)
    BY <1>0, <2>3 DEF Fresh
  <2> QED
    BY <2>2, <2>3, <2>4 DEF HeaderInv, VideoHeader
<1>2. CASE StopPublish
  BY <1>2, HeaderStill DEF StopPublish
<1>3. CASE StopMuxer
  BY <1>3 DEF StopMuxer, HeaderInv
<1>4. CASE StopReturns
  BY <1>0, <1>4 DEF StopReturns, HeaderInv, Fresh
<1>5. ASSUME NEW k \in Closer, Disconnected(k) PROVE HeaderInv'
  <2>1. ~Fresh /\ ~Fresh'
    BY <1>5, FreshFacts DEF Disconnected, Fresh
  <2> QED
    BY <1>5, <2>1 DEF Disconnected, HeaderInv
<1>6. ASSUME NEW t \in Track, Encode(t) \/ AddFrame(t) PROVE HeaderInv'
  BY <1>6, HeaderEncode, HeaderAdd
<1>7. ASSUME NEW t \in Track, FrameAdded(t) PROVE HeaderInv'
  <2>1. /\ UNCHANGED <<starts, stops, started, headers, hand, mFlvTagCache, got>>
        /\ worker' = worker \/ (worker = "wait" /\ worker' = "loop")
        /\ enc' = [enc EXCEPT ![t] = Idle] /\ enc[t].at = "added"
    BY <1>7 DEF FrameAdded
  <2>2. "video" \in Track => \/ enc'["video"] = enc["video"]
                             \/ enc'["video"].at = "idle" /\ enc["video"].at = "added"
    BY <1>0, <2>1 DEF Idle
  <2>3. HeaderCached' = HeaderCached /\ HeaderTaken' = HeaderTaken
    BY <2>1 DEF HeaderCached, HeaderTaken, VideoHeader
  <2>4. "video" \in Track => HeaderAdded' = HeaderAdded
    BY <2>2 DEF HeaderAdded
  <2> QED
    BY <2>1, <2>2, <2>3, <2>4 DEF HeaderInv, Fresh, VideoHeader, VideoIn, Looping
<1>8. CASE Connecting \/ (\E k \in Closer : Closing(k)) \/ (\E c \in Conn : Receiving(c)) \/ UNCHANGED vars
  <2>1. UNCHANGED muxer
    BY <1>8 DEF Connecting, Closing, Receiving, OnConnection, vars
  <2> QED
    BY <2>1, HeaderStill DEF muxer
<1>9. CASE WorkerConnects
  BY <1>9, HeaderStill DEF WorkerConnects, Looping
<1>10. CASE WorkerConnected
  <2>1. /\ UNCHANGED <<starts, stops, started, hand, mFlvTagCache, got, enc>>
        /\ headers' = {} /\ worker = "connect" /\ worker' \in {"loop", "ended"}
    BY <1>10 DEF WorkerConnected
  <2>2. CASE Fresh /\ started
    <3>1. headers = {}
      BY <2>1, <2>2 DEF HeaderInv, Looping
    <3> QED
      BY <2>1, <3>1, HeaderStill DEF Looping
  <2>3. CASE ~(Fresh /\ started)
    BY <2>1, <2>3 DEF HeaderInv, Fresh
  <2> QED
    BY <2>2, <2>3
<1>11. CASE LoopTest \/ CacheTest \/ Park \/ WaitOver
  BY <1>11, HeaderStill DEF LoopTest, CacheTest, Park, WaitOver, Moves, Looping
<1>12. CASE TakeFrame \/ SendFrame
  BY <1>12, HeaderTake, HeaderSend
<1> QED
  BY <1>1, <1>2, <1>3, <1>4, <1>5, <1>6, <1>7, <1>8, <1>9, <1>10, <1>11, <1>12 DEF Next, Worker

-----------------------------------------------------------------------------
(* The counter.                                                            *)

\* A step that touches neither the frames nor the counter.
LEMMA CountStill ==
  ASSUME CountInv, UNCHANGED <<starts, stops, started, hand, mFlvTagCache, enc>>,
         ~Failing' => ~Failing /\ videoFrameCacheNumber' = videoFrameCacheNumber
  PROVE  CountInv'
BY DEF CountInv, Fresh, VideoWaiting, Uncounted, VideoIn

\* Steps of the connection: only a worker that gives up resets the counter.
LEMMA CountConn ==
  ASSUME IInv, PermitInv, CountInv,
         Connecting \/ (\E k \in Closer : Closing(k)) \/ (\E c \in Conn : Receiving(c)) \/ UNCHANGED vars
  PROVE  CountInv'
<1>0. UNCHANGED muxer
  BY DEF Connecting, Closing, Receiving, OnConnection, vars
<1>1. SUFFICES ASSUME Fresh PROVE CountInv'
  BY <1>0 DEF CountInv, Fresh, muxer
<1>2. CASE \E k \in Closer : Closing(k)
  BY <1>1, <1>2, FreshFacts DEF Closing, OnConnection, CloseStream, ShutSocket, JoinReceiver,
     CloseSocket, Reset
<1>3. CASE \E c \in Conn : Receiving(c)
  <2>1. UNCHANGED <<call, videoFrameCacheNumber>>
    BY <1>3 DEF Receiving, OnConnection, ReceiveConnected, ReceiveCreated, ReceiveStarted,
       ReceiveOther, ReceiverEnds, Lose, Crash
  <2> QED
    BY <1>0, <2>1, CountStill DEF Failing, muxer
<1>4. CASE Connecting
  <2>1. \/ call' = call /\ videoFrameCacheNumber' = videoFrameCacheNumber
        \/ call \notin {"closing", "failed"} /\ videoFrameCacheNumber' = videoFrameCacheNumber
        \/ call' = "failed"
    BY <1>4 DEF Connecting, OnConnection, Handshake, HandshakeFails, RtmpConnect, WaitEnds,
       ConnectDone, CreateStream, PublishDone, AfterWait, ShutSocket, JoinReceiver, CloseSocket,
       Reset, Crash
  <2> QED
    BY <1>0, <2>1, CountStill DEF Failing, muxer
<1>5. CASE UNCHANGED vars
  BY <1>0, <1>5, CountStill DEF Failing, vars, conn, muxer
<1> QED
  BY <1>2, <1>3, <1>4, <1>5

\* A frame is added: if it is one of the video it is yet to be counted.
LEMMA CountAdd ==
  ASSUME IInv, TrackInv, CountInv, NEW t \in Track, AddFrame(t)
  PROVE  CountInv'
<1>0. /\ enc \in [Track -> [at : {"off", "idle", "add", "added"}, frame : Frame \cup {NoFrame}]]
      /\ enc[t].at = "add" /\ enc[t].frame \in Frame /\ enc[t].frame.track = t
      /\ mFlvTagCache \in Seq(Frame) /\ videoFrameCacheNumber \in Int
  BY DEF IInv, TypeOK, ConnTypeOK, FrameInv, TrackInv, AddFrame
<1>1. /\ UNCHANGED <<starts, stops, started, hand, worker, call, videoFrameCacheNumber>>
      /\ mFlvTagCache' = Append(mFlvTagCache, enc[t].frame)
      /\ enc' = [enc EXCEPT ![t].at = "added"]
  BY DEF AddFrame, conn
<1>2. /\ Cardinality(VideoIn(mFlvTagCache')) =
           Cardinality(VideoIn(mFlvTagCache)) + (IF t = "video" THEN 1 ELSE 0)
      /\ Cardinality(VideoIn(mFlvTagCache)) \in Nat
  BY <1>0, <1>1, VideoAppended, VideoFinite
<1>3. Uncounted' = Uncounted + (IF t = "video" THEN 1 ELSE 0) /\ Uncounted \in {0, 1}
  BY <1>0, <1>1 DEF Uncounted
<1>4. VideoWaiting' = VideoWaiting + (IF t = "video" THEN 1 ELSE 0) /\ VideoWaiting \in Nat
  BY <1>1, <1>2 DEF VideoWaiting
<1> QED
  BY <1>0, <1>1, <1>3, <1>4 DEF CountInv, Fresh, Failing

\* It is counted.
LEMMA CountAdded ==
  ASSUME IInv, CountInv, NEW t \in Track, FrameAdded(t)
  PROVE  CountInv'
<1>0. /\ enc \in [Track -> [at : {"off", "idle", "add", "added"}, frame : Frame \cup {NoFrame}]]
      /\ enc[t].at = "added" /\ mFlvTagCache \in Seq(Frame) /\ videoFrameCacheNumber \in Int
  BY DEF IInv, TypeOK, ConnTypeOK, FrameAdded
<1>1. /\ UNCHANGED <<starts, stops, started, hand, call, mFlvTagCache>>
      /\ worker' = worker \/ (worker = "wait" /\ worker' = "loop")
      /\ enc' = [enc EXCEPT ![t] = Idle]
      /\ videoFrameCacheNumber' = videoFrameCacheNumber + (IF t = "video" THEN 1 ELSE 0)
  BY DEF FrameAdded, connButCounter
<1>2. Uncounted = Uncounted' + (IF t = "video" THEN 1 ELSE 0) /\ Uncounted' \in {0, 1}
  BY <1>0, <1>1 DEF Uncounted, Idle
<1>3. VideoWaiting' = VideoWaiting /\ VideoWaiting \in Nat
  <2>1. Cardinality(VideoIn(mFlvTagCache)) \in Nat
    BY <1>0, VideoFinite
  <2> QED
    BY <1>1, <2>1 DEF VideoWaiting
<1>4. (Fresh /\ started /\ ~Failing)' => Fresh /\ started /\ ~Failing
  BY <1>1 DEF Failing, Fresh
<1>5. ASSUME videoFrameCacheNumber = VideoWaiting - Uncounted
      PROVE  videoFrameCacheNumber' = VideoWaiting' - Uncounted'
  BY <1>0, <1>1, <1>2, <1>3, <1>5
<1> QED
  BY <1>4, <1>5 DEF CountInv

\* The frame the worker takes still waits.
LEMMA CountTake ==
  ASSUME IInv, CountInv, TakeFrame
  PROVE  CountInv'
<1>1. CASE Crash /\ UNCHANGED muxer
  BY <1>1, CountStill DEF muxer, Crash, Failing
<1>2. CASE ~(Crash /\ UNCHANGED muxer)
  <2>1. /\ mFlvTagCache # <<>> /\ hand' = Head(mFlvTagCache) /\ mFlvTagCache' = Tail(mFlvTagCache)
        /\ worker = "take" /\ worker' = "send"
        /\ UNCHANGED <<starts, stops, started, enc, call, videoFrameCacheNumber>>
    BY <1>2 DEF TakeFrame, conn
  <2>2. hand.track # "video" /\ mFlvTagCache \in Seq(Frame)
    BY <2>1 DEF IInv, TypeOK, FrameInv, NoFrame
  <2>3. Cardinality(VideoIn(mFlvTagCache)) =
          Cardinality(VideoIn(mFlvTagCache')) + (IF hand'.track = "video" THEN 1 ELSE 0)
    BY <2>1, <2>2, VideoTaken
  <2>4. VideoWaiting' = VideoWaiting
    <3>1. Cardinality(VideoIn(mFlvTagCache')) \in Nat
      BY <2>1, <2>2, VideoFinite, HeadTailProperties
    <3> QED
      BY <2>2, <2>3, <3>1 DEF VideoWaiting
  <2> QED
    BY <2>1, <2>4 DEF CountInv, Fresh, Failing, Uncounted
<1> QED
  BY <1>1, <1>2

\* Every video frame the worker has taken is sent and counted off.
LEMMA CountSend ==
  ASSUME IInv, PermitInv, HeaderInv, CountInv, SendFrame
  PROVE  CountInv'
<1>1. /\ worker = "send" /\ worker' = "poll" /\ hand' = NoFrame
      /\ UNCHANGED <<starts, stops, started, mFlvTagCache, enc, call>>
  BY DEF SendFrame, connButCounter
<1>2. SUFFICES ASSUME Fresh, started PROVE CountInv'
  BY <1>1 DEF CountInv, Fresh
<1>3. ~Failing /\ ~Failing' /\ worker \in Looping
  BY <1>1 DEF Failing, Looping, IInv, WorkerInv
<1>4. hand.track = "video" => (hand.header \/ hand.track \in headers) /\ MayPublish
  BY <1>2, <1>3 DEF PermitInv, HeaderInv, HeaderTaken, VideoHeader, MayPublish
<1>5. videoFrameCacheNumber' = videoFrameCacheNumber - (IF hand.track = "video" THEN 1 ELSE 0)
  BY <1>4 DEF SendFrame
<1>6. VideoWaiting = VideoWaiting' + (IF hand.track = "video" THEN 1 ELSE 0) /\ VideoWaiting' \in Nat
  <2>1. mFlvTagCache \in Seq(Frame) /\ hand'.track # "video"
    BY <1>1 DEF IInv, TypeOK, NoFrame
  <2>2. Cardinality(VideoIn(mFlvTagCache)) \in Nat
    BY <2>1, VideoFinite
  <2> QED
    BY <1>1, <2>1, <2>2 DEF VideoWaiting
<1>7. Uncounted' = Uncounted /\ Uncounted \in {0, 1} /\ videoFrameCacheNumber \in Int
  BY <1>1 DEF Uncounted, IInv, TypeOK, ConnTypeOK
<1>8. videoFrameCacheNumber = VideoWaiting - Uncounted
  BY <1>2, <1>3 DEF CountInv
<1> QED
  BY <1>5, <1>6, <1>7, <1>8 DEF CountInv

\* Every step.
LEMMA CountStep ==
  ASSUME IInv, TrackInv, PermitInv, HeaderInv, CountInv, [Next]_vars
  PROVE  CountInv'
<1>0. /\ starts \in Nat /\ stops \in Nat
      /\ enc \in [Track -> [at : {"off", "idle", "add", "added"}, frame : Frame \cup {NoFrame}]]
  BY MaxStartsAssumption DEF IInv, TypeOK
<1>1. CASE StartPublish
  <2>1. SUFFICES ASSUME Fresh' PROVE CountInv'
    BY DEF CountInv
  <2>2. Fresh /\ starts = 0
    BY <1>0, <1>1, <2>1 DEF StartPublish, Fresh
  <2>3. mFlvTagCache' = <<>> /\ hand' = NoFrame
    BY <1>1 DEF StartPublish, IInv, StoppedInv, FrameInv
  <2>4. VideoIn(mFlvTagCache') = {} /\ hand'.track # "video"
    BY <2>3, EmptySeq DEF VideoIn, NoFrame
  <2>5. VideoWaiting' = 0
    BY <2>4, FS_EmptySet DEF VideoWaiting
  <2>6. \A t \in Track : enc'[t].at = "idle"
    BY <1>1 DEF StartPublish, Idle
  <2>7. Uncounted' = 0
    BY <2>6 DEF Uncounted
  <2>8. videoFrameCacheNumber' = 0
    BY <1>1, <2>2 DEF PermitInv, StartPublish
  <2> QED
    BY <2>5, <2>7, <2>8 DEF CountInv
<1>2. CASE StopPublish
  BY <1>2, CountStill DEF StopPublish, conn, Failing
<1>3. CASE StopMuxer
  BY <1>3 DEF StopMuxer, CountInv
<1>4. CASE StopReturns
  BY <1>0, <1>4 DEF StopReturns, CountInv, Fresh
<1>5. ASSUME NEW k \in Closer, Disconnected(k) PROVE CountInv'
  BY <1>5, FreshFacts DEF Disconnected, CountInv, Fresh
<1>6. ASSUME NEW t \in Track, Encode(t) PROVE CountInv'
  <2>1. PICK f \in {[stream |-> starts, track |-> t, header |-> b] : b \in BOOLEAN} :
          enc' = enc \/ enc' = [enc EXCEPT ![t] = [at |-> "add", frame |-> f]]
    BY <1>6 DEF Encode
  <2>2. Uncounted' = Uncounted
    BY <1>0, <1>6, <2>1 DEF Uncounted, Encode
  <2> QED
    BY <1>6, <2>2 DEF Encode, conn, CountInv, Fresh, Failing, VideoWaiting
<1>7. ASSUME NEW t \in Track, AddFrame(t) \/ FrameAdded(t) PROVE CountInv'
  BY <1>7, CountAdd, CountAdded
<1>8. CASE Connecting \/ (\E k \in Closer : Closing(k)) \/ (\E c \in Conn : Receiving(c)) \/ UNCHANGED vars
  BY <1>8, CountConn
<1>9. CASE WorkerConnects
  BY <1>9, CountStill DEF WorkerConnects, BeginConnect, Failing, IInv, WorkerInv
<1>10. CASE WorkerConnected
  BY <1>10, CountStill DEF WorkerConnected, Failing
<1>11. CASE LoopTest \/ CacheTest \/ Park \/ WaitOver
  <2>1. worker \in Looping /\ call = "none" /\ ~Failing
    BY <1>11 DEF LoopTest, CacheTest, Park, WaitOver, Moves, Looping, IInv, WorkerInv, Failing
  <2> QED
    BY <1>11, <2>1, CountStill DEF LoopTest, CacheTest, Park, WaitOver, Moves
<1>12. CASE TakeFrame \/ SendFrame
  BY <1>12, CountTake, CountSend
<1> QED
  BY <1>1, <1>2, <1>3, <1>4, <1>5, <1>6, <1>7, <1>8, <1>9, <1>10, <1>11, <1>12 DEF Next, Worker

\* In the first stream the fields, the headers and the counter fit.
THEOREM FirstInvariance == Spec => []FirstInv
<1>1. ASSUME Init PROVE FirstInv
  <2>1. TurnsInv /\ TrackInv
    BY <1>1 DEF Init, TurnsInv, TrackInv, Off
  <2>2. PermitInv
    BY <1>1 DEF Init, ConnInit, PermitInv, Fresh, Closer, Looping
  <2>3. HeaderInv /\ CountInv
    BY <1>1 DEF Init, HeaderInv, CountInv
  <2> QED
    BY <2>1, <2>2, <2>3 DEF FirstInv
<1>2. ASSUME IInv, FirstInv, [Next]_vars PROVE FirstInv'
  <2>1. TurnsInv' /\ TrackInv' /\ PermitInv' /\ HeaderInv' /\ CountInv'
    BY <1>2, TurnsStep, TrackStep, PermitStep, HeaderStep, CountStep DEF FirstInv
  <2> QED
    BY <2>1 DEF FirstInv
<1> QED
  BY <1>1, <1>2, Invariance, PTL DEF Spec

\* In the first stream the counter by which the encoders are throttled is the
\* number of the video frames that wait, but for one that was added and is
\* yet to be counted: the worker sends and counts off every one it takes
\* (SrsFlvMuxer 138-164, 982-987, RtmpConnection 428-449).
THEOREM CacheNumberAlways == Spec => []CacheNumber
<1>1. ASSUME IInv, FirstInv PROVE CacheNumber
  <2>1. SUFFICES ASSUME starts = 1, started, worker \in Looping
                 PROVE  videoFrameCacheNumber = VideoWaiting - Uncounted
    BY DEF CacheNumber
  <2>2. Fresh
    BY <1>1, <2>1 DEF FirstInv, TurnsInv, Fresh, IInv, TypeOK
  <2>3. ~Failing
    BY <1>1, <2>1 DEF Failing, Looping, IInv, WorkerInv
  <2> QED
    BY <1>1, <2>1, <2>2, <2>3 DEF FirstInv, CountInv
<1> QED
  BY <1>1, Invariance, FirstInvariance, PTL

-----------------------------------------------------------------------------
(* The connection of the first stream is closed.                           *)

\* A step that brings no connection to life and lets no thread past it.
LEMMA ClosedStill ==
  ASSUME ClosedInv, UNCHANGED <<starts, stops, socket>>,
         \A c \in Conn : Alive(c)' => Alive(c),
         worker' = "new" => worker = "new",
         \A k \in Closer : down[k].at = "none" => down'[k].at = "none",
         \A k \in Caller : down'[k].at = down[k].at \/ down'[k].at \in {"stream", "shut", "join", "close"}
                             \/ (down'[k].at \in {"none", "done"} /\ down[k].at \in {"reset", "done"})
  PROVE  ClosedInv'
<1>1. 0 \in Caller /\ Closer \subseteq Caller
  BY ZeroCalls DEF Closer
<1>2. /\ down'[0].at = "reset" => down[0].at = "reset"
      /\ \A k \in Closer : Past(k)' => Past(k)
  BY <1>1 DEF Past
<1> QED
  BY <1>2 DEF ClosedInv, ClosersInv, AliveInv

\* Steps of connect and publish: a connection is alive before it is open.
LEMMA ClosedConnecting ==
  ASSUME IInv, TurnsInv, ClosedInv, UNCHANGED muxer,
         \/ Handshake \/ HandshakeFails \/ RtmpConnect \/ WaitEnds
         \/ ConnectDone \/ CreateStream \/ PublishDone
  PROVE  ClosedInv'
<1>0. /\ tcp \in [Conn -> Tcp] /\ down \in [Caller -> Down]
      /\ UNCHANGED <<starts, stops, worker>> /\ 0 \in Caller
  BY ZeroCalls DEF IInv, TypeOK, ConnTypeOK, muxer
<1>1. socket' = socket
  BY DEF Handshake, HandshakeFails, RtmpConnect, WaitEnds, ConnectDone, CreateStream, PublishDone,
     AfterWait, Crash
<1>2. \A c \in Conn : Alive(c)' => Alive(c)
  BY <1>0 DEF Handshake, HandshakeFails, RtmpConnect, WaitEnds, ConnectDone, CreateStream,
     PublishDone, AfterWait, Crash, Alive
<1>3. \A k \in Caller : down'[k].at = down[k].at \/ (k = 0 /\ down'[k].at = "shut")
  BY <1>0 DEF Handshake, HandshakeFails, RtmpConnect, WaitEnds, ConnectDone, CreateStream,
     PublishDone, AfterWait, Crash, Down
<1>4. \A k \in Closer : down'[k].at = down[k].at
  BY <1>3 DEF Closer
<1> QED
  BY <1>0, <1>1, <1>2, <1>3, <1>4, ClosedStill

\* Steps that close: a thread gets past the socket when it is closed or when
\* the field is null, and then no connection is alive.
LEMMA ClosedClosing ==
  ASSUME IInv, TurnsInv, ClosedInv, UNCHANGED muxer, NEW t \in Caller,
         CloseStream(t) \/ ShutSocket(t) \/ JoinReceiver(t) \/ CloseSocket(t) \/ Reset(t)
  PROVE  ClosedInv'
<1>0. /\ tcp \in [Conn -> Tcp] /\ down \in [Caller -> Down]
      /\ UNCHANGED <<starts, stops, worker>> /\ 0 \in Caller /\ 0 \notin Conn
      /\ socket \in Conn \cup {0}
  BY ZeroCalls DEF IInv, TypeOK, ConnTypeOK, muxer, Conn
<1>a. \A k \in Closer : down[k].at = "none" => down'[k].at = "none"
  BY <1>0 DEF CloseStream, ShutSocket, JoinReceiver, CloseSocket, Reset, Crash, Goto, Closer, Down
<1>b. ClosersInv'
  BY <1>0, <1>a DEF ClosedInv, ClosersInv
<1>1. SUFFICES ASSUME starts <= 1 PROVE AliveInv'
  BY <1>0, <1>b DEF ClosedInv, AliveInv
<1>2. CASE Crash \/ CloseStream(t) \/ JoinReceiver(t)
  <2>1. UNCHANGED <<socket, tcp>>
    BY <1>2 DEF Crash, CloseStream, JoinReceiver
  <2>2. \A k \in Caller : down'[k].at = down[k].at \/ down'[k].at \in {"shut", "close"}
    BY <1>0, <1>2 DEF Crash, CloseStream, JoinReceiver, Goto, Down
  <2> QED
    BY <1>0, <1>a, <2>1, <2>2, ClosedStill DEF Alive, ClosedInv
<1>3. CASE ShutSocket(t) /\ socket # 0
  <2>1. socket' = socket /\ tcp' = [tcp EXCEPT ![socket] = IF @ = "open" THEN "shut" ELSE @]
    BY <1>3 DEF ShutSocket
  <2>2. \A k \in Caller : down'[k].at = down[k].at \/ down'[k].at \in {"join", "close"}
    BY <1>0, <1>3 DEF ShutSocket, Goto, Down
  <2> QED
    BY <1>0, <1>a, <2>1, <2>2, ClosedStill DEF Alive, ClosedInv
<1>4. CASE ShutSocket(t) /\ socket = 0
  <2>1. \A c \in Conn : ~Alive(c)
    BY <1>0, <1>1, <1>4 DEF ClosedInv, AliveInv
  <2>2. tcp' = tcp
    BY <1>0, <1>4 DEF ShutSocket
  <2> QED
    BY <2>1, <2>2 DEF AliveInv, Alive
<1>5. CASE CloseSocket(t) /\ ~Crash
  <2>1. tcp' = [tcp EXCEPT ![socket] = "closed"] /\ socket # 0
    BY <1>5 DEF CloseSocket
  <2>2. \A c \in Conn : ~Alive(c)'
    BY <1>0, <1>1, <2>1 DEF ClosedInv, AliveInv, Alive
  <2> QED
    BY <2>2 DEF AliveInv
<1>6. CASE Reset(t)
  <2>1. down[t].at = "reset" /\ tcp' = tcp
    BY <1>6 DEF Reset
  <2>2. \A c \in Conn : ~Alive(c)
    <3>1. CASE t = 0
      BY <1>1, <2>1, <3>1 DEF ClosedInv, AliveInv
    <3>2. CASE t # 0
      <4>1. t \in Closer /\ t <= stops
        BY <1>0, <2>1, <3>2 DEF Closer, ClosedInv, ClosersInv
      <4> QED
        BY <1>1, <2>1, <4>1 DEF ClosedInv, AliveInv, Past
    <3> QED
      BY <3>1, <3>2
  <2> QED
    BY <2>1, <2>2 DEF AliveInv, Alive
<1> QED
  BY <1>2, <1>3, <1>4, <1>5, <1>6

\* The other steps: a connection comes to life when the worker connects, and
\* a thread of a stop begins when the worker has ended.
LEMMA ClosedMuxer ==
  ASSUME IInv, TurnsInv, ClosedInv,
         \/ StartPublish \/ StopPublish \/ StopMuxer \/ StopReturns
         \/ \E k \in Closer : Disconnected(k)
         \/ \E t \in Track : Encode(t) \/ AddFrame(t) \/ FrameAdded(t)
         \/ WorkerConnects \/ WorkerConnected \/ LoopTest \/ CacheTest
         \/ TakeFrame \/ SendFrame \/ Park \/ WaitOver
         \/ \E c \in Conn : Receiving(c)
         \/ UNCHANGED vars
  PROVE  ClosedInv'
<1>0. /\ tcp \in [Conn -> Tcp] /\ down \in [Caller -> Down] /\ starts \in Nat /\ stops \in Nat
      /\ 0 \in Caller /\ 0 \notin Conn /\ Closer \subseteq Caller /\ 0 \notin Closer
  BY ZeroCalls, MaxStartsAssumption DEF IInv, TypeOK, ConnTypeOK, Conn, Closer
<1>1. CASE StartPublish
  <2>1. UNCHANGED <<tcp, down, socket, stops>> /\ starts' = starts + 1
    BY <1>1 DEF StartPublish, connButCounter
  <2>2. starts' <= 1 => starts = 0
    BY <1>0, <2>1
  <2>3. starts = 0 => \A c \in Conn : ~Alive(c)
    BY <1>0 DEF ClosedInv, AliveInv
  <2>4. AliveInv'
    BY <2>1, <2>2, <2>3 DEF AliveInv, Alive
  <2>5. ClosersInv'
    BY <2>1 DEF ClosedInv, ClosersInv
  <2> QED
    BY <2>4, <2>5 DEF ClosedInv
<1>2. CASE StopPublish \/ StopMuxer \/ UNCHANGED vars
           \/ \E t \in Track : Encode(t) \/ AddFrame(t) \/ FrameAdded(t)
  <2>1. UNCHANGED <<tcp, down, socket, stops, starts>>
    BY <1>2 DEF StopPublish, StopMuxer, Encode, AddFrame, FrameAdded, vars, conn, muxer, connButCounter
  <2>2. worker' = "new" => worker = "new"
    BY <1>2 DEF StopPublish, StopMuxer, Encode, AddFrame, FrameAdded, vars, muxer
  <2> QED
    BY <2>1, <2>2, ClosedStill DEF Alive
<1>3. CASE StopReturns
  <2>1. /\ UNCHANGED <<tcp, socket, starts>> /\ stops' = stops + 1 /\ worker' = "none"
        /\ down' = [down EXCEPT ![stops + 1].at = "stream"]
    BY <1>3 DEF StopReturns, Goto
  <2>2. stops + 1 \in Closer
    BY <1>0, <1>3, StopsBound DEF StopReturns, Closer, Caller
  <2>3. /\ down'[0] = down[0] /\ down'[stops + 1].at = "stream"
        /\ \A k \in Closer : k # stops + 1 => down'[k] = down[k]
    BY <1>0, <2>1, <2>2 DEF Down
  <2>4. ClosersInv'
    BY <1>0, <2>1, <2>3 DEF ClosedInv, ClosersInv, Closer, Caller
  <2>5. \A k \in Closer : Past(k)' => Past(k)
    BY <1>0, <2>1, <2>3 DEF Past, Closer, Caller
  <2>6. AliveInv'
    BY <2>1, <2>3, <2>5 DEF ClosedInv, AliveInv, Alive
  <2> QED
    BY <2>4, <2>6 DEF ClosedInv
<1>4. ASSUME NEW k \in Closer, Disconnected(k) PROVE ClosedInv'
  <2>1. /\ UNCHANGED <<tcp, socket, starts, stops, worker>> /\ down[k].at = "done"
        /\ down' = [down EXCEPT ![k].at = "none"]
    BY <1>4 DEF Disconnected, Goto
  <2>2. \A j \in Caller : down'[j].at = down[j].at \/ (down'[j].at = "none" /\ down[j].at = "done")
    BY <1>0, <2>1 DEF Down
  <2> QED
    BY <1>0, <2>1, <2>2, ClosedStill DEF Alive
<1>5. CASE WorkerConnects
  <2>1. /\ tcp' = [tcp EXCEPT ![starts] = "connecting"] /\ socket' = starts
        /\ UNCHANGED <<down, starts, stops>> /\ worker = "new" /\ worker' = "connect"
    BY <1>5 DEF WorkerConnects, BeginConnect
  <2>2. starts # 0 /\ down[0].at = "none"
    BY <2>1 DEF IInv, WorkerInv
  <2>3. ClosersInv'
    BY <2>1 DEF ClosedInv, ClosersInv
  <2>4. ASSUME starts <= 1 PROVE AliveInv'
    <3>1. \A c \in Conn : ~Alive(c)
      BY <2>1, <2>4 DEF ClosedInv, AliveInv
    <3>2. \A c \in Conn : Alive(c)' => c = starts
      BY <1>0, <2>1, <3>1 DEF Alive
    <3>3. stops = 0
      BY <1>0, <2>1, <2>4 DEF TurnsInv
    <3>4. \A k \in Closer : ~Past(k)'
      BY <2>1, <3>3 DEF Past, Closer, Caller
    <3> QED
      BY <2>1, <2>2, <3>2, <3>4 DEF AliveInv
  <2> QED
    BY <2>1, <2>3, <2>4 DEF ClosedInv, AliveInv
<1>6. CASE WorkerConnected \/ LoopTest \/ CacheTest \/ TakeFrame \/ SendFrame \/ Park \/ WaitOver
  <2>1. UNCHANGED <<tcp, down, socket, stops, starts>>
    BY <1>6 DEF WorkerConnected, LoopTest, CacheTest, Moves, TakeFrame, SendFrame, Park, WaitOver,
       Crash, conn, muxer, connButCounter
  <2>2. worker' = "new" => worker = "new"
    BY <1>6 DEF WorkerConnected, LoopTest, CacheTest, Moves, TakeFrame, SendFrame, Park, WaitOver, muxer
  <2> QED
    BY <2>1, <2>2, ClosedStill DEF Alive
<1>7. ASSUME NEW c \in Conn, Receiving(c) PROVE ClosedInv'
  <2>1. UNCHANGED <<down, socket, stops, starts, worker>>
    BY <1>7 DEF Receiving, OnConnection, ReceiveConnected, ReceiveCreated, ReceiveStarted,
       ReceiveOther, ReceiverEnds, Lose, Crash, muxer
  <2>2. \A d \in Conn : Alive(d)' => Alive(d)
    BY <1>0, <1>7 DEF Receiving, OnConnection, ReceiveConnected, ReceiveCreated, ReceiveStarted,
       ReceiveOther, ReceiverEnds, Lose, Crash, Alive
  <2> QED
    BY <2>1, <2>2, ClosedStill
<1> QED
  BY <1>1, <1>2, <1>3, <1>4, <1>5, <1>6, <1>7

\* In the first stream at most the connection in the field socket is alive,
\* and no thread of a stop has left it so.
THEOREM FirstClosing == Spec => []ClosedInv
<1>1. ASSUME Init PROVE ClosedInv
  <2>1. 0 \in Caller /\ \A k \in Caller : down[k].at = "none"
    BY <1>1, ZeroCalls DEF Init, ConnInit
  <2>2. \A c \in Conn : ~Alive(c)
    BY <1>1 DEF Init, ConnInit, Alive
  <2> QED
    BY <2>1, <2>2 DEF ClosedInv, ClosersInv, AliveInv, Closer
<1>2. ASSUME IInv, TurnsInv, ClosedInv, [Next]_vars PROVE ClosedInv'
  <2>1. CASE \E k \in Closer : Closing(k)
    BY <1>2, <2>1, ClosedClosing DEF Closing, OnConnection, Closer
  <2>2. CASE Connecting
    BY <1>2, <2>2, ZeroCalls, ClosedClosing, ClosedConnecting DEF Connecting, OnConnection
  <2> QED
    BY <1>2, <2>1, <2>2, ClosedMuxer DEF Next, Worker
<1>3. FirstInv => TurnsInv
  BY DEF FirstInv
<1> QED
  BY <1>1, <1>2, <1>3, Invariance, FirstInvariance, PTL DEF Spec

\* As long as the user has not started a second time, no connection is open
\* when every thread of a stop is through, whatever failed on the way; with
\* two starts one can be, which the run FlvLeaks shows.
THEOREM FirstStreamCloses == Spec => [](starts <= 1 => StoppedIsClosed)
<1>1. ASSUME IInv, FirstInv, ClosedInv PROVE starts <= 1 => StoppedIsClosed
  <2>1. SUFFICES ASSUME starts <= 1, Quiet, NEW c \in Conn, Alive(c) PROVE FALSE
    BY DEF StoppedIsClosed, Alive
  <2>2. starts # 0 /\ \A k \in Closer : ~Past(k)
    BY <1>1, <2>1 DEF ClosedInv, AliveInv
  <2>3. stops # 0 /\ stops \in Nat /\ 1 \in Closer
    BY <1>1, <2>1, <2>2, MaxStartsAssumption
       DEF FirstInv, TurnsInv, Quiet, IInv, TypeOK, Closer, Caller
  <2>4. down[1].at = "none"
    BY <2>1, <2>3 DEF Quiet, Closer
  <2> QED
    BY <2>2, <2>3, <2>4 DEF Past
<1> QED
  BY <1>1, Invariance, FirstInvariance, FirstClosing, PTL

\* With one start every connection is closed in the end (SrsFlvMuxer 172-197).
THEOREM StoppedIsClosedAlways ==
  ASSUME MaxStarts = 1
  PROVE  Spec => []StoppedIsClosed
<1>1. IInv /\ (starts <= 1 => StoppedIsClosed) => StoppedIsClosed
  BY DEF IInv, TypeOK
<1> QED
  BY <1>1, Invariance, FirstStreamCloses, PTL

=============================================================================
