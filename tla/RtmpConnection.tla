--------------------------- MODULE RtmpConnection ---------------------------
(***************************************************************************)
(* The RTMP client of the live publisher, RtmpConnection: the fields its   *)
(* threads share, with no lock around any of them.                         *)
(*                                                                         *)
(* One object serves every stream of a push screen.  connect and publish   *)
(* are called by the worker of the muxer (caller 0), close by the threads  *)
(* SrsFlvMuxer.stop starts (callers 1, 2, ...), one for each stop; every   *)
(* connection that was made has a thread that reads the server's answers.  *)
(* The module has no next-state relation of its own: FlvMuxer composes the *)
(* steps below with those of the muxer, the encoders and the main thread.  *)
(*                                                                         *)
(* A connection is named by the number of the call of connect that made    *)
(* it, and the Socket, its two streams, the session info and the receiving *)
(* thread made with it have its number; 0 is null.  The stream name and    *)
(* the decoder are set and reset together with the session info and are    *)
(* not kept apart from it.  The assignments of reset are one step, and so  *)
(* are the guards of a call and what it sends after them, shutdown up to   *)
(* its join, and a packet with the test of the loop that follows it.       *)
(* Notifications to the screen are left out: the push screen ignores them. *)
(*                                                                         *)
(* A NullPointerException on any of these threads is not caught and kills  *)
(* the process: crashed.                                                   *)
(***************************************************************************)
EXTENDS Integers, Sequences, FiniteSets

CONSTANT MaxStarts   \* bound: how often the user starts to push

ASSUME MaxStartsAssumption == MaxStarts \in Nat \ {0}

Conn   == 1 .. MaxStarts
Caller == 0 .. MaxStarts + 1   \* the worker, and a thread for every stop
Closer == Caller \ {0}

VARIABLES
  call,        \* where the worker is in connect and publish
  interrupted, \* the interrupt status of the worker
  down,        \* where each caller is in close or shutdown
  newest,      \* the last connection that was begun
  socket, session, rxPacketHandler, \* fields: 0 is null
  out,         \* inputStream and outputStream, which are set together
  connected, publishPermitted, currentStreamId,
  videoFrameCacheNumber,
  tcp,         \* the state of each connection
  rx,          \* the receiving thread of each connection
  reads,       \* the connection it reads from
  rxInterrupted, \* its interrupt status
  asked,       \* the last thing the server of a connection was told or said
  crashed      \* the process was killed

conn == <<call, interrupted, down, newest, socket, session, rxPacketHandler,
          out, connected, publishPermitted, currentStreamId,
          videoFrameCacheNumber, tcp, rx, reads, rxInterrupted, asked,
          crashed>>

Down  == [at : {"none", "stream", "shut", "join", "close", "reset", "done"},
          rx : Conn \cup {0}]
Tcp   == {"none", "connecting", "open", "shut", "closed"}
Asked == {"nothing", "connect", "connected", "createStream", "created",
          "publish", "started", "closed"}

ConnTypeOK ==
  /\ call \in {"none", "handshake", "check", "waitConnect", "connectDone",
               "createStream", "waitPublish", "publishDone", "closing",
               "failed", "ok"}
  /\ interrupted \in BOOLEAN
  /\ down \in [Caller -> Down]
  /\ {newest, socket, session, rxPacketHandler, out, currentStreamId}
       \subseteq Conn \cup {0}
  /\ connected \in BOOLEAN
  /\ publishPermitted \in BOOLEAN
  /\ videoFrameCacheNumber \in Int
  /\ tcp \in [Conn -> Tcp]
  /\ rx \in [Conn -> {"none", "run", "ended"}]
  /\ reads \in [Conn -> Conn \cup {0}]
  /\ rxInterrupted \in [Conn -> BOOLEAN]
  /\ asked \in [Conn -> Asked]
  /\ crashed \in BOOLEAN

ConnInit ==
  /\ call = "none"
  /\ interrupted = FALSE
  /\ down = [t \in Caller |-> [at |-> "none", rx |-> 0]]
  /\ newest = 0
  /\ socket = 0
  /\ session = 0
  /\ rxPacketHandler = 0
  /\ out = 0
  /\ connected = FALSE
  /\ publishPermitted = FALSE
  /\ currentStreamId = 0
  /\ videoFrameCacheNumber = 0
  /\ tcp = [c \in Conn |-> "none"]
  /\ rx = [c \in Conn |-> "none"]
  /\ reads = [c \in Conn |-> 0]
  /\ rxInterrupted = [c \in Conn |-> FALSE]
  /\ asked = [c \in Conn |-> "nothing"]
  /\ crashed = FALSE

-----------------------------------------------------------------------------
(* Vocabulary.                                                             *)

Goto(t, where) == down' = [down EXCEPT ![t].at = where]

\* A NullPointerException: the process is killed, nothing else changes.
Crash ==
  /\ crashed' = TRUE
  /\ UNCHANGED <<call, interrupted, down, newest, socket, session,
                 rxPacketHandler, out, connected, publishPermitted,
                 currentStreamId, videoFrameCacheNumber, tcp, rx,
                 reads, rxInterrupted, asked>>

\* sendRtmpPacket: what the servers have been told when the connection of
\* outputStream has been written to; a broken connection takes nothing.
Sent(a, what) ==
  IF out # 0 /\ tcp[out] = "open" THEN [a EXCEPT ![out] = what] ELSE a

\* The guards of closeStream, publishAudioData and publishVideoData.
MayPublish == connected /\ currentStreamId # 0 /\ publishPermitted

-----------------------------------------------------------------------------
(* connect and publish, called by the worker.                              *)

\* connect: a new session info and a new Socket, whatever the old ones are.
BeginConnect(c) ==
  /\ newest' = c
  /\ session' = c
  /\ socket' = c
  /\ tcp' = [tcp EXCEPT ![c] = "connecting"]
  /\ call' = "handshake"
  /\ UNCHANGED <<interrupted, down, rxPacketHandler, out, connected,
                 publishPermitted, currentStreamId, videoFrameCacheNumber,
                 rx, reads, rxInterrupted, asked, crashed>>

\* connect is false after an IOException.  A socket that cannot connect
\* closes itself; when the handshake throws, nobody closes it.
HandshakeFails ==
  /\ call = "handshake"
  /\ call' = "failed"
  /\ \/ /\ tcp' = [tcp EXCEPT ![newest] = "closed"]
        /\ UNCHANGED out
     \/ /\ tcp' = [tcp EXCEPT ![newest] = IF @ = "connecting" THEN "open" ELSE @]
        /\ out' = newest
  /\ UNCHANGED <<interrupted, down, newest, socket, session, rxPacketHandler,
                 connected, publishPermitted, currentStreamId,
                 videoFrameCacheNumber, rx, reads, rxInterrupted, asked,
                 crashed>>

\* The field socket is read again after connect has returned; reset may have
\* set it to null.
Handshake ==
  /\ call = "handshake"
  /\ \/ socket = 0 /\ Crash
     \/ /\ socket # 0
        /\ tcp[newest] = "connecting"
        /\ tcp' = [tcp EXCEPT ![newest] = "open"]
        /\ out' = newest
        /\ rxPacketHandler' = newest
        /\ rx' = [rx EXCEPT ![newest] = "run"]
        /\ reads' = [reads EXCEPT ![newest] = newest]
        /\ call' = "check"
        /\ UNCHANGED <<interrupted, down, newest, socket, session, connected,
                       publishPermitted, currentStreamId,
                       videoFrameCacheNumber, rxInterrupted, asked, crashed>>

\* rtmpConnect up to the wait: it refuses when connected is still true.
RtmpConnect ==
  /\ call = "check"
  /\ \/ ~connected /\ session = 0 /\ Crash
     \/ /\ connected \/ session # 0
        /\ call' = IF connected THEN "failed" ELSE "waitConnect"
        /\ asked' = IF connected THEN asked ELSE Sent(asked, "connect")
        /\ UNCHANGED <<interrupted, down, newest, socket, session,
                       rxPacketHandler, out, connected, publishPermitted,
                       currentStreamId, videoFrameCacheNumber, tcp, rx,
                       reads, rxInterrupted, crashed>>

\* connectingLock.wait(5000) and publishLock.wait(5000) end when the lock is
\* notified, after the time, or when the worker is interrupted; the
\* InterruptedException is caught and the interrupt status is lost.
WaitEnds ==
  /\ call \in {"waitConnect", "waitPublish"}
  /\ call' = IF call = "waitConnect" THEN "connectDone" ELSE "publishDone"
  /\ interrupted' = FALSE
  /\ UNCHANGED <<down, newest, socket, session, rxPacketHandler, out,
                 connected, publishPermitted, currentStreamId,
                 videoFrameCacheNumber, tcp, rx, reads, rxInterrupted, asked,
                 crashed>>

\* After the wait: go on, or shut the connection down and return false.
AfterWait(where, done, next) ==
  /\ call = where
  /\ call' = IF done THEN next ELSE "closing"
  /\ down' = IF done THEN down ELSE [down EXCEPT ![0].at = "shut"]
  /\ UNCHANGED <<interrupted, newest, socket, session, rxPacketHandler, out,
                 connected, publishPermitted, currentStreamId,
                 videoFrameCacheNumber, tcp, rx, reads, rxInterrupted, asked,
                 crashed>>

ConnectDone == AfterWait("connectDone", connected, "createStream")
PublishDone == AfterWait("publishDone", publishPermitted, "ok")

\* createStream up to the wait.
CreateStream ==
  LET refused == ~connected \/ currentStreamId # 0
  IN  /\ call = "createStream"
      /\ call' = IF refused THEN "failed" ELSE "waitPublish"
      /\ asked' = IF refused THEN asked ELSE Sent(asked, "createStream")
      /\ UNCHANGED <<interrupted, down, newest, socket, session,
                     rxPacketHandler, out, connected, publishPermitted,
                     currentStreamId, videoFrameCacheNumber, tcp, rx,
                     reads, rxInterrupted, crashed>>

-----------------------------------------------------------------------------
(* close and shutdown, called by the thread of a stop and by the worker.   *)

\* Variant for mutation: close does not shut the socket down.
CloseStreamOnly(t) ==
  /\ down[t].at = "stream"
  /\ asked' = IF socket # 0 /\ MayPublish THEN Sent(asked, "closed") ELSE asked
  /\ Goto(t, "reset")
  /\ UNCHANGED <<call, interrupted, newest, socket, session, rxPacketHandler,
                 out, connected, publishPermitted, currentStreamId,
                 videoFrameCacheNumber, tcp, rx, reads, rxInterrupted,
                 crashed>>

\* close: closeStream when there is a socket.
CloseStream(t) ==
  /\ down[t].at = "stream"
  /\ asked' = IF socket # 0 /\ MayPublish THEN Sent(asked, "closed") ELSE asked
  /\ Goto(t, "shut")
  /\ UNCHANGED <<call, interrupted, newest, socket, session, rxPacketHandler,
                 out, connected, publishPermitted, currentStreamId,
                 videoFrameCacheNumber, tcp, rx, reads, rxInterrupted,
                 crashed>>

\* shutdown up to the join; without a socket there is only reset.
ShutSocket(t) ==
  /\ down[t].at = "shut"
  /\ \/ socket = 0 /\ Goto(t, "reset") /\ UNCHANGED <<tcp, rxInterrupted>>
     \/ /\ socket # 0
        /\ tcp' = [tcp EXCEPT ![socket] = IF @ = "open" THEN "shut" ELSE @]
        /\ IF rxPacketHandler = 0
             THEN Goto(t, "close") /\ UNCHANGED rxInterrupted
             ELSE /\ rxInterrupted' =
                       [rxInterrupted EXCEPT ![rxPacketHandler] = TRUE]
                  /\ down' = [down EXCEPT
                                ![t] = [at |-> "join", rx |-> rxPacketHandler]]
  /\ UNCHANGED <<call, interrupted, newest, socket, session, rxPacketHandler,
                 out, connected, publishPermitted, currentStreamId,
                 videoFrameCacheNumber, rx, reads, asked, crashed>>

\* rxPacketHandler.join(); an interrupted worker does not wait, and
\* interrupts the thread again, if there still is one.
JoinReceiver(t) ==
  /\ down[t].at = "join"
  /\ \/ t = 0 /\ interrupted /\ rxPacketHandler = 0 /\ Crash
     \/ /\ \/ rx[down[t].rx] = "ended" /\ UNCHANGED interrupted
           \/ /\ t = 0 /\ interrupted /\ rxPacketHandler # 0
              /\ interrupted' = FALSE
        /\ rxPacketHandler' = 0
        /\ down' = [down EXCEPT ![t] = [at |-> "close", rx |-> 0]]
        /\ UNCHANGED <<call, newest, socket, session, out, connected,
                       publishPermitted, currentStreamId,
                       videoFrameCacheNumber, tcp, rx, reads, rxInterrupted,
                       asked, crashed>>

\* socket.close(), of the socket the field holds by now.
CloseSocket(t) ==
  /\ down[t].at = "close"
  /\ \/ socket = 0 /\ Crash
     \/ /\ socket # 0
        /\ tcp' = [tcp EXCEPT ![socket] = "closed"]
        /\ Goto(t, "reset")
        /\ UNCHANGED <<call, interrupted, newest, socket, session,
                       rxPacketHandler, out, connected, publishPermitted,
                       currentStreamId, videoFrameCacheNumber, rx,
                       reads, rxInterrupted, asked, crashed>>

\* reset; shutdown returns, to close or to connect or publish.
Reset(t) ==
  /\ down[t].at = "reset"
  /\ connected' = FALSE
  /\ publishPermitted' = FALSE
  /\ currentStreamId' = 0
  /\ videoFrameCacheNumber' = 0
  /\ socket' = 0
  /\ session' = 0
  /\ Goto(t, IF t = 0 THEN "none" ELSE "done")
  /\ call' = IF t = 0 THEN "failed" ELSE call
  /\ UNCHANGED <<interrupted, newest, rxPacketHandler, out, tcp, rx,
                 reads, rxInterrupted, asked, crashed>>

-----------------------------------------------------------------------------
(* The receiving thread c.  For every packet it reads the fields again: the *)
(* input stream and the decoder may be those of a newer connection.         *)

Reads(c) == rx[c] = "run" /\ tcp[reads[c]] = "open"

\* The loop tests the interrupt status after every packet.
NextPacket(c) ==
  /\ rx' = [rx EXCEPT ![c] = IF rxInterrupted[c] THEN "ended" ELSE "run"]
  /\ reads' = [reads EXCEPT ![c] = out]

\* _result of connect.  takeInvokedCommand yields null, which is used, when
\* the session has no request of that number; the numbers begin again with
\* every reset, and so the answer to an older request may pass for one to a
\* request of this session.
ReceiveConnected(c) ==
  LET d == reads[c]
  IN  /\ Reads(c)
      /\ asked[d] = "connect"
      /\ \/ session # d /\ Crash
         \/ /\ session # 0
            /\ connected' = TRUE
            /\ asked' = [asked EXCEPT ![d] = "connected"]
            /\ NextPacket(c)
            /\ UNCHANGED <<call, interrupted, down, newest, socket, session,
                           rxPacketHandler, out, publishPermitted,
                           currentStreamId, videoFrameCacheNumber, tcp,
                           rxInterrupted, crashed>>

\* _result of createStream, then fmlePublish.
ReceiveCreated(c) ==
  LET d       == reads[c]
      created == [asked EXCEPT ![d] = "created"]
  IN  /\ Reads(c)
      /\ asked[d] = "createStream"
      /\ \/ session # d /\ Crash
         \/ /\ session # 0
            /\ currentStreamId' = d
            /\ asked' = IF connected THEN Sent(created, "publish")
                                     ELSE created
            /\ NextPacket(c)
            /\ UNCHANGED <<call, interrupted, down, newest, socket, session,
                           rxPacketHandler, out, connected, publishPermitted,
                           videoFrameCacheNumber, tcp, rxInterrupted,
                           crashed>>

\* onStatus NetStream.Publish.Start; what onMetaData sends needs no answer.
\* The loop needs the decoder for the next packet.
ReceiveStarted(c) ==
  /\ Reads(c)
  /\ asked[reads[c]] = "publish"
  /\ \/ session = 0 /\ ~rxInterrupted[c] /\ Crash
     \/ /\ session # 0 \/ rxInterrupted[c]
        /\ publishPermitted' = TRUE
        /\ asked' = [asked EXCEPT ![reads[c]] = "started"]
        /\ NextPacket(c)
        /\ UNCHANGED <<call, interrupted, down, newest, socket, session,
                       rxPacketHandler, out, connected, currentStreamId,
                       videoFrameCacheNumber, tcp, rxInterrupted, crashed>>

\* A packet that changes nothing here, such as an acknowledgement or the
\* answer to releaseStream; it may need the session, as the loop needs the
\* decoder.
ReceiveOther(c) ==
  /\ Reads(c)
  /\ \/ /\ \/ session = 0
           \/ /\ session # reads[c]
              /\ asked[reads[c]] \notin {"nothing", "connect", "connected"}
        /\ Crash
     \/ /\ session # 0 \/ rxInterrupted[c]
        /\ NextPacket(c)
        /\ UNCHANGED <<call, interrupted, down, newest, socket, session,
                       rxPacketHandler, out, connected, publishPermitted,
                       currentStreamId, videoFrameCacheNumber, tcp,
                       rxInterrupted, asked, crashed>>

\* The end of the stream interrupts the thread; an exception of the socket
\* does not, and the loop goes on until somebody does.
ReceiverEnds(c) ==
  LET ends == tcp[reads[c]] = "shut" \/ rxInterrupted[c]
  IN  /\ rx[c] = "run"
      /\ tcp[reads[c]] \in {"shut", "closed"}
      /\ \/ ~ends /\ session = 0 /\ Crash
         \/ /\ ends \/ session # 0
            /\ rx' = [rx EXCEPT ![c] = IF ends THEN "ended" ELSE "run"]
            /\ reads' = [reads EXCEPT ![c] = out]
            /\ UNCHANGED <<call, interrupted, down, newest, socket, session,
                           rxPacketHandler, out, connected, publishPermitted,
                           currentStreamId, videoFrameCacheNumber, tcp,
                           rxInterrupted, asked, crashed>>

\* A connection breaks: the server closes it, or it is reset.
Lose(c) ==
  /\ tcp[c] = "open"
  /\ tcp' \in {[tcp EXCEPT ![c] = "shut"], [tcp EXCEPT ![c] = "closed"]}
  /\ UNCHANGED <<call, interrupted, down, newest, socket, session,
                 rxPacketHandler, out, connected, publishPermitted,
                 currentStreamId, videoFrameCacheNumber, rx, reads,
                 rxInterrupted, asked, crashed>>
=============================================================================
