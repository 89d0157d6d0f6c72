---------------------------- MODULE SoftEncoder ----------------------------
(***************************************************************************)
(* Coding the pictures of the camera in software: SrsCameraView's worker,  *)
(* SrsPublisher, SrsEncoder and the native half of SrsEncoder, libenc.cc,  *)
(* on top of the encoder, which is EncoderPipe here (FrameThreads shows    *)
(* that it is one).                                                        *)
(*                                                                         *)
(* Three threads meet.  The drawing thread puts pictures into              *)
(* mGLIntBufferCache while mIsEncoding is set; the worker takes them out   *)
(* and calls RGBASoftEncode; the main thread opens and closes the encoder, *)
(* frees and allocates its buffers, and starts and stops the worker.       *)
(* libenc.cc keeps everything in static variables without a lock: only the *)
(* order of the main thread's steps keeps the other two away from it.      *)
(*                                                                         *)
(* A picture is its number and the session it was drawn in.  The fields    *)
(* crashed, fed, delivered and skipped are history.  The hard encoder,     *)
(* sound, pausing and the muxer behind onEncodedAnnexbFrame are left out,  *)
(* and the encoder does not run out of memory.                             *)
(***************************************************************************)
EXTENDS EncoderPipe, FiniteSets, SequencesExt

CONSTANTS
  Worker,       \* the threads enableEncoding makes
  NoWorker,     \* the field worker is null
  MaxSessions,  \* bound: the times the encoder is opened
  MaxPictures,  \* bound: the pictures drawn while encoding
  MaxOps        \* bound: the rotations and changes of the camera

ASSUME SoftAssumption ==
  /\ NoWorker \notin Worker
  /\ Depth \in Nat \ {0}
  /\ MaxSessions \in Nat /\ MaxPictures \in Nat /\ MaxOps \in Nat

VARIABLES
  main,         \* where the main thread is
  job,          \* and why
  pushing,      \* the button says stop
  destroyed,    \* onDestroy has been called
  mIsEncoding,
  cache,        \* mGLIntBufferCache
  gl,           \* the session of the picture the drawing thread adds, or 0
  worker,       \* the field
  at,           \* where each worker is
  intr,         \* its interrupt flag
  hand,         \* the picture it has taken
  header,       \* x264_ctx.global_nal_header
  landscape,    \* the orientation of the output
  scaled,       \* the one i420_scaled_frame was allocated for
  coded,        \* the one the encoder was opened for
  session, drawn, ops,
  fed,          \* the pictures x264_encoder_encode got in this session
  delivered,    \* what onSoftEncodedData got in this session
  crashed       \* the worker died of a null picture, and the process with it

mainVars == <<main, job, pushing, destroyed, ops, landscape>>
encVars  == <<header, scaled, coded, session, fed, delivered>>
wVars    == <<worker, at, intr, hand>>
vars == <<mainVars, encVars, wVars, pipeVars, mIsEncoding, cache, gl, drawn, crashed>>

Picture   == [n : 1 .. MaxPictures, in : 0 .. MaxSessions]
NoPicture == [n |-> 0, in |-> 0]
Header    == [n |-> 0, in |-> session]
Native    == {"convert", "encode", "output"}

TypeOK ==
  /\ main \in {"idle", "open", "spawn", "flag", "unflag", "clear", "interrupt",
               "join", "close", "drain", "resize"}
  /\ job \in {"none", "push", "stop", "destroy", "rotate", "switch"}
  /\ cache \in Seq(Picture)
  /\ gl \in 0 .. MaxSessions
  /\ worker \in Worker \cup {NoWorker}
  /\ at \in [Worker -> {"none", "top", "look", "poll", "taken", "wait"} \cup Native]
  /\ intr \in [Worker -> BOOLEAN]
  /\ hand \in [Worker -> Picture \cup {NoPicture}]
  /\ inside \in Seq(Nat) /\ input \in Nat /\ Len(inside) <= Depth
  /\ session \in 0 .. MaxSessions /\ drawn \in 0 .. MaxPictures

Init ==
  /\ inside = <<>> /\ input = 0 /\ last = 0 /\ open = FALSE
  /\ main = "idle" /\ job = "none" /\ pushing = FALSE /\ destroyed = FALSE
  /\ mIsEncoding = FALSE /\ cache = <<>> /\ gl = 0
  /\ worker = NoWorker
  /\ at = [w \in Worker |-> "none"]
  /\ intr = [w \in Worker |-> FALSE]
  /\ hand = [w \in Worker |-> NoPicture]
  /\ header = FALSE
  /\ landscape = FALSE /\ scaled = FALSE /\ coded = FALSE
  /\ session = 0 /\ drawn = 0 /\ ops = 0
  /\ fed = <<>> /\ delivered = <<>>
  /\ crashed = FALSE

-----------------------------------------------------------------------------
(* The main thread.  A step goes from one place to the next.               *)

Go(from, to) ==
  /\ ~crashed
  /\ main = from /\ main' = to
  /\ UNCHANGED <<job, pushing, destroyed, ops, landscape, drawn, gl, crashed>>

Begin(why, to) ==
  /\ ~crashed /\ ~destroyed
  /\ main = "idle" /\ main' = to
  /\ job' = why
  /\ UNCHANGED <<landscape, encVars, wVars, pipeVars, mIsEncoding, cache, gl,
                 drawn, crashed>>

\* The user: the button, a camera change, a turn of the phone, leaving.
Push ==
  /\ ~pushing /\ session < MaxSessions
  /\ Begin("push", "open")
  /\ pushing' = TRUE
  /\ UNCHANGED <<destroyed, ops>>

Stop ==
  /\ pushing
  /\ Begin("stop", "unflag")
  /\ pushing' = FALSE
  /\ UNCHANGED <<destroyed, ops>>

Destroy ==
  /\ Begin("destroy", "unflag")
  /\ destroyed' = TRUE
  /\ UNCHANGED <<pushing, ops>>

Change(why) ==
  /\ why \in {"rotate", "switch"}
  /\ ops < MaxOps /\ ops' = ops + 1
  /\ Begin(why, "unflag")
  /\ UNCHANGED <<pushing, destroyed>>

\* SrsEncoder.start: setEncoderResolution and openSoftEncoder, which may
\* fail: then there is no worker, whatever the button says.
\* (Mutant: the headers are not asked for again.)
OpenNoHeader ==
  /\ Go("open", "spawn")
  /\ session < MaxSessions
  /\ Reopen
  /\ session' = session + 1
  /\ header' = (session = 0)
  /\ scaled' = landscape /\ coded' = landscape
  /\ fed' = <<>> /\ delivered' = <<>>
  /\ UNCHANGED <<wVars, mIsEncoding, cache>>

Open ==
  /\ Go("open", "spawn")
  /\ session < MaxSessions
  /\ Reopen
  /\ session' = session + 1
  /\ header' = TRUE
  /\ scaled' = landscape /\ coded' = landscape
  /\ fed' = <<>> /\ delivered' = <<>>
  /\ UNCHANGED <<wVars, mIsEncoding, cache>>

OpenFails ==
  /\ Go("open", "idle")
  /\ header' = TRUE
  /\ scaled' = landscape
  /\ UNCHANGED <<coded, session, fed, delivered, wVars, pipeVars, mIsEncoding, cache>>

\* SrsCameraView.enableEncoding.
Spawn(w) ==
  /\ Go("spawn", "flag")
  /\ at[w] = "none"
  /\ worker' = w
  /\ at' = [at EXCEPT ![w] = "top"]
  /\ intr' = [intr EXCEPT ![w] = FALSE]
  /\ UNCHANGED <<hand, encVars, pipeVars, mIsEncoding, cache>>

\* The encoder is open, but SrsEncoder.start gets no codec for the sound.
NoCodec ==
  /\ job # "switch"
  /\ Go("spawn", "idle")
  /\ UNCHANGED <<encVars, wVars, pipeVars, mIsEncoding, cache>>

SetFlag ==
  /\ Go("flag", "idle")
  /\ mIsEncoding' = TRUE
  /\ UNCHANGED <<encVars, wVars, pipeVars, cache>>

\* SrsCameraView.disableEncoding.
Unflag ==
  /\ Go("unflag", "clear")
  /\ mIsEncoding' = FALSE
  /\ UNCHANGED <<encVars, wVars, pipeVars, cache>>

AfterWorker == IF job # "switch" THEN "close" ELSE IF open THEN "spawn" ELSE "idle"

\* (Mutant: the pictures stay.)
ClearNothing ==
  /\ Go("clear", IF worker = NoWorker THEN AfterWorker ELSE "interrupt")
  /\ UNCHANGED <<encVars, wVars, pipeVars, mIsEncoding, cache>>

Clear ==
  /\ Go("clear", IF worker = NoWorker THEN AfterWorker ELSE "interrupt")
  /\ cache' = <<>>
  /\ UNCHANGED <<encVars, wVars, pipeVars, mIsEncoding>>

Interrupt ==
  /\ Go("interrupt", "join")
  /\ intr' = [intr EXCEPT ![worker] = TRUE]
  /\ UNCHANGED <<encVars, worker, at, hand, pipeVars, mIsEncoding, cache>>

\* (Mutant: without waiting.)
JoinNot ==
  /\ Go("join", AfterWorker)
  /\ worker' = NoWorker
  /\ UNCHANGED <<encVars, at, intr, hand, pipeVars, mIsEncoding, cache>>

Join ==
  /\ Go("join", AfterWorker)
  /\ at[worker] = "none"
  /\ worker' = NoWorker
  /\ UNCHANGED <<encVars, at, intr, hand, pipeVars, mIsEncoding, cache>>

\* closeSoftEncoder: what is still inside is taken out and thrown away.
Close ==
  /\ Go("close", IF open THEN "drain" ELSE "resize")
  /\ IF open THEN BeginClose ELSE UNCHANGED pipeVars
  /\ UNCHANGED <<encVars, wVars, mIsEncoding, cache>>

Drain ==
  /\ Go("drain", IF inside = <<>> THEN "resize" ELSE "drain")
  /\ IF inside = <<>> THEN UNCHANGED pipeVars ELSE TakeOut /\ last' # last
  /\ UNCHANGED <<encVars, wVars, mIsEncoding, cache>>

\* onConfigurationChanged goes on with setScreenOrientation, which frees and
\* allocates the buffers of libenc.cc, and with startEncode when pushing.
Resize ==
  /\ ~crashed
  /\ main = "resize"
  /\ main' = IF job = "rotate" /\ pushing THEN "open" ELSE "idle"
  /\ landscape' = IF job = "rotate" THEN ~landscape ELSE landscape
  /\ scaled' = IF job = "rotate" THEN ~landscape ELSE scaled
  /\ UNCHANGED <<job, pushing, destroyed, ops, header, coded, session, fed,
                 delivered, wVars, pipeVars, mIsEncoding, cache, gl, drawn, crashed>>

-----------------------------------------------------------------------------
(* The drawing thread: onDrawFrame.                                        *)

GlTest ==
  /\ ~crashed /\ gl = 0
  /\ mIsEncoding /\ drawn < MaxPictures
  /\ gl' = session
  /\ UNCHANGED <<mainVars, encVars, wVars, pipeVars, mIsEncoding, cache, drawn, crashed>>

\* (Mutant: the picture is added again and again.)
GlAddAgain ==
  /\ ~crashed /\ gl # 0
  /\ drawn' = drawn + 1
  /\ cache' = Append(cache, [n |-> drawn + 1, in |-> gl])
  /\ UNCHANGED <<mainVars, encVars, wVars, pipeVars, mIsEncoding, gl, crashed>>

GlAdd ==
  /\ ~crashed /\ gl # 0
  /\ gl' = 0
  /\ drawn' = drawn + 1
  /\ cache' = Append(cache, [n |-> drawn + 1, in |-> gl])
  /\ UNCHANGED <<mainVars, encVars, wVars, pipeVars, mIsEncoding, crashed>>

-----------------------------------------------------------------------------
(* A worker: enableEncoding's thread, onGetRgbaFrame, RGBASoftEncode.      *)

Walk(w, from, to) ==
  /\ ~crashed
  /\ at[w] = from /\ at' = [at EXCEPT ![w] = to]
  /\ UNCHANGED <<mainVars, scaled, coded, session, worker, mIsEncoding, gl, drawn>>

\* Thread.interrupted() clears the flag.
Top(w) ==
  /\ Walk(w, "top", IF intr[w] THEN "none" ELSE "look")
  /\ intr' = [intr EXCEPT ![w] = FALSE]
  /\ UNCHANGED <<header, fed, delivered, hand, cache, pipeVars, crashed>>

Look(w) ==
  /\ Walk(w, "look", IF cache = <<>> THEN "wait" ELSE "poll")
  /\ UNCHANGED <<header, fed, delivered, intr, hand, cache, pipeVars, crashed>>

\* wait(500): it may always come back.  When it is interrupted it clears
\* the flag, and the handler interrupts the thread in the field worker.
\* (Mutant: the handler does nothing.)
WaitSwallows(w) ==
  /\ Walk(w, "wait", "top")
  /\ intr' = [intr EXCEPT ![w] = FALSE]
  /\ UNCHANGED <<header, fed, delivered, hand, cache, pipeVars, crashed>>

WaitEnds(w) ==
  /\ Walk(w, "wait", "top")
  /\ intr' = IF intr[w] THEN [intr EXCEPT ![w] = FALSE, ![worker] = TRUE] ELSE intr
  /\ UNCHANGED <<header, fed, delivered, hand, cache, pipeVars, crashed>>

\* poll() returns null when clear() came in between.
Poll(w) ==
  /\ Walk(w, "poll", "taken")
  /\ IF cache = <<>> THEN crashed' = TRUE /\ UNCHANGED <<hand, cache>>
     ELSE /\ hand' = [hand EXCEPT ![w] = Head(cache)]
          /\ cache' = Tail(cache)
          /\ UNCHANGED crashed
  /\ UNCHANGED <<header, fed, delivered, intr, pipeVars>>

\* onGetRgbaFrame: a picture is dropped when the muxer has too many frames.
Drop(w) ==
  /\ Walk(w, "taken", "look")
  /\ hand' = [hand EXCEPT ![w] = NoPicture]
  /\ UNCHANGED <<header, fed, delivered, intr, cache, pipeVars, crashed>>

CallNative(w) ==
  /\ Walk(w, "taken", "convert")
  /\ UNCHANGED <<header, fed, delivered, intr, hand, cache, pipeVars, crashed>>

\* convert_to_i420.
Convert(w) ==
  /\ Walk(w, "convert", "encode")
  /\ UNCHANGED <<header, fed, delivered, intr, hand, cache, pipeVars, crashed>>

\* The first call of a session gives out the headers, not the picture.
GiveHeader(w) ==
  /\ header
  /\ Walk(w, "encode", "look")
  /\ header' = FALSE
  /\ delivered' = Append(delivered, Header)
  /\ hand' = [hand EXCEPT ![w] = NoPicture]
  /\ UNCHANGED <<fed, intr, cache, pipeVars, crashed>>

\* x264_encode.
Encode(w) ==
  /\ ~header
  /\ Walk(w, "encode", "output")
  /\ PutIn
  /\ fed' = Append(fed, hand[w])
  /\ hand' = [hand EXCEPT ![w] = NoPicture]
  /\ UNCHANGED <<header, delivered, intr, cache, crashed>>

\* There is nothing to give out while the encoder fills up: JNI_ERR.
NoOutput(w) ==
  /\ Len(inside) < Depth
  /\ Walk(w, "output", "look")
  /\ UNCHANGED <<header, fed, delivered, intr, hand, cache, pipeVars, crashed>>

Output(w) ==
  /\ Len(inside) = Depth
  /\ Walk(w, "output", "look")
  /\ TakeOut /\ last' # last
  /\ delivered' = Append(delivered, fed[Head(inside) + 1])
  /\ UNCHANGED <<header, fed, intr, hand, cache, crashed>>

MainStep ==
  \/ Open \/ OpenFails \/ NoCodec \/ SetFlag \/ Unflag \/ Clear \/ Interrupt \/ Join
  \/ Close \/ Drain \/ Resize
  \/ \E w \in Worker : Spawn(w)

WorkerStep(w) ==
  \/ Top(w) \/ Look(w) \/ WaitEnds(w) \/ Poll(w) \/ Drop(w) \/ CallNative(w)
  \/ Convert(w) \/ GiveHeader(w) \/ Encode(w) \/ NoOutput(w) \/ Output(w)

User == Push \/ Stop \/ Destroy \/ \E why \in {"rotate", "switch"} : Change(why)

Next == User \/ MainStep \/ GlTest \/ GlAdd \/ \E w \in Worker : WorkerStep(w)

Spec == Init /\ [][Next]_vars

\* A call of the main thread goes on, and so does each worker.
FairSpec ==
  /\ Spec
  /\ WF_vars(MainStep)
  /\ \A w \in Worker : WF_vars(WorkerStep(w))

-----------------------------------------------------------------------------
(* Properties.                                                             *)

\* A worker is in libenc.cc only while the encoder is open, its buffers fit
\* the encoder, the main thread is elsewhere, and no other worker is there:
\* what the static variables of libenc.cc rely on.  And an encoder is opened
\* only when the one before has been closed: openSoftEncoder does not look.
NativeSafe ==
  /\ main = "open" => ~open /\ inside = <<>>
  /\ \A w \in Worker : at[w] \in Native =>
       /\ open /\ scaled = coded
       /\ main \notin {"open", "close", "drain", "resize"}
       /\ \A v \in Worker \ {w} : at[v] \notin Native

\* What a session gives to the muxer: the headers first, then the pictures
\* in the order they were drawn, none twice and none left out on the way
\* through the encoder, and at most Depth of them still in it.
SessionOutput ==
  LET shown == Tail(delivered) IN
  /\ fed # <<>> => delivered # <<>>
  /\ delivered # <<>> =>
       /\ Head(delivered) = Header
       /\ IsPrefix(shown, fed) /\ Len(fed) - Len(shown) <= Depth
  /\ \A i \in 2 .. Len(fed) : fed[i - 1].n < fed[i].n

\* At most one picture of an earlier session is shown in a session: the one
\* onDrawFrame was about to add when disableEncoding cleared the queue.
Stale(p) == p.in < session
StaleAtMostOne ==
  Cardinality({k \in DOMAIN cache : Stale(cache[k])})
  + Cardinality({i \in DOMAIN fed : Stale(fed[i])})
  + Cardinality({w \in Worker : hand[w] # NoPicture /\ Stale(hand[w])}) <= 1

\* The worker meets a null picture only while disableEncoding is stopping
\* it: nobody else takes pictures away between isEmpty() and poll().
CrashOnlyStopping == crashed => main \in {"interrupt", "join"}

\* Every call of the main thread comes back, although disableEncoding waits
\* for a worker that may be anywhere, unless the process dies.
StopEnds == main # "idle" ~> (main = "idle" \/ crashed)

=============================================================================
