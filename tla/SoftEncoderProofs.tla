------------------------- MODULE SoftEncoderProofs -------------------------
(***************************************************************************)
(* Proofs about SoftEncoder, for any threads, depth of the encoder and     *)
(* bounds.                                                                 *)
(***************************************************************************)
EXTENDS SoftEncoder, TLAPS, SequenceTheorems, FiniteSetTheorems

-----------------------------------------------------------------------------
(* The inductive invariant.                                                *)

\* A thread that has not ended is the one in the field worker.
OneWorker == \A w \in Worker : at[w] # "none" => w = worker

\* What the place of the main thread says about the worker and the encoder.
MainInv ==
  /\ main \in {"open", "spawn", "close", "drain", "resize"} => worker = NoWorker
  /\ main \in {"open", "drain", "resize"} => ~open
  /\ main \in {"spawn", "flag"} => open
  /\ main \in {"open", "spawn", "flag"} => pushing

\* A worker has an encoder, whose pictures have the size of the buffers.
EncoderInv ==
  /\ worker # NoWorker => open
  /\ open => scaled = coded
  /\ ~open => inside = <<>> \/ main = "drain"

\* Without the button the encoder is closed, also through a camera change.
ButtonInv ==
  ~pushing /\ (main = "idle" \/ job = "switch") => ~open

\* Pictures disappear under a worker only while it is being stopped.
PollInv ==
  /\ \A w \in Worker : at[w] = "poll" /\ cache = <<>> => main \in {"interrupt", "join"}
  /\ crashed => main \in {"interrupt", "join"}

\* The drawing thread adds one picture for each test.
DrawInv == gl # 0 => drawn < MaxPictures

IInv == /\ TypeOK /\ OneWorker /\ MainInv /\ EncoderInv /\ ButtonInv
        /\ PollInv /\ DrawInv

-----------------------------------------------------------------------------
(* The initial state and the steps.                                        *)

\* The initial state satisfies the invariant.
LEMMA InitIInv == Init => IInv
<1> SUFFICES ASSUME Init PROVE IInv
  OBVIOUS
<1>1. TypeOK
  BY SoftAssumption DEF Init, TypeOK, SoftAssumption, NoPicture
<1>2. OneWorker /\ MainInv /\ EncoderInv /\ ButtonInv /\ PollInv /\ DrawInv
  BY DEF Init, OneWorker, MainInv, EncoderInv, ButtonInv, PollInv, DrawInv
<1> QED
  BY <1>1, <1>2 DEF IInv

\* The picture onDrawFrame adds.
LEMMA AddedIsPicture ==
  ASSUME TypeOK, DrawInv, gl # 0
  PROVE  [n |-> drawn + 1, in |-> gl] \in Picture
  BY SoftAssumption DEF TypeOK, DrawInv, Picture, SoftAssumption

\* The user begins a call of the main thread.
LEMMA UserStep ==
  ASSUME IInv, User
  PROVE  IInv'
<1> USE SoftAssumption DEF User, Push, Stop, Destroy, Change, Begin, mainVars, encVars, wVars, pipeVars
<1>1. TypeOK'
  <2>1. /\ main' \in {"open", "unflag"}
        /\ job' \in {"push", "stop", "destroy", "rotate", "switch"}
    OBVIOUS
  <2>2. UNCHANGED <<cache, gl, worker, at, intr, hand, inside, input, session, drawn>>
    OBVIOUS
  <2>3. TypeOK
    BY DEF IInv
  <2> QED
    BY ONLY <2>1, <2>2, <2>3 DEF TypeOK
<1>2. OneWorker'
  BY DEF IInv, TypeOK, OneWorker, MainInv
<1>3. MainInv' /\ ButtonInv'
  BY DEF IInv, TypeOK, MainInv, ButtonInv, EncoderInv, SoftAssumption
<1>4. EncoderInv'
  BY DEF IInv, TypeOK, MainInv, EncoderInv, SoftAssumption
<1>5. PollInv' /\ DrawInv'
  BY DEF IInv, TypeOK, OneWorker, MainInv, PollInv, DrawInv, SoftAssumption
<1> QED
  BY <1>1, <1>2, <1>3, <1>4, <1>5 DEF IInv

\* Opening the encoder.
LEMMA OpeningStep ==
  ASSUME IInv, Open \/ OpenFails \/ NoCodec \/ SetFlag
  PROVE  IInv'
<1> USE SoftAssumption DEF Open, OpenFails, NoCodec, SetFlag, Go, Reopen, mainVars, encVars, wVars, pipeVars
<1>1. TypeOK'
  <2>1. /\ main' \in {"spawn", "idle"}
        /\ UNCHANGED <<job, cache, gl, worker, at, intr, hand, inside, drawn>>
    OBVIOUS
  <2>2. input' = input \/ input' = 0
    OBVIOUS
  <2>3. session' = session \/ (session < MaxSessions /\ session' = session + 1)
    OBVIOUS
  <2>4. TypeOK
    BY DEF IInv
  <2>5. session' \in 0 .. MaxSessions
    BY ONLY <2>3, <2>4, SoftAssumption DEF TypeOK, SoftAssumption
  <2> QED
    BY ONLY <2>1, <2>2, <2>4, <2>5 DEF TypeOK
<1>2. OneWorker'
  BY DEF IInv, TypeOK, OneWorker, MainInv
<1>3. MainInv' /\ ButtonInv'
  BY DEF IInv, TypeOK, MainInv, ButtonInv, EncoderInv, SoftAssumption
<1>4. EncoderInv'
  BY DEF IInv, TypeOK, MainInv, EncoderInv, SoftAssumption
<1>5. PollInv' /\ DrawInv'
  BY DEF IInv, TypeOK, OneWorker, MainInv, PollInv, DrawInv, SoftAssumption
<1> QED
  BY <1>1, <1>2, <1>3, <1>4, <1>5 DEF IInv

\* Starting a worker: there is none.
LEMMA SpawnStep ==
  ASSUME IInv, NEW w \in Worker, Spawn(w)
  PROVE  IInv'
<1> USE SoftAssumption DEF Spawn, Go, mainVars, encVars, wVars, pipeVars
<1>1. TypeOK'
  BY DEF IInv, TypeOK, SoftAssumption, Picture, NoPicture
<1>2. OneWorker'
  BY DEF IInv, TypeOK, OneWorker, MainInv
<1>3. MainInv' /\ ButtonInv'
  BY DEF IInv, TypeOK, MainInv, ButtonInv, EncoderInv, SoftAssumption
<1>4. EncoderInv'
  BY DEF IInv, TypeOK, MainInv, EncoderInv, SoftAssumption
<1>5. PollInv' /\ DrawInv'
  BY DEF IInv, TypeOK, OneWorker, MainInv, PollInv, DrawInv, SoftAssumption
<1> QED
  BY <1>1, <1>2, <1>3, <1>4, <1>5 DEF IInv

\* Stopping the worker.
LEMMA StoppingStep ==
  ASSUME IInv, Unflag \/ Clear \/ Interrupt \/ Join
  PROVE  IInv'
<1> USE SoftAssumption DEF Unflag, Clear, Interrupt, Join, Go, AfterWorker, mainVars, encVars, wVars, pipeVars
<1>1. TypeOK'
  <2>1. /\ main' \in {"idle", "open", "spawn", "flag", "unflag", "clear", "interrupt",
                     "join", "close", "drain", "resize"}
        /\ job' \in {"none", "push", "stop", "destroy", "rotate", "switch"}
    BY DEF IInv, TypeOK
  <2>2. cache' \in Seq(Picture)
    <3>1. cache' = cache \/ cache' = <<>>
      OBVIOUS
    <3>2. cache \in Seq(Picture) /\ <<>> \in Seq(Picture)
      BY EmptySeq DEF IInv, TypeOK
    <3> QED
      BY ONLY <3>1, <3>2
  <2>3. /\ gl' \in 0 .. MaxSessions
        /\ session' \in 0 .. MaxSessions /\ drawn' \in 0 .. MaxPictures
    BY DEF IInv, TypeOK, DrawInv, SoftAssumption
  <2>4. worker' \in Worker \cup {NoWorker}
    BY DEF IInv, TypeOK
  <2>5. at' \in [Worker -> {"none", "top", "look", "poll", "taken", "wait"} \cup Native]
    BY DEF IInv, TypeOK, Native
  <2>6. intr' \in [Worker -> BOOLEAN]
    BY DEF IInv, TypeOK
  <2>7. hand' \in [Worker -> Picture \cup {NoPicture}]
    BY HeadTailProperties DEF IInv, TypeOK
  <2>8. inside' \in Seq(Nat) /\ input' \in Nat /\ Len(inside') <= Depth
    BY HeadTailProperties, AppendProperties, EmptySeq DEF IInv, TypeOK, EncoderInv, MainInv, SoftAssumption
  <2> QED
    BY <2>1, <2>2, <2>3, <2>4, <2>5, <2>6, <2>7, <2>8 DEF TypeOK
<1>2. OneWorker'
  BY DEF IInv, TypeOK, OneWorker, MainInv
<1>3. MainInv' /\ ButtonInv'
  BY DEF IInv, TypeOK, MainInv, ButtonInv, EncoderInv, SoftAssumption
<1>4. EncoderInv'
  BY DEF IInv, TypeOK, MainInv, EncoderInv, SoftAssumption
<1>5. PollInv' /\ DrawInv'
  BY DEF IInv, TypeOK, OneWorker, MainInv, PollInv, DrawInv, SoftAssumption
<1> QED
  BY <1>1, <1>2, <1>3, <1>4, <1>5 DEF IInv

\* Closing the encoder: there is no worker.
LEMMA ClosingStep ==
  ASSUME IInv, Close \/ Drain \/ Resize
  PROVE  IInv'
<1> USE SoftAssumption DEF Close, Drain, Resize, Go, BeginClose, TakeOut, mainVars, encVars, wVars, pipeVars
<1>1. TypeOK'
  <2>1. /\ main' \in {"idle", "open", "spawn", "flag", "unflag", "clear", "interrupt",
                     "join", "close", "drain", "resize"}
        /\ job' \in {"none", "push", "stop", "destroy", "rotate", "switch"}
    BY DEF IInv, TypeOK
  <2>2. cache' \in Seq(Picture)
    BY EmptySeq, HeadTailProperties, AppendProperties, AddedIsPicture DEF IInv, TypeOK
  <2>3. /\ gl' \in 0 .. MaxSessions
        /\ session' \in 0 .. MaxSessions /\ drawn' \in 0 .. MaxPictures
    BY DEF IInv, TypeOK, DrawInv, SoftAssumption
  <2>4. worker' \in Worker \cup {NoWorker}
    BY DEF IInv, TypeOK
  <2>5. at' \in [Worker -> {"none", "top", "look", "poll", "taken", "wait"} \cup Native]
    BY DEF IInv, TypeOK, Native
  <2>6. intr' \in [Worker -> BOOLEAN]
    BY DEF IInv, TypeOK
  <2>7. hand' \in [Worker -> Picture \cup {NoPicture}]
    BY HeadTailProperties DEF IInv, TypeOK
  <2>8. inside' \in Seq(Nat) /\ input' \in Nat /\ Len(inside') <= Depth
    <3>1. inside \in Seq(Nat) /\ input \in Nat /\ Len(inside) <= Depth
      BY DEF IInv, TypeOK
    <3>2. /\ inside' = inside \/ (inside # <<>> /\ inside' = Tail(inside))
          /\ input' = input
      <4>1. CASE Close
        BY <4>1 DEF BeginClose, pipeVars
      <4>2. CASE Drain
        BY <4>2 DEF TakeOut, pipeVars
      <4>3. CASE Resize
        BY <4>3 DEF pipeVars
      <4> QED
        BY <4>1, <4>2, <4>3
    <3>3. inside # <<>> => Tail(inside) \in Seq(Nat) /\ Len(Tail(inside)) = Len(inside) - 1
      BY ONLY <3>1, HeadTailProperties
    <3>4. Len(inside) \in Nat
      BY ONLY <3>1, LenProperties
    <3>5. Len(inside') <= Len(inside) /\ Len(inside') \in Nat /\ inside' \in Seq(Nat)
      <4>1. CASE inside' = inside
        BY ONLY <3>1, <3>4, <4>1
      <4>2. CASE inside # <<>> /\ inside' = Tail(inside)
        <5>1. inside' \in Seq(Nat) /\ Len(inside') = Len(inside) - 1
          BY ONLY <3>3, <4>2
        <5>2. Len(inside') \in Nat
          BY ONLY <5>1, LenProperties
        <5> QED
          BY ONLY <5>1, <5>2, <3>4
      <4> QED
        BY ONLY <3>2, <4>1, <4>2
    <3>6. Depth \in Nat
      BY SoftAssumption DEF SoftAssumption
    <3>7. Len(inside') <= Depth
      BY ONLY <3>1, <3>4, <3>5, <3>6
    <3> QED
      BY ONLY <3>1, <3>2, <3>5, <3>7
  <2> QED
    BY <2>1, <2>2, <2>3, <2>4, <2>5, <2>6, <2>7, <2>8 DEF TypeOK
<1>2. OneWorker'
  BY DEF IInv, TypeOK, OneWorker, MainInv
<1>3. MainInv' /\ ButtonInv'
  BY DEF IInv, TypeOK, MainInv, ButtonInv, EncoderInv, SoftAssumption
<1>4. EncoderInv'
  BY DEF IInv, TypeOK, MainInv, EncoderInv, SoftAssumption
<1>5. PollInv' /\ DrawInv'
  BY DEF IInv, TypeOK, OneWorker, MainInv, PollInv, DrawInv, SoftAssumption
<1> QED
  BY <1>1, <1>2, <1>3, <1>4, <1>5 DEF IInv

\* The drawing thread.
LEMMA DrawStep ==
  ASSUME IInv, GlTest \/ GlAdd
  PROVE  IInv'
<1> USE SoftAssumption DEF GlTest, GlAdd, mainVars, encVars, wVars, pipeVars
<1>1. TypeOK'
  <2>1. /\ main' \in {"idle", "open", "spawn", "flag", "unflag", "clear", "interrupt",
                     "join", "close", "drain", "resize"}
        /\ job' \in {"none", "push", "stop", "destroy", "rotate", "switch"}
    BY DEF IInv, TypeOK
  <2>2. cache' \in Seq(Picture)
    <3>1. cache \in Seq(Picture)
      BY DEF IInv, TypeOK
    <3>2. CASE GlTest
      BY <3>1, <3>2
    <3>3. CASE GlAdd
      <4>1. [n |-> drawn + 1, in |-> gl] \in Picture
        BY <3>3, AddedIsPicture DEF IInv
      <4>2. cache' = Append(cache, [n |-> drawn + 1, in |-> gl])
        BY <3>3
      <4> QED
        BY ONLY <3>1, <4>1, <4>2, AppendProperties
    <3> QED
      BY <3>2, <3>3
  <2>3. /\ gl' \in 0 .. MaxSessions
        /\ session' \in 0 .. MaxSessions /\ drawn' \in 0 .. MaxPictures
    BY DEF IInv, TypeOK, DrawInv, SoftAssumption
  <2>4. worker' \in Worker \cup {NoWorker}
    BY DEF IInv, TypeOK
  <2>5. at' \in [Worker -> {"none", "top", "look", "poll", "taken", "wait"} \cup Native]
    BY DEF IInv, TypeOK, Native
  <2>6. intr' \in [Worker -> BOOLEAN]
    BY DEF IInv, TypeOK
  <2>7. hand' \in [Worker -> Picture \cup {NoPicture}]
    BY HeadTailProperties DEF IInv, TypeOK
  <2>8. inside' \in Seq(Nat) /\ input' \in Nat /\ Len(inside') <= Depth
    BY HeadTailProperties, AppendProperties, EmptySeq DEF IInv, TypeOK, EncoderInv, MainInv, SoftAssumption
  <2> QED
    BY <2>1, <2>2, <2>3, <2>4, <2>5, <2>6, <2>7, <2>8 DEF TypeOK
<1>2. OneWorker'
  BY DEF IInv, TypeOK, OneWorker, MainInv
<1>3. MainInv' /\ ButtonInv'
  BY DEF IInv, TypeOK, MainInv, ButtonInv, EncoderInv, SoftAssumption
<1>4. EncoderInv'
  BY DEF IInv, TypeOK, MainInv, EncoderInv, SoftAssumption
<1>5. PollInv' /\ DrawInv'
  BY DEF IInv, TypeOK, OneWorker, MainInv, PollInv, DrawInv, SoftAssumption
<1> QED
  BY <1>1, <1>2, <1>3, <1>4, <1>5 DEF IInv

\* The worker outside of the encoder.
LEMMA LoopStep ==
  ASSUME IInv, NEW w \in Worker, Top(w) \/ Look(w) \/ WaitEnds(w) \/ Poll(w) \/ Drop(w) \/ CallNative(w) \/ Convert(w)
  PROVE  IInv'
<1> USE SoftAssumption DEF Top, Look, WaitEnds, Poll, Drop, CallNative, Convert, Walk, mainVars, encVars, wVars, pipeVars
<1>1. TypeOK'
  <2>1. /\ main' \in {"idle", "open", "spawn", "flag", "unflag", "clear", "interrupt",
                     "join", "close", "drain", "resize"}
        /\ job' \in {"none", "push", "stop", "destroy", "rotate", "switch"}
    BY DEF IInv, TypeOK
  <2>2. cache' \in Seq(Picture)
    <3>1. cache' = cache \/ (cache # <<>> /\ cache' = Tail(cache))
      OBVIOUS
    <3>2. cache \in Seq(Picture)
      BY DEF IInv, TypeOK
    <3> QED
      BY ONLY <3>1, <3>2, HeadTailProperties
  <2>3. /\ gl' \in 0 .. MaxSessions
        /\ session' \in 0 .. MaxSessions /\ drawn' \in 0 .. MaxPictures
    BY DEF IInv, TypeOK, DrawInv, SoftAssumption
  <2>4. worker' \in Worker \cup {NoWorker}
    BY DEF IInv, TypeOK
  <2>5. at' \in [Worker -> {"none", "top", "look", "poll", "taken", "wait"} \cup Native]
    BY DEF IInv, TypeOK, Native
  <2>6. intr' \in [Worker -> BOOLEAN]
    BY DEF IInv, TypeOK
  <2>7. hand' \in [Worker -> Picture \cup {NoPicture}]
    BY HeadTailProperties DEF IInv, TypeOK
  <2>8. inside' \in Seq(Nat) /\ input' \in Nat /\ Len(inside') <= Depth
    BY HeadTailProperties, AppendProperties, EmptySeq DEF IInv, TypeOK, EncoderInv, MainInv, SoftAssumption
  <2> QED
    BY <2>1, <2>2, <2>3, <2>4, <2>5, <2>6, <2>7, <2>8 DEF TypeOK
<1>2. OneWorker'
  BY DEF IInv, TypeOK, OneWorker, MainInv
<1>3. MainInv' /\ ButtonInv'
  BY DEF IInv, TypeOK, MainInv, ButtonInv, EncoderInv, SoftAssumption
<1>4. EncoderInv'
  BY DEF IInv, TypeOK, MainInv, EncoderInv, SoftAssumption
<1>5. PollInv' /\ DrawInv'
  BY DEF IInv, TypeOK, OneWorker, MainInv, PollInv, DrawInv, SoftAssumption
<1> QED
  BY <1>1, <1>2, <1>3, <1>4, <1>5 DEF IInv

\* The worker in the encoder.
LEMMA NativeStep ==
  ASSUME IInv, NEW w \in Worker, GiveHeader(w) \/ Encode(w) \/ NoOutput(w) \/ Output(w)
  PROVE  IInv'
<1> USE SoftAssumption DEF GiveHeader, Encode, NoOutput, Output, Walk, PutIn, TakeOut, Native, mainVars, encVars, wVars, pipeVars
<1>1. TypeOK'
  <2>1. /\ main' \in {"idle", "open", "spawn", "flag", "unflag", "clear", "interrupt",
                     "join", "close", "drain", "resize"}
        /\ job' \in {"none", "push", "stop", "destroy", "rotate", "switch"}
    BY DEF IInv, TypeOK
  <2>2. cache' \in Seq(Picture)
    BY EmptySeq, HeadTailProperties, AppendProperties, AddedIsPicture DEF IInv, TypeOK
  <2>3. /\ gl' \in 0 .. MaxSessions
        /\ session' \in 0 .. MaxSessions /\ drawn' \in 0 .. MaxPictures
    BY DEF IInv, TypeOK, DrawInv, SoftAssumption
  <2>4. worker' \in Worker \cup {NoWorker}
    BY DEF IInv, TypeOK
  <2>5. at' \in [Worker -> {"none", "top", "look", "poll", "taken", "wait"} \cup Native]
    BY DEF IInv, TypeOK, Native
  <2>6. intr' \in [Worker -> BOOLEAN]
    BY DEF IInv, TypeOK
  <2>7. hand' \in [Worker -> Picture \cup {NoPicture}]
    BY HeadTailProperties DEF IInv, TypeOK
  <2>8. inside' \in Seq(Nat) /\ input' \in Nat /\ Len(inside') <= Depth
    <3>1. inside \in Seq(Nat) /\ input \in Nat /\ Len(inside) <= Depth
      BY DEF IInv, TypeOK
    <3>2. \/ inside' = inside /\ input' = input
          \/ inside # <<>> /\ inside' = Tail(inside) /\ input' = input
          \/ Len(inside) < Depth /\ inside' = Append(inside, input) /\ input' = input + 1
      BY DEF PutIn, TakeOut, pipeVars
    <3>3. inside # <<>> => Tail(inside) \in Seq(Nat) /\ Len(Tail(inside)) = Len(inside) - 1
      BY ONLY <3>1, HeadTailProperties
    <3>4. Append(inside, input) \in Seq(Nat) /\ Len(Append(inside, input)) = Len(inside) + 1
      BY ONLY <3>1, AppendProperties
    <3>5. Len(inside) \in Nat
      BY ONLY <3>1, LenProperties
    <3>6. Depth \in Nat
      BY SoftAssumption DEF SoftAssumption
    <3>7. CASE inside' = inside /\ input' = input
      BY ONLY <3>1, <3>7
    <3>8. CASE inside # <<>> /\ inside' = Tail(inside) /\ input' = input
      <4>1. inside' \in Seq(Nat) /\ Len(inside') = Len(inside) - 1
        BY ONLY <3>3, <3>8
      <4> QED
        BY ONLY <4>1, <3>1, <3>5, <3>6, <3>8
    <3>9. CASE Len(inside) < Depth /\ inside' = Append(inside, input) /\ input' = input + 1
      <4>1. inside' \in Seq(Nat) /\ Len(inside') = Len(inside) + 1
        BY ONLY <3>4, <3>9
      <4> QED
        BY ONLY <4>1, <3>1, <3>5, <3>6, <3>9
    <3> QED
      BY ONLY <3>2, <3>7, <3>8, <3>9
  <2> QED
    BY <2>1, <2>2, <2>3, <2>4, <2>5, <2>6, <2>7, <2>8 DEF TypeOK
<1>2. OneWorker'
  BY DEF IInv, TypeOK, OneWorker, MainInv
<1>3. MainInv' /\ ButtonInv'
  BY DEF IInv, TypeOK, MainInv, ButtonInv, EncoderInv, SoftAssumption
<1>4. EncoderInv'
  BY DEF IInv, TypeOK, MainInv, EncoderInv, SoftAssumption
<1>5. PollInv'
  <2>1. /\ UNCHANGED <<main, cache, crashed>>
        /\ \A v \in Worker : at'[v] = "poll" => at[v] = "poll"
    BY DEF IInv, TypeOK
  <2>2. PollInv
    BY DEF IInv
  <2> QED
    BY ONLY <2>1, <2>2 DEF PollInv
<1>6. DrawInv'
  BY DEF IInv, DrawInv
<1> QED
  BY <1>1, <1>2, <1>3, <1>4, <1>5, <1>6 DEF IInv

\* The inductive invariant holds for any threads, any depth of the encoder
\* and any bounds.
THEOREM Invariance == Spec => []IInv
<1>1. ASSUME IInv, [Next]_vars PROVE IInv'
  <2>1. CASE Next
    BY <1>1, <2>1, UserStep, OpeningStep, SpawnStep, StoppingStep, ClosingStep,
       DrawStep, LoopStep, NativeStep DEF Next, MainStep, WorkerStep
  <2>2. CASE UNCHANGED vars
    BY <1>1, <2>2 DEF vars, mainVars, encVars, wVars, pipeVars, IInv, TypeOK,
       OneWorker, MainInv, EncoderInv, ButtonInv, PollInv, DrawInv, Native, Picture
  <2> QED
    BY <1>1, <2>1, <2>2
<1> QED
  BY <1>1, InitIInv, PTL DEF Spec

-----------------------------------------------------------------------------
(* What follows from it.                                                   *)

\* Every variable keeps its type.
THEOREM TypeCorrect == Spec => []TypeOK
<1>1. IInv => TypeOK
  BY DEF IInv
<1> QED
  BY <1>1, Invariance, PTL

\* The worker and the main thread never meet in the static variables of
\* libenc.cc, and an encoder is never opened over another (libenc.cc 472-550,
\* SrsCameraView 265-306, SrsPublisher 148-162).
THEOREM NativeSafeAlways == Spec => []NativeSafe
<1>1. IInv => NativeSafe
  BY SoftAssumption DEF IInv, NativeSafe, OneWorker, MainInv, EncoderInv, Native, SoftAssumption
<1> QED
  BY <1>1, Invariance, PTL

\* The worker polls an empty queue only while disableEncoding is stopping it
\* (SrsCameraView 270-272, 293-299).
THEOREM CrashOnlyStoppingAlways == Spec => []CrashOnlyStopping
<1>1. IInv => CrashOnlyStopping
  BY DEF IInv, PollInv, CrashOnlyStopping
<1> QED
  BY <1>1, Invariance, PTL

-----------------------------------------------------------------------------
(* The order of the pictures.                                              *)

\* What the encoder holds are the numbers of the last pictures it got.
PipeInv ==
  /\ fed \in Seq(Picture) /\ Len(fed) = input
  /\ \A i \in 1 .. Len(inside) : inside[i] + Len(inside) + 1 = input + i

\* The headers come first, and what came out is a beginning of what went in.
OutInv ==
  /\ delivered \in Seq([n : Nat, in : Nat])
  /\ delivered = <<>> => fed = <<>>
  /\ open /\ header => delivered = <<>>
  /\ open /\ ~header => delivered # <<>>
  /\ delivered # <<>> =>
       /\ delivered[1] = Header
       /\ Len(delivered) <= Len(fed) + 1 /\ Len(fed) + 1 <= Len(delivered) + Depth
       /\ open => Len(delivered) + Len(inside) = Len(fed) + 1
       /\ \A i \in 1 .. Len(delivered) - 1 : delivered[i + 1] = fed[i]

\* A worker has a picture from the poll to the encoder.
HandInv ==
  \A w \in Worker :
    /\ hand[w] # NoPicture => at[w] \in {"taken", "convert", "encode"}
    /\ at[w] \in {"convert", "encode"} => hand[w] # NoPicture
    /\ at[w] = "taken" => hand[w] # NoPicture \/ crashed

\* Pictures are numbered as they are drawn, and keep that order in the queue,
\* in the hand of a worker and in the encoder.
FedBefore(m) == \A i \in 1 .. Len(fed) : fed[i].n < m
NumberInv ==
  /\ \A i, j \in 1 .. Len(fed) : i < j => fed[i].n < fed[j].n
  /\ \A i, j \in 1 .. Len(cache) : i < j => cache[i].n < cache[j].n
  /\ FedBefore(drawn + 1)
  /\ \A k \in 1 .. Len(cache) : FedBefore(cache[k].n) /\ cache[k].n <= drawn
  /\ \A w \in Worker : hand[w] # NoPicture =>
       /\ FedBefore(hand[w].n) /\ hand[w].n <= drawn
       /\ \A k \in 1 .. Len(cache) : hand[w].n < cache[k].n

OrderInv == PipeInv /\ OutInv /\ HandInv /\ NumberInv

\* When the first of l pictures has been taken out, the others are one place
\* further on.
LEMMA NextPlace ==
  ASSUME NEW a \in Nat, NEW l \in Nat, NEW m, NEW n \in Nat, NEW i \in Nat,
         m = l - 1, a + l + 1 = n + (i + 1)
  PROVE  a + m + 1 = n + i
  OBVIOUS

\* What the steps below use of the types.
LEMMA Lengths ==
  ASSUME IInv, OrderInv
  PROVE  /\ inside \in Seq(Nat) /\ Len(inside) \in Nat /\ input \in Nat
         /\ Len(inside) <= Depth /\ Depth \in Nat \ {0} /\ session \in Nat /\ drawn \in Nat
         /\ cache \in Seq(Picture) /\ Len(cache) \in Nat
         /\ fed \in Seq(Picture) /\ Len(fed) \in Nat
         /\ delivered \in Seq([n : Nat, in : Nat]) /\ Len(delivered) \in Nat
<1>1. /\ inside \in Seq(Nat) /\ input \in Nat /\ cache \in Seq(Picture)
      /\ Len(inside) <= Depth /\ session \in Nat /\ drawn \in Nat
  BY SoftAssumption DEF IInv, TypeOK, SoftAssumption
<1>2. fed \in Seq(Picture) /\ delivered \in Seq([n : Nat, in : Nat])
  BY DEF OrderInv, PipeInv, OutInv
<1> QED
  BY ONLY <1>1, <1>2, LenProperties, SoftAssumption DEF SoftAssumption

\* A picture has a number.
LEMMA PictureNumber ==
  ASSUME NEW p \in Picture
  PROVE  p.n \in Nat /\ p.in \in Nat /\ p \in [n : Nat, in : Nat]
BY SoftAssumption DEF Picture, SoftAssumption

\* With a worker in the loop the encoder is open.
LEMMA WorkerOpen ==
  ASSUME IInv, NEW w \in Worker, at[w] # "none"
  PROVE  open /\ w = worker
BY SoftAssumption DEF IInv, OneWorker, EncoderInv, SoftAssumption

\* While no headers have come out nothing has been put in.
LEMMA NothingIn ==
  ASSUME IInv, OrderInv, delivered = <<>>
  PROVE  fed = <<>> /\ input = 0 /\ inside = <<>>
<1>1. fed = <<>> /\ input = 0
  BY EmptySeq DEF OrderInv, PipeInv, OutInv
<1>2. Len(inside) = 0
  <2>1. SUFFICES ASSUME Len(inside) >= 1 PROVE FALSE
    BY Lengths
  <2>2. inside[1] \in Nat /\ inside[1] + Len(inside) + 1 = input + 1
    BY <2>1, Lengths, ElementOfSeq DEF OrderInv, PipeInv
  <2> QED
    BY <1>1, <2>1, <2>2, Lengths
<1> QED
  BY <1>1, <1>2, Lengths, EmptySeq

\* What a step must touch to disturb the order.
pictureVars ==
  <<pipeVars, fed, delivered, header, session, hand, at, cache, drawn, crashed>>

\* A step that touches none of it keeps the order.
LEMMA StillOrder ==
  ASSUME OrderInv, UNCHANGED pictureVars
  PROVE  OrderInv'
BY DEF OrderInv, PipeInv, OutInv, HandInv, NumberInv, FedBefore, Header, pictureVars, pipeVars

\* The initial state.
LEMMA InitOrder == Init => OrderInv
<1> SUFFICES ASSUME Init PROVE OrderInv
  OBVIOUS
<1>1. fed = <<>> /\ delivered = <<>> /\ inside = <<>> /\ cache = <<>> /\ input = 0 /\ ~open
  BY DEF Init
<1>2. /\ <<>> \in Seq(Picture) /\ <<>> \in Seq([n : Nat, in : Nat]) /\ Len(<<>>) = 0
  BY EmptySeq
<1>3. \A w \in Worker : hand[w] = NoPicture /\ at[w] = "none"
  BY DEF Init
<1> QED
  BY <1>1, <1>2, <1>3 DEF OrderInv, PipeInv, OutInv, HandInv, NumberInv, FedBefore

\* A new encoder starts with nothing.
LEMMA OpenOrder ==
  ASSUME IInv, OrderInv, Open
  PROVE  OrderInv'
<1>1. /\ fed' = <<>> /\ delivered' = <<>> /\ inside' = <<>> /\ input' = 0 /\ header'
      /\ UNCHANGED <<hand, at, cache, drawn, crashed>>
  BY DEF Open, Reopen, Go, wVars
<1>2. /\ <<>> \in Seq(Picture) /\ <<>> \in Seq([n : Nat, in : Nat]) /\ Len(<<>>) = 0
  BY EmptySeq
<1>3. PipeInv' /\ OutInv'
  BY <1>1, <1>2 DEF PipeInv, OutInv
<1>4. HandInv'
  BY <1>1 DEF OrderInv, HandInv
<1>5. NumberInv'
  BY <1>1, <1>2 DEF OrderInv, NumberInv, FedBefore
<1> QED
  BY <1>3, <1>4, <1>5 DEF OrderInv

\* Opening fails only where no encoder is open.
LEMMA OpenFailsOrder ==
  ASSUME IInv, OrderInv, OpenFails
  PROVE  OrderInv'
<1>1. /\ UNCHANGED <<pipeVars, fed, delivered, session, hand, at, cache, drawn, crashed>>
      /\ ~open
  BY DEF OpenFails, Go, wVars, IInv, MainInv
<1> QED
  BY <1>1 DEF OrderInv, PipeInv, OutInv, HandInv, NumberInv, FedBefore, Header, pipeVars

\* Closing starts: nothing more comes out to the muxer.
LEMMA CloseOrder ==
  ASSUME IInv, OrderInv, Close
  PROVE  OrderInv'
<1>1. /\ UNCHANGED <<fed, delivered, header, session, hand, at, cache, drawn, crashed>>
      /\ BeginClose \/ UNCHANGED pipeVars
  BY DEF Close, Go, wVars, encVars
<1>2. /\ UNCHANGED <<inside, input>>
      /\ open' => open
  BY <1>1 DEF BeginClose, pipeVars
<1> QED
  BY <1>1, <1>2 DEF OrderInv, PipeInv, OutInv, HandInv, NumberInv, FedBefore, Header

\* What is thrown away while closing was the oldest inside.
LEMMA DrainOrder ==
  ASSUME IInv, OrderInv, Drain
  PROVE  OrderInv'
<1>1. /\ UNCHANGED <<fed, delivered, header, session, hand, at, cache, drawn, crashed>>
      /\ UNCHANGED pipeVars \/ TakeOut
      /\ ~open
  BY DEF Drain, Go, wVars, encVars, IInv, MainInv
<1>2. CASE UNCHANGED pipeVars
  BY <1>1, <1>2, StillOrder DEF pictureVars
<1>3. CASE TakeOut
  <2>1. inside # <<>> /\ inside' = Tail(inside) /\ input' = input /\ ~open'
    BY <1>1, <1>3 DEF TakeOut
  <2>2. /\ Len(inside') = Len(inside) - 1
        /\ \A i \in 1 .. Len(inside') : inside'[i] = inside[i + 1]
    BY <2>1, Lengths, HeadTailProperties
  <2>3. PipeInv'
    <3>1. \A i \in 1 .. Len(inside) : inside[i] \in Nat /\ inside[i] + Len(inside) + 1 = input + i
      BY Lengths, ElementOfSeq DEF OrderInv, PipeInv
    <3>2. Len(inside) \in Nat /\ input \in Nat
      BY Lengths
    <3>3. ASSUME NEW i \in 1 .. Len(inside')
          PROVE  inside'[i] + Len(inside') + 1 = input + i
      <4>1. i + 1 \in 1 .. Len(inside) /\ i \in Nat
        BY ONLY <2>2, <3>2, <3>3
      <4>2. inside[i + 1] + Len(inside) + 1 = input + (i + 1) /\ inside[i + 1] \in Nat
        BY ONLY <3>1, <4>1
      <4>3. inside'[i] = inside[i + 1] /\ Len(inside') = Len(inside) - 1
        BY ONLY <2>2, <3>3
      <4>4. inside'[i] \in Nat /\ inside'[i] + Len(inside) + 1 = input + (i + 1)
        BY ONLY <4>2, <4>3
      <4>5. Len(inside') = Len(inside) - 1 /\ i \in Nat
        BY ONLY <4>1, <4>3
      <4> QED
        BY ONLY <3>2, <4>4, <4>5, NextPlace
    <3> QED
      BY <1>1, <2>1, <3>3 DEF OrderInv, PipeInv
  <2> QED
    BY <1>1, <2>1, <2>3 DEF OrderInv, OutInv, HandInv, NumberInv, FedBefore, Header
<1> QED
  BY <1>1, <1>2, <1>3

\* Starting a worker.
LEMMA SpawnOrder ==
  ASSUME IInv, OrderInv, NEW w \in Worker, Spawn(w)
  PROVE  OrderInv'
<1>1. /\ UNCHANGED <<pipeVars, fed, delivered, header, session, hand, cache, drawn, crashed>>
      /\ at[w] = "none" /\ at' = [at EXCEPT ![w] = "top"]
  BY DEF Spawn, Go, encVars
<1>2. HandInv'
  BY <1>1 DEF OrderInv, HandInv, IInv, TypeOK
<1> QED
  BY <1>1, <1>2 DEF OrderInv, PipeInv, OutInv, NumberInv, FedBefore, Header, pipeVars

\* Clearing the queue.
LEMMA ClearOrder ==
  ASSUME IInv, OrderInv, Clear
  PROVE  OrderInv'
<1>1. /\ UNCHANGED <<pipeVars, fed, delivered, header, session, hand, at, drawn, crashed>>
      /\ cache' = <<>> /\ Len(cache') = 0
  BY EmptySeq DEF Clear, Go, encVars, wVars
<1>2. NumberInv'
  BY <1>1 DEF OrderInv, NumberInv, FedBefore
<1> QED
  BY <1>1, <1>2 DEF OrderInv, PipeInv, OutInv, HandInv, Header, pipeVars

\* A picture is drawn: its number is new.
LEMMA AddOrder ==
  ASSUME IInv, OrderInv, GlAdd
  PROVE  OrderInv'
<1> DEFINE p == [n |-> drawn + 1, in |-> gl]
<1>0. /\ Len(fed) \in Nat /\ Len(cache) \in Nat /\ Len(inside) \in Nat /\ Len(delivered) \in Nat
      /\ drawn \in Nat /\ input \in Nat /\ Depth \in Nat \ {0} /\ Len(inside) <= Depth
  BY Lengths
<1>1. /\ UNCHANGED <<pipeVars, fed, delivered, header, session, hand, at, crashed>>
      /\ cache' = Append(cache, p) /\ drawn' = drawn + 1
  BY DEF GlAdd, encVars, wVars
<1>2. p \in Picture /\ p.n = drawn + 1
  BY AddedIsPicture DEF IInv, GlAdd
<1> HIDE DEF p
<1>3. /\ Len(cache') = Len(cache) + 1
      /\ \A k \in 1 .. Len(cache) : cache'[k] = cache[k]
      /\ cache'[Len(cache) + 1] = p
  BY ONLY <1>1, <1>2, Lengths, AppendProperties, IInv, OrderInv
<1>4. NumberInv'
  <2>1. \A i \in 1 .. Len(fed) : fed[i].n \in Nat
    BY Lengths, ElementOfSeq, PictureNumber
  <2>2. \A k \in 1 .. Len(cache) : cache[k].n \in Nat
    BY Lengths, ElementOfSeq, PictureNumber
  <2>3. \A w \in Worker : hand[w] # NoPicture => hand[w].n \in Nat
    BY PictureNumber DEF IInv, TypeOK
  <2>4. \A i, j \in 1 .. Len(cache') : i < j => cache'[i].n < cache'[j].n
    <3>1. \A i, j \in 1 .. Len(cache) : i < j => cache[i].n < cache[j].n
      BY DEF OrderInv, NumberInv
    <3>2. \A i \in 1 .. Len(cache) : cache[i].n <= drawn
      BY DEF OrderInv, NumberInv
    <3>3. ASSUME NEW i \in 1 .. Len(cache'), NEW j \in 1 .. Len(cache'), i < j
          PROVE  cache'[i].n < cache'[j].n
      <4>1. i \in 1 .. Len(cache) /\ (j \in 1 .. Len(cache) \/ j = Len(cache) + 1)
        BY ONLY <1>0, <1>3, <3>3
      <4>2. CASE j \in 1 .. Len(cache)
        BY ONLY <1>3, <3>1, <3>3, <4>1, <4>2
      <4>3. CASE j = Len(cache) + 1
        BY ONLY <1>0, <1>2, <1>3, <2>2, <3>2, <4>1, <4>3, SMTT(30)
      <4> QED
        BY ONLY <4>1, <4>2, <4>3
    <3> QED
      BY ONLY <3>3
  <2>5. \A i \in 1 .. Len(fed) : fed[i].n < drawn + 2
    <3>1. session \in Nat /\ drawn \in Nat /\ Len(fed) \in Nat
      BY Lengths
    <3>2. \A i \in 1 .. Len(fed) : fed[i].n < drawn + 1
      BY <2>1, <3>1 DEF OrderInv, NumberInv, FedBefore
    <3> QED
      BY ONLY <2>1, <3>1, <3>2
  <2>6. \A k \in 1 .. Len(cache') :
          cache'[k].n <= drawn + 1 /\ \A i \in 1 .. Len(fed) : fed[i].n < cache'[k].n
    <3>1. \A k \in 1 .. Len(cache) :
            cache[k].n <= drawn /\ \A i \in 1 .. Len(fed) : fed[i].n < cache[k].n
      BY DEF OrderInv, NumberInv, FedBefore
    <3>2. \A i \in 1 .. Len(fed) : fed[i].n < drawn + 1
      BY DEF OrderInv, NumberInv, FedBefore
    <3>3. ASSUME NEW k \in 1 .. Len(cache')
          PROVE  cache'[k].n <= drawn + 1 /\ \A i \in 1 .. Len(fed) : fed[i].n < cache'[k].n
      <4>1. k \in 1 .. Len(cache) \/ k = Len(cache) + 1
        BY ONLY <1>0, <1>3, <3>3
      <4>2. CASE k \in 1 .. Len(cache)
        BY ONLY <1>0, <1>3, <2>2, <3>1, <4>2
      <4>3. CASE k = Len(cache) + 1
        BY ONLY <1>0, <1>2, <1>3, <3>2, <4>3
      <4> QED
        BY ONLY <4>1, <4>2, <4>3
    <3> QED
      BY ONLY <3>3
  <2>7. \A w \in Worker : hand[w] # NoPicture =>
          /\ hand[w].n <= drawn + 1
          /\ \A k \in 1 .. Len(cache') : hand[w].n < cache'[k].n
    <3>1. \A w \in Worker : hand[w] # NoPicture =>
            hand[w].n <= drawn /\ \A k \in 1 .. Len(cache) : hand[w].n < cache[k].n
      BY DEF OrderInv, NumberInv
    <3>2. ASSUME NEW w \in Worker, hand[w] # NoPicture, NEW k \in 1 .. Len(cache')
          PROVE  hand[w].n < cache'[k].n
      <4>1. k \in 1 .. Len(cache) \/ k = Len(cache) + 1
        BY ONLY <1>0, <1>3, <3>2
      <4>2. CASE k \in 1 .. Len(cache)
        BY ONLY <1>3, <3>1, <3>2, <4>2
      <4>3. CASE k = Len(cache) + 1
        BY ONLY <1>0, <1>2, <1>3, <2>3, <3>1, <3>2, <4>3
      <4> QED
        BY ONLY <4>1, <4>2, <4>3
    <3> QED
      BY ONLY <1>0, <2>3, <3>1, <3>2
  <2>8. drawn' + 1 = drawn + 2
    BY <1>1, Lengths
  <2> QED
    BY <1>1, <2>4, <2>5, <2>6, <2>7, <2>8 DEF OrderInv, NumberInv, FedBefore
<1> QED
  BY <1>1, <1>4 DEF OrderInv, PipeInv, OutInv, HandInv, Header, pipeVars

\* The worker on its way: neither the queue nor the encoder changes.
LEMMA WalkOrder ==
  ASSUME IInv, OrderInv, NEW w \in Worker,
         \/ Top(w) \/ Look(w) \/ WaitEnds(w) \/ CallNative(w) \/ Convert(w) \/ NoOutput(w) \/ Drop(w)
  PROVE  OrderInv'
<1>1. UNCHANGED <<pipeVars, fed, delivered, header, session, cache, drawn, crashed>> /\ ~crashed
  BY DEF Top, Look, WaitEnds, CallNative, Convert, NoOutput, Drop, Walk
<1>2. \/ hand' = hand
      \/ hand' = [hand EXCEPT ![w] = NoPicture]
  BY DEF Top, Look, WaitEnds, CallNative, Convert, NoOutput, Drop
<1>3. \A v \in Worker : hand'[v] = hand[v] \/ hand'[v] = NoPicture
  BY <1>2 DEF IInv, TypeOK
<1>4. HandInv'
  BY <1>1 DEF OrderInv, HandInv, IInv, TypeOK, Top, Look, WaitEnds, CallNative, Convert, NoOutput, Drop, Walk
<1>5. NumberInv'
  BY <1>1, <1>3 DEF OrderInv, NumberInv, FedBefore
<1> QED
  BY <1>1, <1>4, <1>5 DEF OrderInv, PipeInv, OutInv, Header, pipeVars

\* The worker takes the oldest picture.
LEMMA PollOrder ==
  ASSUME IInv, OrderInv, NEW w \in Worker, Poll(w)
  PROVE  OrderInv'
<1>0. /\ Len(fed) \in Nat /\ Len(cache) \in Nat /\ Len(inside) \in Nat /\ Len(delivered) \in Nat
      /\ drawn \in Nat /\ input \in Nat /\ Depth \in Nat \ {0} /\ Len(inside) <= Depth
  BY Lengths
<1>1. /\ UNCHANGED <<pipeVars, fed, delivered, header, session, drawn>>
      /\ at[w] = "poll" /\ at' = [at EXCEPT ![w] = "taken"]
  BY DEF Poll, Walk
<1>2. PipeInv' /\ OutInv'
  BY <1>1 DEF OrderInv, PipeInv, OutInv, Header, pipeVars
<1>3. CASE cache = <<>>
  <2>1. crashed' /\ UNCHANGED <<hand, cache>>
    BY <1>3 DEF Poll
  <2>2. HandInv'
    BY <1>1, <2>1 DEF OrderInv, HandInv, IInv, TypeOK
  <2>3. NumberInv'
    BY <1>1, <2>1 DEF OrderInv, NumberInv, FedBefore
  <2> QED
    BY <1>2, <2>2, <2>3 DEF OrderInv
<1>4. CASE cache # <<>>
  <2>1. /\ hand' = [hand EXCEPT ![w] = Head(cache)] /\ cache' = Tail(cache)
        /\ crashed' = crashed
    BY <1>4 DEF Poll
  <2>2. /\ Head(cache) \in Picture /\ Head(cache) = cache[1]
        /\ Len(cache') = Len(cache) - 1 /\ Len(cache) >= 1
        /\ \A k \in 1 .. Len(cache') : cache'[k] = cache[k + 1]
    BY <1>4, <2>1, Lengths, HeadTailProperties, EmptySeq
  <2>3. Head(cache) # NoPicture
    BY <2>2 DEF Picture, NoPicture
  <2>4. /\ hand'[w] = cache[1]
        /\ \A v \in Worker \ {w} : hand'[v] = hand[v]
    BY <2>1, <2>2 DEF IInv, TypeOK
  <2>5. HandInv'
    BY <1>1, <2>1, <2>2, <2>3, <2>4 DEF OrderInv, HandInv, IInv, TypeOK
  <2>6. NumberInv'
    <3>1. \A k \in 1 .. Len(cache') :
            k + 1 \in 1 .. Len(cache) /\ 1 < k + 1 /\ cache'[k] = cache[k + 1]
      BY <2>2, Lengths
    <3>2. \A i, j \in 1 .. Len(cache') : i < j => cache'[i].n < cache'[j].n
      <4>1. \A i, j \in 1 .. Len(cache) : i < j => cache[i].n < cache[j].n
        BY DEF OrderInv, NumberInv
      <4>2. \A i, j \in 1 .. Len(cache') : i < j => i + 1 < j + 1
        BY ONLY <1>0, <2>2
      <4> QED
        BY ONLY <3>1, <4>1, <4>2
    <3>3. \A k \in 1 .. Len(cache') :
            /\ FedBefore(cache'[k].n) /\ cache'[k].n <= drawn
            /\ cache[1].n < cache'[k].n
            /\ \A v \in Worker \ {w} : hand[v] # NoPicture => hand[v].n < cache'[k].n
      <4>1. \A k \in 1 .. Len(cache) :
              /\ FedBefore(cache[k].n) /\ cache[k].n <= drawn
              /\ 1 < k => cache[1].n < cache[k].n
              /\ \A v \in Worker : hand[v] # NoPicture => hand[v].n < cache[k].n
        <5>1. 1 \in 1 .. Len(cache)
          BY ONLY <1>0, <2>2
        <5> QED
          BY <5>1 DEF OrderInv, NumberInv
      <4> QED
        BY ONLY <3>1, <4>1
    <3>4. FedBefore(cache[1].n) /\ cache[1].n <= drawn
      BY <2>2, Lengths DEF OrderInv, NumberInv
    <3> QED
      BY <1>1, <2>4, <3>2, <3>3, <3>4 DEF OrderInv, NumberInv, FedBefore
  <2> QED
    BY <1>2, <2>5, <2>6 DEF OrderInv
<1> QED
  BY <1>3, <1>4

\* The headers come out first.
LEMMA HeaderOrder ==
  ASSUME IInv, OrderInv, NEW w \in Worker, GiveHeader(w)
  PROVE  OrderInv'
<1>1. /\ UNCHANGED <<pipeVars, fed, session, cache, drawn, crashed>> /\ header /\ ~header'
      /\ at[w] = "encode" /\ at' = [at EXCEPT ![w] = "look"]
      /\ hand' = [hand EXCEPT ![w] = NoPicture]
      /\ delivered' = Append(delivered, Header)
  BY DEF GiveHeader, Walk
<1>2. open /\ delivered = <<>>
  BY <1>1, WorkerOpen DEF OrderInv, OutInv
<1>3. fed = <<>> /\ inside = <<>> /\ Len(fed) = 0 /\ Len(inside) = 0
  BY <1>2, NothingIn, EmptySeq
<1>4. Header \in [n : Nat, in : Nat] /\ Header' = Header
  BY <1>1, Lengths DEF Header
<1>5. /\ delivered' \in Seq([n : Nat, in : Nat])
      /\ Len(delivered') = 1 /\ delivered'[1] = Header /\ delivered' # <<>>
  BY <1>1, <1>2, <1>4, AppendProperties, EmptySeq
<1>6. OutInv'
  BY <1>1, <1>2, <1>3, <1>4, <1>5, Lengths DEF OutInv, pipeVars
<1>7. HandInv'
  BY <1>1 DEF OrderInv, HandInv, IInv, TypeOK
<1>8. \A v \in Worker : hand'[v] = hand[v] \/ hand'[v] = NoPicture
  BY <1>1 DEF IInv, TypeOK
<1>9. NumberInv'
  BY <1>1, <1>8 DEF OrderInv, NumberInv, FedBefore
<1> QED
  BY <1>1, <1>6, <1>7, <1>9 DEF OrderInv, PipeInv, pipeVars

\* A picture goes into the encoder.
LEMMA EncodeOrder ==
  ASSUME IInv, OrderInv, NEW w \in Worker, Encode(w)
  PROVE  OrderInv'
<1>0. /\ Len(fed) \in Nat /\ Len(cache) \in Nat /\ Len(inside) \in Nat /\ Len(delivered) \in Nat
      /\ drawn \in Nat /\ input \in Nat /\ Depth \in Nat \ {0} /\ Len(inside) <= Depth
  BY Lengths
<1>1. /\ UNCHANGED <<delivered, header, session, cache, drawn, crashed, open>> /\ ~header
      /\ at[w] = "encode" /\ at' = [at EXCEPT ![w] = "output"]
      /\ hand' = [hand EXCEPT ![w] = NoPicture]
      /\ fed' = Append(fed, hand[w]) /\ inside' = Append(inside, input) /\ input' = input + 1
      /\ open /\ Len(inside) < Depth
  BY DEF Encode, Walk, PutIn
<1>2. hand[w] # NoPicture /\ hand[w] \in Picture
  BY <1>1 DEF OrderInv, HandInv, IInv, TypeOK
<1>3. /\ fed' \in Seq(Picture) /\ Len(fed') = Len(fed) + 1 /\ fed'[Len(fed) + 1] = hand[w]
      /\ \A i \in 1 .. Len(fed) : fed'[i] = fed[i]
  BY <1>1, <1>2, Lengths, AppendProperties
<1>4. /\ Len(inside') = Len(inside) + 1 /\ inside'[Len(inside) + 1] = input
      /\ \A i \in 1 .. Len(inside) : inside'[i] = inside[i]
  BY <1>1, Lengths, AppendProperties
<1>5. PipeInv'
  <2>1. Len(fed) = input
    BY DEF OrderInv, PipeInv
  <2>2. \A i \in 1 .. Len(inside) : inside[i] \in Nat /\ inside[i] + Len(inside) + 1 = input + i
    BY Lengths, ElementOfSeq DEF OrderInv, PipeInv
  <2>3. ASSUME NEW i \in 1 .. Len(inside')
        PROVE  inside'[i] + Len(inside') + 1 = input' + i
    <3>1. i \in 1 .. Len(inside) \/ i = Len(inside) + 1
      BY ONLY <1>0, <1>4, <2>3
    <3>2. input' = input + 1
      BY <1>1
    <3>3. CASE i \in 1 .. Len(inside)
      <4>1. inside'[i] = inside[i] /\ inside[i] \in Nat /\ inside[i] + Len(inside) + 1 = input + i
        BY ONLY <1>4, <2>2, <3>3
      <4> QED
        BY ONLY <1>0, <1>4, <3>2, <3>3, <4>1
    <3>4. CASE i = Len(inside) + 1
      BY ONLY <1>0, <1>4, <3>2, <3>4
    <3> QED
      BY ONLY <3>1, <3>3, <3>4
  <2> QED
    BY <1>1, <1>3, <2>1, <2>3 DEF PipeInv
<1>6. OutInv'
  <2>1. delivered # <<>> /\ delivered[1] = Header /\ Len(delivered) + Len(inside) = Len(fed) + 1
    BY <1>1 DEF OrderInv, OutInv
  <2>2. /\ Len(delivered) <= Len(fed) + 2 /\ Len(fed) + 2 <= Len(delivered) + Depth
        /\ Len(delivered) + Len(inside') = Len(fed') + 1
    <3>1. Len(inside) < Depth
      BY <1>1
    <3> QED
      BY ONLY <1>0, <1>3, <1>4, <2>1, <3>1
  <2>3. \A i \in 1 .. Len(delivered) - 1 : i \in 1 .. Len(fed) /\ delivered[i + 1] = fed'[i]
    <3>1. \A i \in 1 .. Len(delivered) - 1 : delivered[i + 1] = fed[i]
      BY <2>1 DEF OrderInv, OutInv
    <3>2. \A i \in 1 .. Len(delivered) - 1 : i \in 1 .. Len(fed)
      BY ONLY <1>0, <2>1
    <3> QED
      BY ONLY <1>3, <3>1, <3>2
  <2>4. Len(fed') + 1 = Len(fed) + 2
    BY <1>3, Lengths
  <2> QED
    BY <1>1, <2>1, <2>2, <2>3, <2>4, Lengths DEF OutInv, Header
<1>7. HandInv'
  BY <1>1 DEF OrderInv, HandInv, IInv, TypeOK
<1>8. \A v \in Worker : hand'[v] = NoPicture
  <2>1. TAKE v \in Worker
  <2>2. CASE v = w
    BY <1>1, <2>2 DEF IInv, TypeOK
  <2>3. CASE v # w
    BY <1>1, <2>3, WorkerOpen DEF OrderInv, HandInv, IInv, TypeOK
  <2> QED
    BY <2>2, <2>3
<1>9. NumberInv'
  <2>1. hand[w].n <= drawn /\ hand[w].n \in Nat
    BY <1>2, PictureNumber DEF OrderInv, NumberInv
  <2>2. /\ \A i, j \in 1 .. Len(fed) : i < j => fed[i].n < fed[j].n
        /\ \A i \in 1 .. Len(fed) : fed[i].n < drawn + 1 /\ fed[i].n < hand[w].n
        /\ \A k \in 1 .. Len(cache) : hand[w].n < cache[k].n /\ \A i \in 1 .. Len(fed) : fed[i].n < cache[k].n
    BY <1>2 DEF OrderInv, NumberInv, FedBefore
  <2>3. \A i \in 1 .. Len(fed') : i \in 1 .. Len(fed) \/ i = Len(fed) + 1
    BY ONLY <1>0, <1>3
  <2>4. \A i \in 1 .. Len(fed') : fed'[i].n < drawn + 1
    BY ONLY <1>0, <1>3, <2>1, <2>2, <2>3
  <2>5. \A k \in 1 .. Len(cache), i \in 1 .. Len(fed') : fed'[i].n < cache[k].n
    BY ONLY <1>3, <2>2, <2>3
  <2>6. ASSUME NEW i \in 1 .. Len(fed'), NEW j \in 1 .. Len(fed'), i < j
        PROVE  fed'[i].n < fed'[j].n
    <3>1. i \in 1 .. Len(fed)
      BY ONLY <1>0, <1>3, <2>6
    <3> QED
      BY ONLY <1>3, <2>2, <2>3, <2>6, <3>1
  <2> QED
    BY <1>1, <1>8, <2>4, <2>5, <2>6 DEF OrderInv, NumberInv, FedBefore
<1> QED
  BY <1>5, <1>6, <1>7, <1>9 DEF OrderInv

\* A picture comes out: the oldest one that has not come out yet.
LEMMA OutputOrder ==
  ASSUME IInv, OrderInv, NEW w \in Worker, Output(w)
  PROVE  OrderInv'
<1>0. /\ Len(fed) \in Nat /\ Len(cache) \in Nat /\ Len(inside) \in Nat /\ Len(delivered) \in Nat
      /\ drawn \in Nat /\ input \in Nat /\ Depth \in Nat \ {0} /\ Len(inside) <= Depth
  BY Lengths
<1>1. /\ UNCHANGED <<fed, header, session, hand, cache, drawn, crashed, input, open>>
      /\ at[w] = "output" /\ at' = [at EXCEPT ![w] = "look"]
      /\ delivered' = Append(delivered, fed[Head(inside) + 1])
      /\ inside # <<>> /\ inside' = Tail(inside) /\ Len(inside) = Depth
  BY DEF Output, Walk, TakeOut
<1>2. open /\ delivered # <<>>
  BY <1>1, WorkerOpen, NothingIn
<1>3. /\ Len(fed) = input /\ Len(delivered) + Len(inside) = Len(fed) + 1
      /\ delivered[1] = Header
      /\ \A i \in 1 .. Len(delivered) - 1 : delivered[i + 1] = fed[i]
  BY <1>2 DEF OrderInv, PipeInv, OutInv
<1>4. /\ Len(inside') = Len(inside) - 1 /\ Len(inside) >= 1
      /\ \A i \in 1 .. Len(inside') : inside'[i] = inside[i + 1]
      /\ Head(inside) = inside[1] /\ inside[1] \in Nat
  BY <1>1, Lengths, HeadTailProperties, EmptySeq, ElementOfSeq
<1>5. inside[1] + Len(inside) + 1 = input + 1
  BY <1>4, Lengths DEF OrderInv, PipeInv
<1>6. /\ Head(inside) + 1 = Len(delivered) /\ Len(delivered) <= Len(fed)
      /\ Len(delivered) >= 1
  <2>1. Len(inside) = Depth
    BY <1>1
  <2>2. Len(delivered) >= 1
    BY <1>2, Lengths, EmptySeq
  <2> QED
    BY ONLY <1>0, <1>3, <1>4, <1>5, <2>1, <2>2
<1>7. fed[Len(delivered)] \in [n : Nat, in : Nat]
  BY <1>6, Lengths, ElementOfSeq, PictureNumber
<1>8. /\ delivered' \in Seq([n : Nat, in : Nat])
      /\ Len(delivered') = Len(delivered) + 1
      /\ delivered'[Len(delivered) + 1] = fed[Len(delivered)]
      /\ \A i \in 1 .. Len(delivered) : delivered'[i] = delivered[i]
  <2>1. delivered' = Append(delivered, fed[Len(delivered)])
    BY <1>1, <1>6
  <2>2. delivered \in Seq([n : Nat, in : Nat])
    BY Lengths
  <2> QED
    BY ONLY <1>7, <2>1, <2>2, AppendProperties
<1>9. PipeInv'
  <2>1. \A i \in 1 .. Len(inside) : inside[i] \in Nat /\ inside[i] + Len(inside) + 1 = input + i
    BY Lengths, ElementOfSeq DEF OrderInv, PipeInv
  <2>2. ASSUME NEW i \in 1 .. Len(inside')
        PROVE  inside'[i] + Len(inside') + 1 = input + i
    <3>1. i + 1 \in 1 .. Len(inside) /\ i \in Nat
      BY ONLY <1>0, <1>4, <2>2
    <3>2. inside[i + 1] + Len(inside) + 1 = input + (i + 1) /\ inside[i + 1] \in Nat
      BY ONLY <2>1, <3>1
    <3>3. inside'[i] = inside[i + 1] /\ Len(inside') = Len(inside) - 1
      BY ONLY <1>4, <2>2
    <3>4. inside'[i] \in Nat /\ inside'[i] + Len(inside) + 1 = input + (i + 1)
      BY ONLY <3>2, <3>3
    <3>5. Len(inside') = Len(inside) - 1 /\ i \in Nat
      BY ONLY <3>1, <3>3
    <3> QED
      <4>1. Len(inside) \in Nat /\ input \in Nat
        BY Lengths
      <4> QED
        BY ONLY <3>4, <3>5, <4>1, NextPlace
  <2> QED
    BY <1>1, <2>2 DEF OrderInv, PipeInv
<1>10. OutInv'
  <2>1. delivered' # <<>> /\ ~header /\ delivered'[1] = Header /\ Header' = Header
    <3>1. ~header
      BY <1>2 DEF OrderInv, OutInv
    <3>2. 1 \in 1 .. Len(delivered) /\ Len(delivered') # 0
      BY ONLY <1>0, <1>6, <1>8
    <3>3. delivered'[1] = Header /\ delivered' # <<>>
      BY ONLY <1>3, <1>8, <3>2, EmptySeq
    <3> QED
      BY <1>1, <3>1, <3>3 DEF Header
  <2>2. /\ Len(delivered') <= Len(fed) + 1 /\ Len(fed) + 1 <= Len(delivered') + Depth
        /\ Len(delivered') + Len(inside') = Len(fed) + 1
    <3>1. Len(inside) = Depth
      BY <1>1
    <3>2. /\ Len(delivered') = Len(delivered) + 1 /\ Len(inside') = Len(inside) - 1
          /\ Len(delivered) + Len(inside) = Len(fed) + 1 /\ Len(delivered) <= Len(fed)
      BY ONLY <1>3, <1>4, <1>6, <1>8
    <3> QED
      BY ONLY <1>0, <3>1, <3>2
  <2>3. ASSUME NEW i \in 1 .. Len(delivered') - 1
        PROVE  delivered'[i + 1] = fed[i]
    <3>1. i = Len(delivered) \/ (i \in 1 .. Len(delivered) - 1 /\ i + 1 \in 1 .. Len(delivered))
      <4>1. Len(delivered') = Len(delivered) + 1
        BY ONLY <1>8
      <4> QED
        BY ONLY <1>0, <2>3, <4>1
    <3> QED
      BY ONLY <1>3, <1>8, <3>1
  <2> QED
    BY <1>1, <1>8, <2>1, <2>2, <2>3 DEF OutInv
<1>11. HandInv'
  BY <1>1 DEF OrderInv, HandInv, IInv, TypeOK
<1>12. NumberInv'
  BY <1>1 DEF OrderInv, NumberInv, FedBefore
<1> QED
  BY <1>9, <1>10, <1>11, <1>12 DEF OrderInv

\* The pictures stay in order through all threads.
THEOREM InOrder == Spec => []OrderInv
<1>1. ASSUME IInv, OrderInv, [Next]_vars PROVE OrderInv'
  <2>1. CASE User \/ NoCodec \/ SetFlag \/ Unflag \/ Interrupt \/ Join \/ Resize \/ GlTest
             \/ UNCHANGED vars
    <3>1. UNCHANGED pictureVars
      BY <2>1 DEF User, Push, Stop, Destroy, Change, Begin, NoCodec, SetFlag, Unflag, Interrupt,
         Join, Resize, GlTest, Go, mainVars, encVars, wVars, vars, pictureVars
    <3> QED
      BY <1>1, <3>1, StillOrder
  <2>2. CASE Open \/ OpenFails \/ Close \/ Drain \/ Clear \/ GlAdd
    BY <1>1, <2>2, OpenOrder, OpenFailsOrder, CloseOrder, DrainOrder, ClearOrder, AddOrder
  <2>3. CASE \E w \in Worker : Spawn(w) \/ WorkerStep(w)
    BY <1>1, <2>3, SpawnOrder, WalkOrder, PollOrder, HeaderOrder, EncodeOrder, OutputOrder
       DEF WorkerStep
  <2> QED
    BY <1>1, <2>1, <2>2, <2>3 DEF Next, MainStep
<1> QED
  BY <1>1, InitOrder, Invariance, PTL DEF Spec

\* What the muxer gets in a session: the headers first, then the pictures in
\* the order they were drawn, none left out, at most Depth held back
\* (libenc.cc 203-298, SrsCameraView 265-306).
THEOREM SessionOutputAlways == Spec => []SessionOutput
<1>1. ASSUME IInv, OrderInv PROVE SessionOutput
  <2>1. fed # <<>> => delivered # <<>>
    BY <1>1 DEF OrderInv, OutInv
  <2>2. ASSUME delivered # <<>>
        PROVE  /\ Head(delivered) = Header
               /\ IsPrefix(Tail(delivered), fed)
               /\ Len(fed) - Len(Tail(delivered)) <= Depth
    <3> DEFINE shown == Tail(delivered)
    <3>1. /\ Head(delivered) = delivered[1] /\ shown \in Seq([n : Nat, in : Nat])
          /\ Len(shown) = Len(delivered) - 1
          /\ \A i \in 1 .. Len(shown) : shown[i] = delivered[i + 1]
          /\ Len(delivered) >= 1
      BY <1>1, <2>2, Lengths, HeadTailProperties, EmptySeq
    <3>2. /\ delivered[1] = Header
          /\ Len(delivered) <= Len(fed) + 1 /\ Len(fed) + 1 <= Len(delivered) + Depth
          /\ \A i \in 1 .. Len(delivered) - 1 : delivered[i + 1] = fed[i]
      BY <1>1, <2>2 DEF OrderInv, OutInv
    <3> HIDE DEF shown
    <3>3. Len(shown) <= Len(fed) /\ Len(fed) - Len(shown) <= Depth /\ Len(shown) \in Nat
      BY <1>1, <3>1, <3>2, Lengths
    <3>4. SubSeq(shown, 1, Len(shown)) = SubSeq(fed, 1, Len(shown))
      <4>1. \A i \in 1 .. Len(shown) : shown[i] = fed[i]
        BY <3>1, <3>2
      <4> QED
        <5>1. Len(fed) \in Nat /\ Len(shown) \in Nat /\ Len(shown) <= Len(fed)
          BY <1>1, <3>3, Lengths
        <5>2. /\ SubSeq(shown, 1, Len(shown)) = [i \in 1 .. Len(shown) |-> shown[i]]
              /\ SubSeq(fed, 1, Len(shown)) = [i \in 1 .. Len(shown) |-> fed[i]]
          <6>1. 1 + Len(shown) - 1 = Len(shown)
                /\ \A i \in 1 .. Len(shown) : i + 1 - 1 = i
            BY ONLY <5>1
          <6> QED
            BY ONLY <6>1
        <5> QED
          BY ONLY <4>1, <5>2
    <3> QED
      BY <3>1, <3>2, <3>3, <3>4 DEF IsPrefix, shown
  <2>3. \A i \in 2 .. Len(fed) : fed[i - 1].n < fed[i].n
    <3>1. /\ \A i, j \in 1 .. Len(fed) : i < j => fed[i].n < fed[j].n
          /\ Len(fed) \in Nat
      BY <1>1, Lengths DEF OrderInv, NumberInv
    <3>2. \A i \in 2 .. Len(fed) : i - 1 \in 1 .. Len(fed) /\ i \in 1 .. Len(fed) /\ i - 1 < i
      BY ONLY <3>1
    <3> QED
      BY ONLY <3>1, <3>2
  <2> QED
    BY <2>1, <2>2, <2>3 DEF SessionOutput
<1> QED
  BY <1>1, InOrder, Invariance, PTL

-----------------------------------------------------------------------------
(* Pictures of an earlier session.                                         *)

\* The pictures on their way: in the queue, in a hand, in the encoder.
Around ==
  {cache[k] : k \in DOMAIN cache} \cup {fed[i] : i \in DOMAIN fed}
  \cup {hand[w] : w \in {v \in Worker : hand[v] # NoPicture}}

\* Pictures are asked for only while a worker runs.
EncodingInv ==
  /\ main \notin {"idle", "unflag"} => ~mIsEncoding
  /\ ~pushing /\ main = "idle" => ~mIsEncoding

\* Once the queue has been cleared only the picture onDrawFrame was about to
\* add can get in.
ClearedInv ==
  ~mIsEncoding /\ main # "clear" => Len(cache) <= 1 /\ (gl # 0 => cache = <<>>)

\* Two pictures of earlier sessions are the same one, and there is none while
\* such a picture is still to be added.
StaleInv ==
  /\ \A p, q \in Around : Stale(p) /\ Stale(q) => p = q
  /\ gl # 0 /\ gl < session => \A p \in Around : ~Stale(p)

AgeInv == EncodingInv /\ ClearedInv /\ StaleInv

\* The initial state: there are no pictures.
LEMMA InitAge == Init => AgeInv
<1> SUFFICES ASSUME Init PROVE AgeInv
  OBVIOUS
<1>1. cache = <<>> /\ Len(cache) = 0 /\ fed = <<>> /\ gl = 0 /\ ~mIsEncoding
  BY EmptySeq DEF Init
<1>2. DOMAIN cache = {} /\ DOMAIN fed = {}
  BY <1>1, EmptySeq
<1>3. \A w \in Worker : hand[w] = NoPicture
  BY DEF Init
<1>4. Around = {}
  BY <1>2, <1>3 DEF Around
<1> QED
  BY <1>1, <1>4 DEF AgeInv, EncodingInv, ClearedInv, StaleInv

\* The flag goes up when a worker has been started and down before it is
\* stopped.
LEMMA EncodingStep ==
  ASSUME IInv, EncodingInv, [Next]_vars
  PROVE  EncodingInv'
<1>1. CASE User
  BY <1>1 DEF User, Push, Stop, Destroy, Change, Begin, EncodingInv, mainVars
<1>2. CASE Open \/ OpenFails \/ NoCodec \/ SetFlag \/ Unflag \/ Clear \/ Interrupt \/ Join
  BY <1>2 DEF Open, OpenFails, NoCodec, SetFlag, Unflag, Clear, Interrupt, Join, Go, AfterWorker,
     EncodingInv, IInv, MainInv
<1>3. CASE Close \/ Drain \/ Resize \/ GlTest \/ GlAdd \/ UNCHANGED vars
  BY <1>3 DEF Close, Drain, Resize, GlTest, GlAdd, Go, EncodingInv, mainVars, vars
<1>4. CASE \E w \in Worker : Spawn(w)
  BY <1>4 DEF Spawn, Go, EncodingInv
<1>5. CASE \E w \in Worker : WorkerStep(w)
  BY <1>5 DEF WorkerStep, Top, Look, WaitEnds, Poll, Drop, CallNative, Convert, GiveHeader,
     Encode, NoOutput, Output, Walk, EncodingInv, mainVars
<1> QED
  BY <1>1, <1>2, <1>3, <1>4, <1>5 DEF Next, MainStep

\* The cleared queue stays almost empty until the flag goes up again.
LEMMA ClearedStep ==
  ASSUME IInv, OrderInv, EncodingInv, ClearedInv, [Next]_vars
  PROVE  ClearedInv'
<1>0. cache \in Seq(Picture) /\ Len(cache) \in Nat
  BY Lengths
<1>1. CASE User
  BY <1>1 DEF User, Push, Stop, Destroy, Change, Begin, EncodingInv, ClearedInv
<1>2. CASE Open \/ OpenFails \/ NoCodec \/ SetFlag \/ Unflag \/ Interrupt \/ Join
  BY <1>2 DEF Open, OpenFails, NoCodec, SetFlag, Unflag, Interrupt, Join, Go, ClearedInv
<1>3. CASE Clear
  <2>1. cache' = <<>> /\ Len(cache') = 0
    BY <1>3, EmptySeq DEF Clear
  <2> QED
    BY <2>1 DEF ClearedInv
<1>4. CASE Close \/ Drain \/ Resize \/ GlTest \/ UNCHANGED vars
  BY <1>4 DEF Close, Drain, Resize, GlTest, Go, ClearedInv, mainVars, vars
<1>5. CASE GlAdd
  <2>1. UNCHANGED <<mIsEncoding, main>> /\ gl # 0 /\ gl' = 0
    BY <1>5 DEF GlAdd, mainVars
  <2>2. ASSUME cache = <<>> PROVE Len(cache') = 1
    <3>1. cache' = Append(cache, [n |-> drawn + 1, in |-> gl])
      BY <1>5 DEF GlAdd
    <3>2. [n |-> drawn + 1, in |-> gl] \in Picture
      BY <2>1, AddedIsPicture DEF IInv
    <3>3. Len(cache') = Len(cache) + 1
      BY ONLY <1>0, <3>1, <3>2, AppendProperties
    <3> QED
      BY <2>2, <3>3, EmptySeq
  <2> QED
    BY <2>1, <2>2 DEF ClearedInv
<1>6. CASE \E w \in Worker : Spawn(w)
  BY <1>6 DEF Spawn, Go, ClearedInv
<1>7. CASE \E w \in Worker : WorkerStep(w)
  <2>1. UNCHANGED <<mIsEncoding, main, gl>>
    BY <1>7 DEF WorkerStep, Top, Look, WaitEnds, Poll, Drop, CallNative, Convert, GiveHeader,
       Encode, NoOutput, Output, Walk, mainVars
  <2>2. cache' = cache \/ (cache # <<>> /\ cache' = Tail(cache))
    BY <1>7 DEF WorkerStep, Top, Look, WaitEnds, Poll, Drop, CallNative, Convert, GiveHeader,
       Encode, NoOutput, Output, Walk
  <2>3. CASE cache' = cache
    BY <2>1, <2>3 DEF ClearedInv
  <2>4. CASE cache # <<>> /\ cache' = Tail(cache)
    <3>1. Len(cache') = Len(cache) - 1
      BY ONLY <1>0, <2>4, HeadTailProperties
    <3> QED
      BY <1>0, <2>1, <2>4, <3>1 DEF ClearedInv
  <2> QED
    BY <2>2, <2>3, <2>4
<1> QED
  BY <1>1, <1>2, <1>3, <1>4, <1>5, <1>6, <1>7 DEF Next, MainStep

\* A step of a session that brings in no picture.
LEMMA NothingNew ==
  ASSUME IInv, StaleInv, session' = session, Around' \subseteq Around,
         gl' \in {0, gl, session}
  PROVE  StaleInv'
<1>1. session \in Nat
  BY SoftAssumption DEF IInv, TypeOK, SoftAssumption
<1>2. \A p : Stale(p)' <=> Stale(p)
  BY DEF Stale
<1>3. \A p, q \in Around' : Stale(p)' /\ Stale(q)' => p = q
  BY <1>2 DEF StaleInv
<1>4. gl' # 0 /\ gl' < session' => \A p \in Around' : ~Stale(p)'
  BY <1>1, <1>2 DEF StaleInv
<1> QED
  BY <1>3, <1>4 DEF StaleInv, Stale

\* A new session: no worker has a picture, the new encoder has none, and at
\* most one is in the queue or still to be added.
LEMMA OpenAge ==
  ASSUME IInv, OrderInv, AgeInv, Open
  PROVE  StaleInv'
<1>1. fed' = <<>> /\ UNCHANGED <<cache, hand, gl>> /\ main = "open"
  BY DEF Open, Go, wVars
<1>2. Len(cache) <= 1 /\ (gl # 0 => cache = <<>>)
  BY <1>1 DEF AgeInv, EncodingInv, ClearedInv
<1>3. \A w \in Worker : hand'[w] = NoPicture
  BY <1>1, SoftAssumption DEF IInv, OneWorker, MainInv, OrderInv, HandInv, SoftAssumption
<1>4. DOMAIN fed' = {}
  BY <1>1, EmptySeq
<1>5. Around' = {cache[k] : k \in DOMAIN cache}
  BY <1>1, <1>3, <1>4 DEF Around
<1>6. \A k, l \in DOMAIN cache : k = l
  <2>1. DOMAIN cache = 1 .. Len(cache) /\ Len(cache) \in Nat
    BY Lengths, LenProperties
  <2> QED
    BY ONLY <1>2, <2>1
<1>7. \A p, q \in Around' : p = q
  BY <1>5, <1>6
<1>8. gl' # 0 => Around' = {}
  <2>1. cache = <<>> => DOMAIN cache = {}
    BY EmptySeq
  <2> QED
    BY <1>1, <1>2, <1>5, <2>1
<1> QED
  BY <1>7, <1>8 DEF StaleInv

\* The drawing thread adds the picture it was about to add.
LEMMA AddAge ==
  ASSUME IInv, OrderInv, StaleInv, GlAdd
  PROVE  StaleInv'
<1> DEFINE p == [n |-> drawn + 1, in |-> gl]
<1>1. UNCHANGED <<session, fed, hand>> /\ gl # 0 /\ gl' = 0 /\ cache' = Append(cache, p)
  BY DEF GlAdd, encVars, wVars
<1>2. p \in Picture /\ p.in = gl
  BY <1>1, AddedIsPicture DEF IInv
<1> HIDE DEF p
<1>3. /\ DOMAIN cache = 1 .. Len(cache) /\ Len(cache) \in Nat
      /\ DOMAIN cache' = 1 .. Len(cache) + 1
      /\ \A k \in 1 .. Len(cache) : cache'[k] = cache[k]
      /\ cache'[Len(cache) + 1] = p
  <2>1. cache \in Seq(Picture)
    BY Lengths
  <2>2. /\ Append(cache, p) \in Seq(Picture) /\ Len(Append(cache, p)) = Len(cache) + 1
        /\ \A k \in 1 .. Len(cache) : Append(cache, p)[k] = cache[k]
        /\ Append(cache, p)[Len(cache) + 1] = p
    BY ONLY <1>2, <2>1, AppendProperties
  <2> QED
    BY ONLY <1>1, <2>1, <2>2, LenProperties
<1>4. \A k \in DOMAIN cache' : k \in DOMAIN cache \/ k = Len(cache) + 1
  BY ONLY <1>3
<1>5. \A q \in Around' : q \in Around \/ q = p
  BY <1>1, <1>3, <1>4 DEF Around
<1>6. \A q : Stale(q)' <=> Stale(q)
  BY <1>1 DEF Stale
<1>7. Stale(p) => \A q \in Around : ~Stale(q)
  BY <1>1, <1>2 DEF StaleInv, Stale
<1>8. \A q, r \in Around' : Stale(q)' /\ Stale(r)' => q = r
  BY <1>5, <1>6, <1>7 DEF StaleInv
<1> QED
  BY <1>1, <1>8 DEF StaleInv, Stale

\* The steps of a worker move pictures or drop them.
LEMMA WorkerAge ==
  ASSUME IInv, OrderInv, StaleInv, NEW w \in Worker, WorkerStep(w)
  PROVE  StaleInv'
<1>1. session' = session /\ gl' = gl
  BY DEF WorkerStep, Top, Look, WaitEnds, Poll, Drop, CallNative, Convert, GiveHeader,
     Encode, NoOutput, Output, Walk
<1>2. Around' \subseteq Around
  <2>1. CASE Top(w) \/ Look(w) \/ WaitEnds(w) \/ CallNative(w) \/ Convert(w) \/ NoOutput(w) \/ Output(w)
    <3>1. UNCHANGED <<cache, fed, hand>>
      BY <2>1 DEF Top, Look, WaitEnds, CallNative, Convert, NoOutput, Output, Walk
    <3> QED
      BY <3>1 DEF Around
  <2>2. CASE Drop(w) \/ GiveHeader(w)
    <3>1. UNCHANGED <<cache, fed>> /\ hand' = [hand EXCEPT ![w] = NoPicture]
      BY <2>2 DEF Drop, GiveHeader, Walk
    <3>2. \A v \in Worker : hand'[v] = hand[v] \/ hand'[v] = NoPicture
      BY <3>1 DEF IInv, TypeOK
    <3> QED
      BY <3>1, <3>2 DEF Around
  <2>3. CASE Poll(w)
    <3>1. fed' = fed
      BY <2>3 DEF Poll
    <3>2. CASE cache = <<>>
      BY <2>3, <3>1, <3>2 DEF Poll, Around
    <3>3. CASE cache # <<>>
      <4>1. cache' = Tail(cache) /\ hand' = [hand EXCEPT ![w] = Head(cache)]
        BY <2>3, <3>3 DEF Poll
      <4>2. /\ \A k \in DOMAIN cache' : k + 1 \in DOMAIN cache /\ cache'[k] = cache[k + 1]
            /\ 1 \in DOMAIN cache /\ Head(cache) = cache[1]
        <5>1. cache \in Seq(Picture)
          BY Lengths
        <5>2. /\ cache' \in Seq(Picture) /\ Len(cache') = Len(cache) - 1
              /\ \A k \in 1 .. Len(cache') : cache'[k] = cache[k + 1]
              /\ Head(cache) = cache[1] /\ Len(cache) >= 1
          BY ONLY <3>3, <4>1, <5>1, HeadTailProperties, EmptySeq, LenProperties
        <5>3. /\ Len(cache) \in Nat /\ DOMAIN cache = 1 .. Len(cache)
              /\ DOMAIN cache' = 1 .. Len(cache')
          BY ONLY <5>1, <5>2, LenProperties
        <5> QED
          BY ONLY <5>2, <5>3
      <4>3. \A v \in Worker : hand'[v] = hand[v] \/ hand'[v] = cache[1]
        BY <4>1, <4>2 DEF IInv, TypeOK
      <4> QED
        BY <3>1, <4>2, <4>3 DEF Around
    <3> QED
      BY <3>2, <3>3
  <2>4. CASE Encode(w)
    <3>1. cache' = cache /\ fed' = Append(fed, hand[w]) /\ hand' = [hand EXCEPT ![w] = NoPicture]
          /\ at[w] = "encode"
      BY <2>4 DEF Encode, Walk
    <3>2. hand[w] # NoPicture /\ hand[w] \in Picture
      BY <3>1 DEF OrderInv, HandInv, IInv, TypeOK
    <3>3. \A i \in DOMAIN fed' : (i \in DOMAIN fed /\ fed'[i] = fed[i]) \/ fed'[i] = hand[w]
      <4>1. fed \in Seq(Picture)
        BY Lengths
      <4>2. /\ fed' \in Seq(Picture) /\ Len(fed') = Len(fed) + 1 /\ fed'[Len(fed) + 1] = hand[w]
            /\ \A i \in 1 .. Len(fed) : fed'[i] = fed[i]
        BY ONLY <3>1, <3>2, <4>1, AppendProperties
      <4>3. DOMAIN fed = 1 .. Len(fed) /\ DOMAIN fed' = 1 .. Len(fed') /\ Len(fed) \in Nat
        BY ONLY <4>1, <4>2, LenProperties
      <4> QED
        BY ONLY <4>2, <4>3
    <3>4. \A v \in Worker : hand'[v] = hand[v] \/ hand'[v] = NoPicture
      BY <3>1 DEF IInv, TypeOK
    <3>5. hand[w] \in Around
      BY <3>2 DEF Around
    <3>6. \A i \in DOMAIN fed' : fed'[i] \in Around
      BY <3>3, <3>5 DEF Around
    <3> QED
      BY <3>1, <3>4, <3>6 DEF Around
  <2> QED
    BY <2>1, <2>2, <2>3, <2>4 DEF WorkerStep
<1> QED
  BY <1>1, <1>2, NothingNew

\* The pictures of earlier sessions stay few through all threads.
THEOREM OfAge == Spec => []AgeInv
<1>1. ASSUME IInv, OrderInv, AgeInv, [Next]_vars PROVE AgeInv'
  <2>1. EncodingInv' /\ ClearedInv'
    BY <1>1, EncodingStep, ClearedStep DEF AgeInv
  <2>2. StaleInv'
    <3>1. CASE User \/ OpenFails \/ NoCodec \/ SetFlag \/ Unflag \/ Interrupt \/ Join
               \/ Close \/ Drain \/ Resize \/ GlTest \/ UNCHANGED vars
      <4>1. UNCHANGED <<session, cache, fed, hand>> /\ gl' \in {gl, session}
        BY <3>1 DEF User, Push, Stop, Destroy, Change, Begin, OpenFails, NoCodec, SetFlag, Unflag,
           Interrupt, Join, Close, Drain, Resize, GlTest, Go, encVars, wVars, vars
      <4>2. Around' = Around
        BY <4>1 DEF Around
      <4> QED
        BY <1>1, <4>1, <4>2, NothingNew DEF AgeInv
    <3>2. CASE Clear
      <4>1. UNCHANGED <<session, gl, fed, hand>> /\ cache' = <<>>
        BY <3>2 DEF Clear, Go, encVars, wVars
      <4>2. DOMAIN cache' = {}
        BY <4>1, EmptySeq
      <4>3. Around' \subseteq Around
        BY <4>1, <4>2 DEF Around
      <4> QED
        BY <1>1, <4>1, <4>3, NothingNew DEF AgeInv
    <3>3. CASE Open \/ GlAdd
      BY <1>1, <3>3, OpenAge, AddAge DEF AgeInv
    <3>4. CASE \E w \in Worker : Spawn(w)
      <4>1. UNCHANGED <<session, cache, fed, hand, gl>>
        BY <3>4 DEF Spawn, Go, encVars
      <4>2. Around' = Around
        BY <4>1 DEF Around
      <4> QED
        BY <1>1, <4>1, <4>2, NothingNew DEF AgeInv
    <3>5. CASE \E w \in Worker : WorkerStep(w)
      BY <1>1, <3>5, WorkerAge DEF AgeInv
    <3> QED
      BY <1>1, <3>1, <3>2, <3>3, <3>4, <3>5 DEF Next, MainStep
  <2> QED
    BY <2>1, <2>2 DEF AgeInv
<1> QED
  BY <1>1, InitAge, Invariance, InOrder, PTL DEF Spec

\* A set whose elements are all equal.
LEMMA AllEqual ==
  ASSUME NEW S, \A x, y \in S : x = y
  PROVE  \/ S = {} /\ Cardinality(S) = 0
         \/ S # {} /\ Cardinality(S) = 1
<1>1. CASE S = {}
  BY <1>1, FS_EmptySet
<1>2. CASE S # {}
  <2>1. PICK x : S = {x}
    BY <1>2
  <2> QED
    BY <1>2, <2>1, FS_Singleton
<1> QED
  BY <1>1, <1>2

\* In whatever order the threads run, at most one picture of an earlier
\* session is left for a session: the one onDrawFrame was about to add when
\* disableEncoding cleared the queue (SrsCameraView 119-134, 291-306).
THEOREM StaleAtMostOneAlways == Spec => []StaleAtMostOne
<1>1. ASSUME IInv, OrderInv, AgeInv PROVE StaleAtMostOne
  <2> DEFINE C == {k \in DOMAIN cache : Stale(cache[k])}
             F == {i \in DOMAIN fed : Stale(fed[i])}
             H == {w \in Worker : hand[w] # NoPicture /\ Stale(hand[w])}
  <2>1. /\ DOMAIN cache = 1 .. Len(cache) /\ Len(cache) \in Nat
        /\ DOMAIN fed = 1 .. Len(fed) /\ Len(fed) \in Nat
    BY <1>1, Lengths, LenProperties
  <2>2. /\ \A k \in DOMAIN cache : cache[k].n \in Nat
        /\ \A i \in DOMAIN fed : fed[i].n \in Nat
        /\ \A w \in Worker : hand[w] # NoPicture => hand[w].n \in Nat
    BY <1>1, <2>1, Lengths, ElementOfSeq, PictureNumber DEF IInv, TypeOK
  <2>3. /\ \A k \in C : cache[k] \in Around /\ Stale(cache[k])
        /\ \A i \in F : fed[i] \in Around /\ Stale(fed[i])
        /\ \A w \in H : hand[w] \in Around /\ Stale(hand[w])
    BY DEF Around
  <2>4. \A p, q \in Around : Stale(p) /\ Stale(q) => p = q
    BY <1>1 DEF AgeInv, StaleInv
  <2>5. \A k, l \in C : k = l
    <3>1. \A k, l \in C : cache[k] = cache[l]
      BY <2>3, <2>4
    <3>2. \A i, j \in 1 .. Len(cache) : i < j => cache[i].n < cache[j].n
      BY <1>1 DEF OrderInv, NumberInv
    <3> QED
      BY <2>1, <2>2, <3>1, <3>2
  <2>6. \A i, j \in F : i = j
    <3>1. \A i, j \in F : fed[i] = fed[j]
      BY <2>3, <2>4
    <3>2. \A i, j \in 1 .. Len(fed) : i < j => fed[i].n < fed[j].n
      BY <1>1 DEF OrderInv, NumberInv
    <3> QED
      BY <2>1, <2>2, <3>1, <3>2
  <2>7. \A v, w \in H : v = w
    BY <1>1, WorkerOpen DEF OrderInv, HandInv
  <2>8. C # {} => F = {} /\ H = {}
    <3>1. /\ \A k \in C, i \in F : cache[k] = fed[i]
          /\ \A k \in C, w \in H : cache[k] = hand[w]
      BY <2>3, <2>4
    <3>2. /\ \A k \in C, i \in F : fed[i].n < cache[k].n
          /\ \A k \in C, w \in H : hand[w].n < cache[k].n
      BY <1>1, <2>1 DEF OrderInv, NumberInv, FedBefore
    <3> QED
      BY <2>2, <3>1, <3>2
  <2>9. F # {} => H = {}
    <3>1. \A i \in F, w \in H : fed[i] = hand[w]
      BY <2>3, <2>4
    <3>2. \A i \in F, w \in H : fed[i].n < hand[w].n
      BY <1>1, <2>1 DEF OrderInv, NumberInv, FedBefore
    <3> QED
      BY <2>2, <3>1, <3>2
  <2> HIDE DEF C, F, H
  <2>10. Cardinality(C) + Cardinality(F) + Cardinality(H) <= 1
    <3>1. (C = {} /\ Cardinality(C) = 0) \/ (C # {} /\ Cardinality(C) = 1)
      BY ONLY <2>5, AllEqual
    <3>2. (F = {} /\ Cardinality(F) = 0) \/ (F # {} /\ Cardinality(F) = 1)
      BY ONLY <2>6, AllEqual
    <3>3. (H = {} /\ Cardinality(H) = 0) \/ (H # {} /\ Cardinality(H) = 1)
      BY ONLY <2>7, AllEqual
    <3> QED
      BY ONLY <2>8, <2>9, <3>1, <3>2, <3>3
  <2> QED
    BY <2>10 DEF StaleAtMostOne, C, F, H
<1> QED
  BY <1>1, Invariance, InOrder, OfAge, PTL

=============================================================================
