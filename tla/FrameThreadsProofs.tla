------------------------- MODULE FrameThreadsProofs -------------------------
(***************************************************************************)
(* The encoder uses its pool as the pool expects: every step of the        *)
(* encoder is a step of the pool or leaves it alone.  So what is proved of *)
(* the pool holds of the encoder, for any number of threads, any size of   *)
(* picture and any references.  And the encoder implements the pipe: the   *)
(* contexts are used in turn, each has at most one job in the pool, and    *)
(* the pictures in their buffers are numbered by the age of the contexts.  *)
(***************************************************************************)
EXTENDS FrameThreads, ThreadPoolProofs

\* The contexts take turns.
LEMMA InTurn == ASSUME NEW t \in Arg PROVE Next1(t) \in Arg
<1>1. Threads \in Nat /\ Threads > 1
  BY FramesAssumption, FS_CardinalityType, PoolAssumption DEF Threads
<1>2. t + 1 \in Nat BY <1>1, FramesAssumption
<1>3. (t + 1) % Threads \in 0 .. (Threads - 1) BY <1>1, <1>2
<1> QED BY <1>3, FramesAssumption DEF Next1

\* Before and after a step of the encoder the phase is a context, and the
\* step is one of the pool or leaves it alone.
LEMMA StepOfPool ==
  ASSUME phase \in Arg, [Next]_vars
  PROVE  phase' \in Arg /\ [PoolNext]_poolVars
<1> USE DEF PoolNext
<1>1. Next1(phase) \in Arg BY InTurn
<1>2. ASSUME NEW cut \in BOOLEAN, Encode(cut)
      PROVE phase' \in Arg /\ [PoolNext]_poolVars
  BY <1>1, <1>2 DEF Encode
<1>3. CASE Queue BY <1>3 DEF Queue
<1>4. CASE WaitOldest BY <1>1, <1>4 DEF WaitOldest, Oldest
<1>5. CASE Waiting BY <1>5 DEF Waiting, frameVars
<1>6. CASE FrameEnd BY <1>6 DEF FrameEnd
<1>7. CASE BeginClose BY <1>7 DEF BeginClose
<1>8. CASE Flush BY <1>1, <1>8 DEF Flush
<1>9. CASE DeletePool BY <1>9 DEF DeletePool
<1>10. CASE JoinPool BY <1>10 DEF JoinPool, frameVars
<1>11. CASE Reopen
  <2>1. 0 \in Arg
    BY FramesAssumption, FS_CardinalityType, PoolAssumption DEF Threads
  <2> QED BY <1>11, <2>1 DEF Reopen
<1>12. ASSUME NEW w \in Worker, PoolThread(w)
       PROVE phase' \in Arg /\ [PoolNext]_poolVars
  BY <1>12 DEF PoolThread, frameVars
<1>13. ASSUME NEW w \in Worker, NEW t \in Arg,
              Await(w, t) \/ CodeRow(w, t) \/ Publish(w, t) \/ Fail(w, t)
       PROVE phase' \in Arg /\ [PoolNext]_poolVars
  <2>1. CASE Await(w, t) BY <2>1 DEF Await, JobSteps
  <2>2. CASE CodeRow(w, t) BY <2>2 DEF CodeRow, JobSteps
  <2>3. CASE Publish(w, t)
    <3>1. FinishWork(w) \/ UNCHANGED poolVars BY <2>3 DEF Publish
    <3>2. phase' = phase BY <2>3 DEF Publish, JobSteps
    <3> QED BY <3>1, <3>2
  <2>4. CASE Fail(w, t) BY <2>4 DEF Fail, JobSteps
  <2> QED BY <1>13, <2>1, <2>2, <2>3, <2>4
<1>14. CASE UNCHANGED vars BY <1>14 DEF vars, frameVars
<1> QED BY <1>2, <1>3, <1>4, <1>5, <1>6, <1>7, <1>8, <1>9, <1>10, <1>11, <1>12,
           <1>13, <1>14 DEF Next

LEMMA StartOfPool == Init => phase \in Arg /\ PoolInit
BY FramesAssumption, FS_CardinalityType, PoolAssumption DEF Init, Threads

\* x264_encoder_encode, _frame_end and _close keep to the pool's interface:
\* the encoder implements the pool's own specification.
THEOREM EncoderUsesPool == Spec => PoolSpec
<1>1. Init => phase \in Arg BY StartOfPool
<1>2. phase \in Arg /\ [Next]_vars => (phase \in Arg)' BY StepOfPool
<1>3. phase \in Arg /\ [Next]_vars => [PoolNext]_poolVars BY StepOfPool
<1>4. Init => PoolInit BY StartOfPool
<1> QED BY <1>1, <1>2, <1>3, <1>4, PTL DEF Spec, PoolSpec

\* The invariant of the pool, for every encoder.
THEOREM PoolInvOfEncoder == Spec => []PoolInv
BY EncoderUsesPool, PoolInvariance, PTL

\* No push of the encoder's pool sleeps for ever on a full list.
THEOREM EncoderNeverFull == Spec => []NeverFull
BY EncoderUsesPool, NeverFullAlways, PTL

-----------------------------------------------------------------------------
(* One job of each argument.                                               *)

\* What is left of a sequence when one element is taken out.
LEMMA Removed ==
  ASSUME NEW S, NEW s \in Seq(S), NEW i \in DOMAIN s
  PROVE  LET r == RemoveAt(s, i)
         IN /\ DOMAIN r = 1 .. (Len(s) - 1)
            /\ \A j \in 1 .. (Len(s) - 1) : r[j] = s[IF j < i THEN j ELSE j + 1]
<1> DEFINE a == SubSeq(s, 1, i - 1)
           b == SubSeq(s, i + 1, Len(s))
           r == RemoveAt(s, i)
<1>1. i \in 1 .. Len(s) /\ Len(s) \in Nat OBVIOUS
<1>2. /\ a \in Seq(S) /\ Len(a) = i - 1
      /\ \A j \in 1 .. (i - 1) : a[j] = s[j]
  BY <1>1
<1>3. /\ b \in Seq(S) /\ Len(b) = Len(s) - i
      /\ \A j \in 1 .. (Len(s) - i) : b[j] = s[i + j]
  BY <1>1
<1>4. r = a \o b BY Zenon DEF RemoveAt
<1> HIDE DEF a, b, r
<1>5. /\ r \in Seq(S) /\ Len(r) = Len(a) + Len(b)
      /\ \A j \in 1 .. (Len(a) + Len(b)) :
           r[j] = IF j <= Len(a) THEN a[j] ELSE b[j - Len(a)]
  BY <1>2, <1>3, <1>4, ConcatProperties
<1>6. Len(a) + Len(b) = Len(s) - 1 BY <1>1, <1>2, <1>3
<1>7. DOMAIN r = 1 .. (Len(s) - 1) BY <1>5, <1>6
<1>8. ASSUME NEW j \in 1 .. (Len(s) - 1)
      PROVE  r[j] = s[IF j < i THEN j ELSE j + 1]
  <2>1. CASE j < i
    <3>1. j \in 1 .. (i - 1) /\ j <= Len(a) BY <1>1, <1>2, <2>1
    <3> QED BY <1>2, <1>5, <1>6, <2>1, <3>1
  <2>2. CASE ~(j < i)
    <3>1. /\ j - (i - 1) \in 1 .. (Len(s) - i) /\ ~(j <= Len(a))
          /\ i + (j - (i - 1)) = j + 1
      BY <1>1, <1>2, <2>2
    <3>2. r[j] = b[j - (i - 1)] BY <1>2, <1>5, <1>6, <3>1
    <3> QED BY <1>3, <2>2, <3>1, <3>2
  <2> QED BY <2>1, <2>2
<1> QED BY <1>7, <1>8 DEF r

\* Steps that move no job between the lists and the threads.
LEMMA NothingMoves ==
  ASSUME JobsApart, UNCHANGED <<run, done, cur>>, Busy' \subseteq Busy,
         caller' \in {"push", "return"} =>
           carg' \notin Placed
  PROVE  JobsApart' /\ Placed' \subseteq Placed
BY DEF JobsApart, Placed, ToSet, IsInjective

\* x264_threadpool_run with an argument that is not in the pool.
LEMMA PopUninitApart ==
  ASSUME PoolTypeOK, JobsApart, NEW a \in Arg, PopUninit(a), a \notin Placed
  PROVE  JobsApart' /\ Placed' \subseteq Placed
<1>1. Busy' = Busy BY DEF PopUninit, Busy
<1> QED BY <1>1, NothingMoves DEF PopUninit

LEMMA PushRunApart ==
  ASSUME PoolInv, JobsApart, PushRun
  PROVE  JobsApart' /\ Placed' \subseteq Placed \cup {carg}
<1>1. /\ run \in Seq(Arg) /\ carg \in Arg /\ carg \notin Placed /\ Len(run) \in Nat
      /\ run' = Append(run, carg) /\ UNCHANGED <<done, cur>> /\ caller' = "out"
  BY DEF PoolInv, PoolTypeOK, JobsApart, PushRun, CallerHasJob
<1>2. Busy' = Busy
  BY DEF PushRun, Busy, Awakened, PoolInv, PoolTypeOK
<1>3. /\ DOMAIN run = 1 .. Len(run) /\ DOMAIN run' = 1 .. (Len(run) + 1)
      /\ \A i \in 1 .. Len(run) : run'[i] = run[i]
      /\ run'[Len(run) + 1] = carg
  BY <1>1, AppendProperties
<1>4. \A i \in DOMAIN run' : i \in DOMAIN run \/ i = Len(run) + 1 BY <1>1, <1>3
<1>5. ToSet(run') \subseteq ToSet(run) \cup {carg} BY <1>3, <1>4 DEF ToSet
<1>6. carg \notin ToSet(run) /\ carg \notin ToSet(done)
      /\ \A w \in Busy : cur[w] # carg
  BY <1>1 DEF Placed
<1>7. \A i \in DOMAIN run : run[i] # carg BY <1>6 DEF ToSet
<1>8. IsInjective(run')
  BY <1>3, <1>4, <1>7 DEF JobsApart, IsInjective
<1> QED BY <1>1, <1>2, <1>5, <1>6, <1>8 DEF JobsApart, Placed

LEMMA FindDoneApart ==
  ASSUME PoolInv, JobsApart, FindDone
  PROVE  JobsApart' /\ Placed' \subseteq Placed
<1>1. PICK i \in DOMAIN done : done[i] = carg /\ done' = RemoveAt(done, i)
  BY DEF FindDone
<1>2. /\ done \in Seq(Arg) /\ UNCHANGED <<run, cur, carg>>
  BY DEF PoolInv, PoolTypeOK, FindDone
<1>3. Busy' = Busy BY DEF FindDone, Busy
<1>4. /\ DOMAIN done' = 1 .. (Len(done) - 1)
      /\ \A j \in 1 .. (Len(done) - 1) : done'[j] = done[IF j < i THEN j ELSE j + 1]
  BY <1>1, <1>2, Removed
<1>5. DOMAIN done = 1 .. Len(done) /\ Len(done) \in Nat BY <1>2
<1> DEFINE k(j) == IF j < i THEN j ELSE j + 1
<1>6. /\ \A j \in DOMAIN done' : k(j) \in DOMAIN done /\ k(j) # i /\ done'[j] = done[k(j)]
      /\ \A j, l \in DOMAIN done' : k(j) = k(l) => j = l
  BY <1>4, <1>5
<1> HIDE DEF k
<1>7. \A j, l \in DOMAIN done : done[j] = done[l] => j = l
  BY DEF JobsApart, IsInjective
<1>8. IsInjective(done') BY <1>6, <1>7 DEF IsInjective
<1>9. ToSet(done') \subseteq ToSet(done) BY <1>6 DEF ToSet
<1>10. carg \notin ToSet(done') BY <1>1, <1>6, <1>7 DEF ToSet
<1>11. carg \in ToSet(done) BY <1>1 DEF ToSet
<1>12. carg \notin Placed'
  BY <1>2, <1>3, <1>10, <1>11 DEF JobsApart, Placed
<1> QED BY <1>2, <1>3, <1>8, <1>9, <1>12 DEF JobsApart, Placed

LEMMA TakeApart ==
  ASSUME PoolInv, JobsApart, NEW w \in Worker, Take(w)
  PROVE  JobsApart' /\ Placed' \subseteq Placed
<1>1. /\ run \in Seq(Arg) /\ run # <<>> /\ wk[w] = "look"
      /\ run' = Tail(run) /\ UNCHANGED <<done, caller, carg>>
      /\ cur \in [Worker -> Arg \cup {NoArg}] /\ cur' = [cur EXCEPT ![w] = Head(run)]
  BY DEF PoolInv, PoolTypeOK, Take
<1>2. w \notin Busy /\ Busy' = Busy \cup {w}
  BY DEF Take, Busy, PoolInv, PoolTypeOK
<1>3. /\ Head(run) = run[1] /\ DOMAIN run = 1 .. Len(run) /\ Len(run) \in Nat
      /\ 1 \in DOMAIN run /\ DOMAIN run' = 1 .. (Len(run) - 1)
      /\ \A j \in 1 .. (Len(run) - 1) : run'[j] = run[j + 1]
  BY <1>1, HeadTailProperties, EmptySeq
<1>4. \A j \in DOMAIN run' : j + 1 \in DOMAIN run /\ j + 1 # 1 /\ run'[j] = run[j + 1]
  BY <1>3
<1>5. \A j, l \in DOMAIN run : run[j] = run[l] => j = l
  BY DEF JobsApart, IsInjective
<1>6. IsInjective(run')
  <2> SUFFICES ASSUME NEW j \in DOMAIN run', NEW l \in DOMAIN run', run'[j] = run'[l]
               PROVE  j = l
    BY DEF IsInjective
  <2>1. j + 1 = l + 1 BY <1>4, <1>5
  <2> QED BY <2>1, <1>3
<1>7. ToSet(run') \subseteq ToSet(run) /\ run[1] \notin ToSet(run') /\ run[1] \in ToSet(run)
  BY <1>3, <1>4, <1>5 DEF ToSet
<1>8. \A v \in Busy' : cur'[v] = IF v = w THEN run[1] ELSE cur[v]
  BY <1>1, <1>2, <1>3 DEF Busy
<1>9. \A v \in Busy' : v = w \/ (v \in Busy /\ v # w) BY <1>2
<1>10. Placed' \subseteq Placed
  BY <1>1, <1>7, <1>8, <1>9 DEF Placed
<1>11. /\ \A v, x \in Busy' : cur'[v] = cur'[x] => v = x
       /\ \A v \in Busy' : cur'[v] \notin ToSet(run') \cup ToSet(done')
  BY <1>1, <1>7, <1>8, <1>9 DEF JobsApart
<1> QED BY <1>1, <1>6, <1>7, <1>10, <1>11 DEF JobsApart

LEMMA PushDoneApart ==
  ASSUME PoolInv, JobsApart, NEW w \in Worker, PushDone(w)
  PROVE  JobsApart' /\ Placed' \subseteq Placed
<1>1. /\ done \in Seq(Arg) /\ w \in Busy /\ cur[w] \in Arg /\ Len(done) \in Nat
      /\ done' = Append(done, cur[w]) /\ UNCHANGED <<run, carg>>
      /\ \A v \in Worker : v # w => cur'[v] = cur[v]
      /\ caller' \in {"push", "return"} => caller' = caller
  BY DEF PoolInv, PoolTypeOK, PushDone, Busy, BusyHasJob
<1>2. Busy' = Busy \ {w}
  BY DEF PushDone, Busy, PoolInv, PoolTypeOK
<1>3. /\ DOMAIN done = 1 .. Len(done) /\ DOMAIN done' = 1 .. (Len(done) + 1)
      /\ \A i \in 1 .. Len(done) : done'[i] = done[i]
      /\ done'[Len(done) + 1] = cur[w]
  BY <1>1, AppendProperties
<1>4. \A i \in DOMAIN done' : i \in DOMAIN done \/ i = Len(done) + 1 BY <1>1, <1>3
<1>5. ToSet(done') \subseteq ToSet(done) \cup {cur[w]} BY <1>3, <1>4 DEF ToSet
<1>6. \A i \in DOMAIN done : done[i] # cur[w]
  BY <1>1 DEF JobsApart, ToSet
<1>7. IsInjective(done')
  BY <1>3, <1>4, <1>6 DEF JobsApart, IsInjective
<1>8. \A v \in Busy' : v \in Busy /\ v # w /\ cur'[v] = cur[v]
  BY <1>1, <1>2 DEF Busy
<1>9. Placed' \subseteq Placed
  BY <1>1, <1>5, <1>8 DEF Placed
<1> QED BY <1>1, <1>5, <1>7, <1>8, <1>9 DEF JobsApart

\* Whatever the pool does by itself, no argument comes into it.
LEMMA LoopApart ==
  ASSUME PoolInv, JobsApart, NEW w \in Worker, Loop(w) \/ FinishWork(w)
  PROVE  JobsApart' /\ Placed' \subseteq Placed
<1>1. ASSUME Top(w) \/ Sleep(w) \/ NoJob(w) \/ FinishWork(w)
      PROVE  JobsApart' /\ Placed' \subseteq Placed
  <2>1. UNCHANGED <<run, done, cur, caller, carg>>
    BY <1>1 DEF Top, Sleep, NoJob, FinishWork
  <2>2. Busy' \subseteq Busy
    BY <1>1 DEF Top, Sleep, NoJob, FinishWork, Busy, PoolInv, PoolTypeOK
  <2> QED BY <2>1, <2>2, NothingMoves DEF JobsApart
<1> QED BY <1>1, TakeApart, PushDoneApart DEF Loop
-----------------------------------------------------------------------------
(* The contexts in turn.                                                   *)

LEMMA Contexts ==
  /\ Threads \in Nat /\ Threads > 1 /\ Arg = 0 .. (Threads - 1)
  /\ IsFiniteSet(Arg) /\ Cardinality(Arg) = Threads
<1>1. /\ Threads \in Nat /\ Threads > 1 /\ Arg = 0 .. (Threads - 1)
  BY FramesAssumption, FS_CardinalityType, PoolAssumption DEF Threads
<1> QED BY <1>1, FS_Interval

LEMMA NextInTurn ==
  ASSUME NEW t \in Arg
  PROVE  Next1(t) = IF t = Threads - 1 THEN 0 ELSE t + 1
<1>1. Threads \in Nat \ {0} /\ t \in 0 .. (Threads - 1) BY Contexts
<1>2. CASE t = Threads - 1
  <2>1. Threads % Threads = 0 BY <1>1
  <2> QED BY <1>1, <1>2, <2>1 DEF Next1
<1>3. CASE t # Threads - 1
  <2>1. t + 1 \in 0 .. (Threads - 1) BY <1>1, <1>3
  <2>2. (t + 1) % Threads = t + 1 BY <1>1, <2>1
  <2> QED BY <1>3, <2>2 DEF Next1
<1> QED BY <1>2, <1>3

\* Ages tell the contexts apart, and the oldest context is the oldest.
LEMMA Ages ==
  ASSUME phase \in Arg
  PROVE  /\ \A t \in Arg : Age(t) \in 0 .. (Threads - 1)
         /\ \A t, u \in Arg : Age(t) = Age(u) => t = u
         /\ Oldest \in Arg /\ Age(Oldest) = Threads - 1
         /\ \A t \in Arg : t # Oldest => Age(t) < Age(Oldest)
         /\ Oldest # phase
<1>1. Threads \in Nat /\ Threads > 1 /\ Arg = 0 .. (Threads - 1) BY Contexts
<1>2. Oldest = IF phase = Threads - 1 THEN 0 ELSE phase + 1
  BY NextInTurn DEF Oldest
<1>3. Oldest \in Arg /\ Age(Oldest) = Threads - 1 /\ Oldest # phase
  BY <1>1, <1>2 DEF Age
<1>4. \A t \in Arg : Age(t) \in 0 .. (Threads - 1) BY <1>1 DEF Age
<1>5. \A t, u \in Arg : Age(t) = Age(u) => t = u BY <1>1 DEF Age
<1>6. ASSUME NEW t \in Arg, t # Oldest PROVE Age(t) < Age(Oldest)
  <2>1. Age(t) # Age(Oldest) BY <1>3, <1>5, <1>6
  <2> QED BY <1>1, <1>3, <1>4, <2>1
<1> QED BY <1>3, <1>4, <1>5, <1>6

\* When the phase moves on, the oldest context becomes the youngest.
LEMMA Older ==
  ASSUME phase \in Arg, phase' = Next1(phase)
  PROVE  /\ phase' \in Arg /\ phase' = Oldest
         /\ \A t \in Arg : (Age(t))' = IF t = Oldest THEN 0 ELSE Age(t) + 1
<1>1. Threads \in Nat /\ Threads > 1 /\ Arg = 0 .. (Threads - 1) BY Contexts
<1>2. Oldest = (IF phase = Threads - 1 THEN 0 ELSE phase + 1) /\ phase' = Oldest
  BY NextInTurn DEF Oldest
<1>3. ASSUME NEW t \in Arg
      PROVE  (Age(t))' = IF t = Oldest THEN 0 ELSE Age(t) + 1
  BY <1>1, <1>2 DEF Age
<1> QED BY <1>1, <1>2, <1>3

\* The contexts in the pipe.
Piped == {t \in Arg : InPipe(t)}

LEMMA PipedFinite ==
  /\ Depth = Cardinality(Piped) /\ IsFiniteSet(Piped) /\ Depth \in 0 .. Threads
<1>1. Piped \subseteq Arg BY DEF Piped
<1>2. IsFiniteSet(Piped) /\ Cardinality(Piped) <= Cardinality(Arg)
  BY <1>1, Contexts, FS_Subset
<1>3. Cardinality(Piped) \in Nat BY <1>2, FS_CardinalityType
<1> QED BY <1>2, <1>3, Contexts DEF Piped, Depth

\* In the pipe the oldest context has the first picture.
LEMMA OldestFirst ==
  ASSUME IInv, InPipe(Oldest)
  PROVE  /\ Num(Oldest) = input - Depth /\ Depth > 0
         /\ \A t \in Arg : InPipe(t) /\ t # Oldest => Num(t) > Num(Oldest)
<1>1. phase \in Arg /\ input \in Nat BY DEF IInv, TypeOK
<1>2. Oldest \in Arg BY <1>1, Ages
<1>3. Depth \in 0 .. Threads /\ Threads \in Nat BY PipedFinite, Contexts
<1>4. Oldest \in Piped BY <1>2 DEF Piped
<1>5. Depth # 0 BY <1>4, PipedFinite, FS_EmptySet
<1>6. \A t \in Arg : InPipe(t) => Num(t) \in (input - Depth) .. (input - 1)
  BY DEF IInv, PicturesInOrder
<1>7. ASSUME NEW t \in Arg, InPipe(t), t # Oldest PROVE Num(Oldest) < Num(t)
  <2>1. Age(t) < Age(Oldest) BY <1>1, <1>7, Ages
  <2> QED BY <1>2, <1>7, <2>1 DEF IInv, PicturesInOrder
<1>8. PICK t \in Arg : InPipe(t) /\ Num(t) = input - Depth
  <2>1. input - Depth \in (input - Depth) .. (input - 1) BY <1>1, <1>3, <1>5
  <2> QED BY <2>1 DEF IInv, PicturesInOrder
<1>9. Num(Oldest) \in (input - Depth) .. (input - 1) BY <1>2, <1>6
<1>10. t = Oldest
  <2>1. CASE t # Oldest
    <3>1. Num(Oldest) < input - Depth BY <1>7, <1>8, <2>1
    <3> QED BY <1>1, <1>3, <1>9, <3>1
  <2> QED BY <2>1
<1>11. \A u \in Arg : InPipe(u) /\ u # Oldest => Num(u) > Num(Oldest)
  <2>1. \A u \in Arg : InPipe(u) => Num(u) \in Int BY <1>1, <1>3, <1>6
  <2> QED BY <1>7, <1>2, <2>1
<1> QED BY <1>3, <1>5, <1>8, <1>10, <1>11

\* As long as the encoder is open, a picture comes out of a full pipe only.
LEMMA OpenIsFull ==
  ASSUME IInv, InPipe(Oldest), ~closing
  PROVE  Depth = Threads
<1>1. phase \in Arg BY DEF IInv, TypeOK
<1>2. \A t \in Arg : t = Oldest \/ Age(t) < Age(Oldest) BY <1>1, Ages
<1>3. Oldest \in Arg BY <1>1, Ages
<1>4. \A t \in Arg : InPipe(t) BY <1>2, <1>3 DEF IInv, PicturesInOrder
<1>5. Piped = Arg BY <1>4 DEF Piped
<1> QED BY <1>5, PipedFinite, Contexts

-----------------------------------------------------------------------------
(* Lists of buffers.                                                       *)

\* A kind of buffers: they have a count, and any count.
Counting(B) ==
  \A x \in B : /\ "count" \in DOMAIN x /\ x.count \in Nat
               /\ \A n \in Nat : [x EXCEPT !.count = n] \in B

\* Buffer x with another count.
With(x, n) == [x EXCEPT !.count = n]

\* The free buffers are those with a count of 0, each once.
Listed(l, B) ==
  /\ l \in [buf : Seq(B), free : Seq(Nat)]
  /\ IsInjective(l.free)
  /\ ToSet(l.free) = {b \in DOMAIN l.buf : l.buf[b].count = 0}

LEMMA WithCount ==
  ASSUME NEW B, Counting(B), NEW x \in B, NEW n \in Nat
  PROVE  With(x, n) \in B /\ With(x, n).count = n
BY DEF Counting, With

\* What Listed says, in pieces.
LEMMA ListedMeans ==
  ASSUME NEW B, Counting(B), NEW l, Listed(l, B)
  PROVE  /\ l.buf \in Seq(B) /\ l.free \in Seq(Nat)
         /\ DOMAIN l.buf = 1 .. Len(l.buf) /\ Len(l.buf) \in Nat
         /\ DOMAIN l.free = 1 .. Len(l.free) /\ Len(l.free) \in Nat
         /\ \A c \in DOMAIN l.buf : l.buf[c] \in B /\ l.buf[c].count \in Nat
         /\ \A i, j \in DOMAIN l.free : l.free[i] = l.free[j] => i = j
         /\ \A i \in DOMAIN l.free : l.free[i] \in DOMAIN l.buf /\ l.buf[l.free[i]].count = 0
         /\ \A b \in DOMAIN l.buf : l.buf[b].count = 0 => \E i \in DOMAIN l.free : l.free[i] = b
         /\ l = [buf |-> l.buf, free |-> l.free]
<1>1. /\ l.buf \in Seq(B) /\ l.free \in Seq(Nat) /\ l = [buf |-> l.buf, free |-> l.free]
  BY DEF Listed
<1>2. /\ DOMAIN l.buf = 1 .. Len(l.buf) /\ Len(l.buf) \in Nat
      /\ DOMAIN l.free = 1 .. Len(l.free) /\ Len(l.free) \in Nat
      /\ \A c \in DOMAIN l.buf : l.buf[c] \in B
  BY <1>1
<1>3. \A c \in DOMAIN l.buf : l.buf[c].count \in Nat BY <1>2 DEF Counting
<1>4. \A i, j \in DOMAIN l.free : l.free[i] = l.free[j] => i = j BY DEF Listed, IsInjective
<1>5. \A i \in DOMAIN l.free : l.free[i] \in DOMAIN l.buf /\ l.buf[l.free[i]].count = 0
  BY DEF Listed, ToSet
<1>6. \A b \in DOMAIN l.buf : l.buf[b].count = 0 => \E i \in DOMAIN l.free : l.free[i] = b
  <2> TAKE b \in DOMAIN l.buf
  <2> HAVE l.buf[b].count = 0
  <2>1. b \in ToSet(l.free) BY DEF Listed
  <2> QED BY <2>1 DEF ToSet
<1> QED BY <1>1, <1>2, <1>3, <1>4, <1>5, <1>6

\* The converse.
LEMMA ToBeListed ==
  ASSUME NEW B, NEW r, NEW n \in Seq(B), NEW f \in Seq(Nat), r = [buf |-> n, free |-> f],
         \A i, j \in DOMAIN f : f[i] = f[j] => i = j,
         \A i \in DOMAIN f : f[i] \in DOMAIN n /\ n[f[i]].count = 0,
         \A b \in DOMAIN n : n[b].count = 0 => \E i \in DOMAIN f : f[i] = b
  PROVE  Listed(r, B)
<1>1. IsInjective(f) BY DEF IsInjective
<1>2. ToSet(f) = {b \in DOMAIN n : n[b].count = 0} BY DEF ToSet
<1> QED BY <1>1, <1>2 DEF Listed

\* A sequence with other elements.
LEMMA SameLength ==
  ASSUME NEW B, NEW C, NEW s \in Seq(C), NEW r \in [DOMAIN s -> B]
  PROVE  r \in Seq(B) /\ Len(r) = Len(s)
<1>1. DOMAIN s = 1 .. Len(s) /\ Len(s) \in Nat OBVIOUS
<1>2. r \in [1 .. Len(s) -> B] BY <1>1
<1> QED BY <1>1, <1>2

LEMMA Released ==
  ASSUME NEW B, Counting(B), NEW l, Listed(l, B), NEW b \in DOMAIN l.buf, l.buf[b].count >= 1
  PROVE  LET r == Release(l, b)
         IN /\ Listed(r, B) /\ Len(r.buf) = Len(l.buf) /\ DOMAIN r.buf = DOMAIN l.buf
            /\ r.buf[b] = With(l.buf[b], l.buf[b].count - 1)
            /\ \A c \in DOMAIN l.buf : c # b => r.buf[c] = l.buf[c]
            /\ Len(r.free) = Len(l.free) + (IF l.buf[b].count = 1 THEN 1 ELSE 0)
<1> DEFINE r == Release(l, b)
           n == r.buf
           f == r.free
<1>1. /\ l.buf \in Seq(B) /\ l.free \in Seq(Nat) /\ l = [buf |-> l.buf, free |-> l.free]
      /\ DOMAIN l.buf = 1 .. Len(l.buf) /\ Len(l.buf) \in Nat
      /\ DOMAIN l.free = 1 .. Len(l.free) /\ Len(l.free) \in Nat
  BY ListedMeans
<1>a. \A c \in DOMAIN l.buf : l.buf[c] \in B /\ l.buf[c].count \in Nat BY ListedMeans
<1>b. \A i, j \in DOMAIN l.free : l.free[i] = l.free[j] => i = j BY ListedMeans
<1>c. \A i \in DOMAIN l.free : l.free[i] \in DOMAIN l.buf /\ l.buf[l.free[i]].count = 0
  BY ListedMeans
<1>d. \A c \in DOMAIN l.buf : l.buf[c].count = 0 => \E i \in DOMAIN l.free : l.free[i] = c
  BY ListedMeans
<1> DEFINE m == l.buf[b].count - 1
<1>2. /\ m \in Nat /\ b \in Nat /\ l.buf[b].count \in Nat /\ l.buf[b] \in B
      /\ m = l.buf[b].count - 1
  BY <1>1, <1>a
<1> HIDE DEF m
<1>3. With(l.buf[b], m) \in B /\ With(l.buf[b], m).count = m
  <2> DEFINE x == l.buf[b]
  <2>1. x \in B /\ m \in Nat BY <1>2
  <2> HIDE DEF x
  <2>2. With(x, m) \in B /\ With(x, m).count = m BY <2>1, WithCount
  <2> QED BY <2>2 DEF x
<1>4. /\ DOMAIN n = DOMAIN l.buf /\ n = [c \in DOMAIN n |-> n[c]]
      /\ n[b] = With(l.buf[b], m)
      /\ \A c \in DOMAIN l.buf : c # b => n[c] = l.buf[c]
      /\ f = IF l.buf[b].count = 1 THEN Append(l.free, b) ELSE l.free
      /\ r = [buf |-> n, free |-> f]
  BY DEF Release, With, m
<1> HIDE DEF r, n, f
<1>5. \A i \in DOMAIN l.free : l.free[i] # b /\ l.free[i] \in DOMAIN n /\ n[l.free[i]].count = 0
  BY <1>c, <1>4
<1>6. n \in [DOMAIN l.buf -> B] BY <1>a, <1>3, <1>4
<1>7. n \in Seq(B) /\ Len(n) = Len(l.buf) BY <1>1, <1>6, SameLength
<1>8. \A c \in DOMAIN n : c # b /\ n[c].count = 0 => \E i \in DOMAIN l.free : l.free[i] = c
  BY <1>d, <1>4
<1>9. CASE l.buf[b].count = 1
  <2>1. /\ f \in Seq(Nat) /\ Len(f) = Len(l.free) + 1 /\ DOMAIN f = 1 .. (Len(l.free) + 1)
        /\ \A i \in 1 .. Len(l.free) : f[i] = l.free[i]
        /\ f[Len(l.free) + 1] = b
    BY <1>1, <1>2, <1>4, <1>9, AppendProperties
  <2>2. \A i \in DOMAIN f : i \in DOMAIN l.free \/ i = Len(l.free) + 1 BY <1>1, <2>1
  <2>3. \A i, j \in DOMAIN f : f[i] = f[j] => i = j
    BY <1>1, <1>b, <1>5, <2>1, <2>2
  <2>4. n[b].count = 0 /\ b \in DOMAIN n BY <1>2, <1>3, <1>4, <1>9
  <2>5. \A i \in DOMAIN f : f[i] \in DOMAIN n /\ n[f[i]].count = 0
    <3> SUFFICES ASSUME NEW i \in DOMAIN f PROVE f[i] \in DOMAIN n /\ n[f[i]].count = 0
      OBVIOUS
    <3>1. CASE i \in DOMAIN l.free BY <1>1, <1>5, <2>1, <3>1
    <3>2. CASE i = Len(l.free) + 1 BY <2>1, <2>4, <3>2
    <3> QED BY <2>2, <3>1, <3>2
  <2>6. \A c \in DOMAIN n : n[c].count = 0 => \E i \in DOMAIN f : f[i] = c
    <3>1. Len(l.free) + 1 \in DOMAIN f /\ \A i \in DOMAIN l.free : i \in DOMAIN f /\ f[i] = l.free[i]
      BY <1>1, <2>1
    <3> QED BY <1>8, <2>1, <3>1
  <2>7. Listed(r, B)
    <3>1. f \in Seq(Nat) /\ r = [buf |-> n, free |-> f] BY <1>4, <2>1
    <3> QED BY <1>7, <2>3, <2>5, <2>6, <3>1, ToBeListed
  <2> QED BY <1>4, <1>7, <1>9, <2>1, <2>7 DEF r, n, f, m
<1>10. CASE l.buf[b].count # 1
  <2>1. f = l.free BY <1>4, <1>10
  <2>2. n[b].count # 0 BY <1>2, <1>3, <1>4, <1>10
  <2>3. \A c \in DOMAIN n : n[c].count = 0 => \E i \in DOMAIN f : f[i] = c
    BY <1>8, <2>1, <2>2
  <2>4. Listed(r, B)
    <3>1. f \in Seq(Nat) /\ r = [buf |-> n, free |-> f] BY <1>1, <1>4, <2>1
    <3>2. \A i, j \in DOMAIN f : f[i] = f[j] => i = j BY <1>b, <2>1
    <3>3. \A i \in DOMAIN f : f[i] \in DOMAIN n /\ n[f[i]].count = 0 BY <1>5, <2>1
    <3> QED BY <1>7, <2>3, <3>1, <3>2, <3>3, ToBeListed
  <2> QED BY <1>1, <1>4, <1>7, <1>10, <2>1, <2>4 DEF r, n, f, m
<1> QED BY <1>9, <1>10

LEMMA HeldOnce ==
  ASSUME NEW B, Counting(B), NEW l, Listed(l, B), NEW b \in DOMAIN l.buf, l.buf[b].count >= 1
  PROVE  LET r == Hold(l, b)
         IN /\ Listed(r, B) /\ Len(r.buf) = Len(l.buf) /\ DOMAIN r.buf = DOMAIN l.buf
            /\ r.buf[b] = With(l.buf[b], l.buf[b].count + 1)
            /\ \A c \in DOMAIN l.buf : c # b => r.buf[c] = l.buf[c]
            /\ r.free = l.free
<1> DEFINE r == Hold(l, b)
           m == l.buf[b].count + 1
           n == [l.buf EXCEPT ![b].count = @ + 1]
<1>1. /\ l.buf \in Seq(B) /\ l.free \in Seq(Nat) /\ l = [buf |-> l.buf, free |-> l.free]
      /\ DOMAIN l.buf = 1 .. Len(l.buf) /\ Len(l.buf) \in Nat
      /\ DOMAIN l.free = 1 .. Len(l.free) /\ Len(l.free) \in Nat
  BY ListedMeans
<1>a. \A c \in DOMAIN l.buf : l.buf[c] \in B /\ l.buf[c].count \in Nat BY ListedMeans
<1>b. \A i, j \in DOMAIN l.free : l.free[i] = l.free[j] => i = j BY ListedMeans
<1>c. \A i \in DOMAIN l.free : l.free[i] \in DOMAIN l.buf /\ l.buf[l.free[i]].count = 0
  BY ListedMeans
<1>d. \A c \in DOMAIN l.buf : l.buf[c].count = 0 => \E i \in DOMAIN l.free : l.free[i] = c
  BY ListedMeans
<1>2. m \in Nat /\ m # 0 /\ l.buf[b] \in B BY <1>a
<1>e. r = [l EXCEPT !.buf[b].count = @ + 1] BY DEF Hold
<1>4. r = [buf |-> n, free |-> l.free] BY <1>1, <1>e
<1> HIDE DEF r
<1>5. /\ DOMAIN n = DOMAIN l.buf /\ n = [c \in DOMAIN n |-> n[c]]
      /\ n[b] = With(l.buf[b], m)
      /\ \A c \in DOMAIN l.buf : c # b => n[c] = l.buf[c]
  BY DEF With
<1> HIDE DEF n, m
<1>3. With(l.buf[b], m) \in B /\ With(l.buf[b], m).count = m BY <1>2, WithCount
<1>6. n \in [DOMAIN l.buf -> B] BY <1>a, <1>3, <1>5
<1>7. n \in Seq(B) /\ Len(n) = Len(l.buf) BY <1>1, <1>6, SameLength
<1>8. \A i \in DOMAIN l.free : l.free[i] \in DOMAIN n /\ n[l.free[i]].count = 0
  BY <1>c, <1>5
<1>9. \A c \in DOMAIN n : n[c].count = 0 => \E i \in DOMAIN l.free : l.free[i] = c
  BY <1>d, <1>2, <1>3, <1>5
<1>10. Listed(r, B)
  <2>1. l.free \in Seq(Nat) BY <1>1
  <2> QED BY <1>b, <1>4, <1>7, <1>8, <1>9, <2>1, ToBeListed
<1>11. r.buf = n /\ r.free = l.free BY <1>4
<1> QED BY <1>5, <1>7, <1>10, <1>11 DEF m, r

LEMMA FilledAnew ==
  ASSUME NEW B, Counting(B), NEW l, Listed(l, B), NEW new \in B, new.count >= 1
  PROVE  LET r == Pop(l, new)
             f == Popped(l)
         IN /\ Listed(r, B) /\ f \in DOMAIN r.buf /\ r.buf[f] = new /\ f \in Nat \ {0}
            /\ f \in DOMAIN l.buf => l.buf[f].count = 0
            /\ \A c \in DOMAIN l.buf :
                 c \in DOMAIN r.buf /\ (c # f => r.buf[c] = l.buf[c])
            /\ \A c \in DOMAIN r.buf : c = f \/ c \in DOMAIN l.buf
            /\ Len(r.free) = IF Len(l.free) = 0 THEN 0 ELSE Len(l.free) - 1
            /\ Len(r.buf) = IF Len(l.free) = 0 THEN Len(l.buf) + 1 ELSE Len(l.buf)
<1> DEFINE r == Pop(l, new)
           f == Popped(l)
<1>1. /\ l.buf \in Seq(B) /\ l.free \in Seq(Nat) /\ l = [buf |-> l.buf, free |-> l.free]
      /\ DOMAIN l.buf = 1 .. Len(l.buf) /\ Len(l.buf) \in Nat
      /\ DOMAIN l.free = 1 .. Len(l.free) /\ Len(l.free) \in Nat
  BY ListedMeans
<1>a. \A c \in DOMAIN l.buf : l.buf[c] \in B /\ l.buf[c].count \in Nat BY ListedMeans
<1>b. \A i, j \in DOMAIN l.free : l.free[i] = l.free[j] => i = j BY ListedMeans
<1>c. \A i \in DOMAIN l.free : l.free[i] \in DOMAIN l.buf /\ l.buf[l.free[i]].count = 0
  BY ListedMeans
<1>d. \A c \in DOMAIN l.buf : l.buf[c].count = 0 => \E i \in DOMAIN l.free : l.free[i] = c
  BY ListedMeans
<1>2. CASE l.free = <<>>
  <2> DEFINE n == Append(l.buf, new)
  <2>1. r = [buf |-> n, free |-> <<>>] /\ Len(l.free) = 0 BY <1>1, <1>2 DEF Pop
  <2>2. /\ n \in Seq(B) /\ DOMAIN n = 1 .. (Len(l.buf) + 1) /\ Len(n) = Len(l.buf) + 1
        /\ \A i \in 1 .. Len(l.buf) : n[i] = l.buf[i]
        /\ n[Len(l.buf) + 1] = new
    BY <1>1, AppendProperties
  <2> HIDE DEF n
  <2>3. f = Len(l.buf) + 1 BY <1>2 DEF Popped
  <2>4. \A c \in DOMAIN l.buf : l.buf[c].count # 0 BY <1>d, <1>2
  <2>5. \A c \in DOMAIN n : c = Len(l.buf) + 1 \/ c \in DOMAIN l.buf BY <1>1, <2>2
  <2>6. \A c \in DOMAIN n : n[c].count # 0 BY <1>1, <2>2, <2>4, <2>5
  <2> DEFINE e == << >>
  <2>7. e \in Seq(Nat) /\ DOMAIN e = {} /\ Len(e) = 0 OBVIOUS
  <2> HIDE DEF e
  <2>8. r = [buf |-> n, free |-> e] BY <2>1 DEF e
  <2> HIDE DEF r
  <2>9. r.buf = n /\ r.free = e /\ Listed(r, B) BY <2>2, <2>6, <2>7, <2>8, ToBeListed
  <2> HIDE DEF f
  <2>10. f \notin DOMAIN l.buf /\ f \in DOMAIN n /\ f \in Nat \ {0} BY <1>1, <2>2, <2>3
  <2> QED BY <1>1, <2>1, <2>2, <2>3, <2>5, <2>7, <2>9, <2>10 DEF f, r
<1>3. CASE l.free # <<>>
  <2> DEFINE n == [l.buf EXCEPT ![f] = new]
             g == Front(l.free)
             k == Len(l.free)
  <2>1. f = l.free[k] BY <1>3 DEF Popped, Last
  <2>2. k > 0 /\ k \in DOMAIN l.free BY <1>1, <1>3, EmptySeq
  <2>3. f \in DOMAIN l.buf /\ l.buf[f].count = 0 /\ f \in Nat \ {0}
    BY <1>1, <1>c, <2>1, <2>2
  <2>4. r = [buf |-> n, free |-> g] BY <1>3 DEF Pop, Popped
  <2>5. /\ g \in Seq(Nat) /\ Len(g) = k - 1 /\ DOMAIN g = 1 .. (k - 1)
        /\ \A i \in 1 .. (k - 1) : g[i] = l.free[i]
    <3>1. g = SubSeq(l.free, 1, k - 1) BY DEF Front
    <3>2. k \in Nat \ {0} /\ \A i \in 1 .. (k - 1) : l.free[i] \in Nat BY <1>1, <2>2
    <3> HIDE DEF g, k
    <3> QED BY <3>1, <3>2, SubSeqProperties
  <2> HIDE DEF f, g
  <2>6. /\ n \in Seq(B) /\ DOMAIN n = DOMAIN l.buf /\ n[f] = new /\ Len(n) = Len(l.buf)
        /\ \A c \in DOMAIN l.buf : c # f => n[c] = l.buf[c]
    BY <1>1, <2>3
  <2> HIDE DEF n
  <2>7. \A i \in DOMAIN g : i \in DOMAIN l.free /\ i # k /\ g[i] = l.free[i]
    BY <1>1, <2>5
  <2>8. \A i \in DOMAIN g : g[i] # f BY <1>b, <2>1, <2>2, <2>7
  <2>9. \A i, j \in DOMAIN g : g[i] = g[j] => i = j BY <1>b, <2>7
  <2>10. \A i \in DOMAIN g : g[i] \in DOMAIN n /\ n[g[i]].count = 0
    BY <1>c, <2>6, <2>7, <2>8
  <2>11. \A c \in DOMAIN n : n[c].count = 0 => \E i \in DOMAIN g : g[i] = c
    <3> SUFFICES ASSUME NEW c \in DOMAIN n, n[c].count = 0
                 PROVE  \E i \in DOMAIN g : g[i] = c
      OBVIOUS
    <3>1. c # f /\ l.buf[c].count = 0 BY <2>6
    <3>2. PICK i \in DOMAIN l.free : l.free[i] = c BY <1>d, <2>6, <3>1
    <3>3. i # k BY <2>1, <3>1, <3>2
    <3>4. i \in DOMAIN g BY <1>1, <2>5, <3>3
    <3> QED BY <2>7, <3>2, <3>4
  <2> HIDE DEF r
  <2>12. Listed(r, B)
    <3>1. g \in Seq(Nat) /\ n \in Seq(B) BY <2>5, <2>6
    <3>2. IsInjective(g) BY <2>9 DEF IsInjective
    <3>3. ToSet(g) = {c \in DOMAIN n : n[c].count = 0} BY <2>10, <2>11 DEF ToSet
    <3> QED BY <2>4, <3>1, <3>2, <3>3 DEF Listed
  <2>13. r.buf = n /\ r.free = g /\ Len(l.free) # 0 BY <2>2, <2>4
  <2> QED BY <2>3, <2>5, <2>6, <2>12, <2>13 DEF f, r
<1> QED BY <1>2, <1>3

\* A sequence without repetitions has each of its elements once.
LEMMA TimesOnce ==
  ASSUME NEW bs \in Seq(Nat), IsInjective(bs), NEW n \in 0 .. Len(bs), NEW b
  PROVE  Times(bs, n, b) = IF \E i \in 1 .. n : bs[i] = b THEN 1 ELSE 0
<1> DEFINE S == {i \in 1 .. n : bs[i] = b}
<1>1. Times(bs, n, b) = Cardinality(S) BY DEF Times
<1>2. \A i, j \in S : i = j BY DEF IsInjective
<1>3. CASE S = {} BY <1>1, <1>3, FS_EmptySet
<1>4. CASE S # {}
  <2>1. PICK i \in S : TRUE BY <1>4
  <2>2. S = {i} BY <1>2, <2>1
  <2>3. Cardinality(S) = 1 BY <2>2, FS_Singleton
  <2> QED BY <1>1, <2>1, <2>3
<1> QED BY <1>3, <1>4

LEMMA TimesInAll ==
  ASSUME NEW bs \in Seq(Nat), IsInjective(bs), NEW b
  PROVE  Times(bs, Len(bs), b) = IF b \in ToSet(bs) THEN 1 ELSE 0
<1>1. Len(bs) \in 0 .. Len(bs) /\ DOMAIN bs = 1 .. Len(bs) OBVIOUS
<1>2. b \in ToSet(bs) <=> \E i \in 1 .. Len(bs) : bs[i] = b BY <1>1 DEF ToSet
<1> QED BY <1>1, <1>2, TimesOnce

\* The elements of a set of numbers in their order.
LEMMA InOrder ==
  ASSUME NEW n \in Nat, NEW S \in SUBSET (1 .. n)
  PROVE  /\ Cardinality(S) \in Nat
         /\ \A k \in 1 .. Cardinality(S) : Nth(S, k) \in S
         /\ \A k, m \in 1 .. Cardinality(S) : Nth(S, k) = Nth(S, m) => k = m
         /\ \A i \in S : \E k \in 1 .. Cardinality(S) : Nth(S, k) = i
<1> DEFINE Below(i) == {j \in S : j <= i}
           c == Cardinality(S)
           rank == [i \in S |-> Cardinality(Below(i))]
<1>1. IsFiniteSet(S) /\ c \in Nat
  <2>1. IsFiniteSet(1 .. n) BY FS_Interval
  <2> QED BY <2>1, FS_Subset, FS_CardinalityType
<1>2. \A i \in S : Below(i) \subseteq S /\ IsFiniteSet(Below(i)) /\ Cardinality(Below(i)) \in Nat
                   /\ Cardinality(Below(i)) <= c
  <2> TAKE i \in S
  <2>1. Below(i) \in SUBSET S OBVIOUS
  <2> HIDE DEF Below
  <2> QED BY <1>1, <2>1, FS_Subset, FS_CardinalityType
<1>3. ASSUME NEW i \in S, NEW j \in S, i < j
      PROVE  Cardinality(Below(i)) < Cardinality(Below(j))
  <2>0. i \in Nat /\ j \in Nat /\ \A x \in S : x \in Nat OBVIOUS
  <2>a. \A x \in S : x <= i => x <= j BY <1>3, <2>0
  <2>b. j <= j /\ ~(j <= i) BY <1>3, <2>0
  <2>1. Below(i) \subseteq Below(j) /\ j \in Below(j) /\ j \notin Below(i) BY <2>a, <2>b
  <2>2. IsFiniteSet(Below(j)) /\ Cardinality(Below(j)) \in Nat /\ Cardinality(Below(i)) \in Nat
    BY <1>2
  <2> HIDE DEF Below
  <2>3. Cardinality(Below(i)) <= Cardinality(Below(j))
        /\ (Cardinality(Below(i)) = Cardinality(Below(j)) => Below(i) = Below(j))
    BY <2>1, <2>2, FS_Subset
  <2> QED BY <2>1, <2>2, <2>3
<1>4. \A i \in S : Cardinality(Below(i)) \in 1 .. c
  <2> TAKE i \in S
  <2>1. i \in Below(i) OBVIOUS
  <2>2. IsFiniteSet(Below(i)) /\ Cardinality(Below(i)) \in Nat /\ Cardinality(Below(i)) <= c
    BY <1>2
  <2> HIDE DEF Below, c
  <2>3. Cardinality(Below(i)) # 0 BY <2>1, <2>2, FS_EmptySet
  <2> QED BY <1>1, <2>2, <2>3
<1>5. \A i, j \in S : Cardinality(Below(i)) = Cardinality(Below(j)) => i = j
  <2> TAKE i, j \in S
  <2> HAVE Cardinality(Below(i)) = Cardinality(Below(j))
  <2>1. i \in Nat /\ j \in Nat OBVIOUS
  <2>2. Cardinality(Below(i)) \in Nat BY <1>2
  <2> HIDE DEF Below
  <2>3. ~(i < j) /\ ~(j < i) BY <1>3, <2>2
  <2> QED BY <2>1, <2>3
<1> HIDE DEF Below
<1>6. rank \in Injection(S, 1 .. c)
  <2>1. rank \in [S -> 1 .. c] BY <1>4
  <2>2. IsInjective(rank) BY <1>5 DEF IsInjective
  <2> QED BY <2>1, <2>2 DEF Injection
<1>7. rank \in Surjection(S, 1 .. c)
  <2>1. IsFiniteSet(1 .. c) /\ Cardinality(1 .. c) = c BY <1>1, FS_Interval
  <2> HIDE DEF rank
  <2> QED BY <1>6, <2>1, FS_Injection
<1>8. \A k \in 1 .. c : \E i \in S : Cardinality(Below(i)) = k BY <1>7 DEF Surjection
<1>9. \A k \in 1 .. c : Nth(S, k) \in S /\ Cardinality(Below(Nth(S, k))) = k
  BY <1>8 DEF Nth, Below
<1>10. \A i \in S : Nth(S, Cardinality(Below(i))) = i BY <1>4, <1>5, <1>9
<1> QED BY <1>1, <1>4, <1>9, <1>10

\* Holding and releasing each buffer of a sequence without repetitions.
LEMMA HeldEach ==
  ASSUME NEW B, Counting(B), NEW l, Listed(l, B), NEW bs \in Seq(Nat), IsInjective(bs),
         \A b \in ToSet(bs) : b \in DOMAIN l.buf /\ l.buf[b].count >= 1
  PROVE  LET r == HoldAll(l, bs)
         IN /\ Listed(r, B) /\ Len(r.buf) = Len(l.buf) /\ DOMAIN r.buf = DOMAIN l.buf
            /\ \A c \in DOMAIN l.buf :
                 r.buf[c] = With(l.buf[c], l.buf[c].count + (IF c \in ToSet(bs) THEN 1 ELSE 0))
            /\ r.free = l.free
<1> DEFINE r == HoldAll(l, bs)
           m(c) == l.buf[c].count + (IF c \in ToSet(bs) THEN 1 ELSE 0)
           n == [c \in DOMAIN l.buf |-> With(l.buf[c], m(c))]
<1>1. /\ l.buf \in Seq(B) /\ l.free \in Seq(Nat) /\ l = [buf |-> l.buf, free |-> l.free]
  BY ListedMeans
<1>2. \A c \in DOMAIN l.buf : l.buf[c] \in B /\ l.buf[c].count \in Nat BY ListedMeans
<1>3. \A i, j \in DOMAIN l.free : l.free[i] = l.free[j] => i = j BY ListedMeans
<1>4. \A i \in DOMAIN l.free : l.free[i] \in DOMAIN l.buf /\ l.buf[l.free[i]].count = 0
  BY ListedMeans
<1>5. \A c \in DOMAIN l.buf : l.buf[c].count = 0 => \E i \in DOMAIN l.free : l.free[i] = c
  BY ListedMeans
<1>6. \A c : Times(bs, Len(bs), c) = IF c \in ToSet(bs) THEN 1 ELSE 0 BY TimesInAll
<1>7. r = [buf |-> n, free |-> l.free]
  <2>1. [c \in DOMAIN l.buf |-> [l.buf[c] EXCEPT !.count = @ + Times(bs, Len(bs), c)]] = n
    BY <1>6 DEF With
  <2>2. r = [l EXCEPT !.buf = n] BY <2>1 DEF HoldAll
  <2> HIDE DEF r, n
  <2> QED BY <1>1, <2>2
<1>8. \A c \in DOMAIN l.buf : m(c) \in Nat /\ (m(c) = 0 <=> l.buf[c].count = 0) BY <1>2
<1> HIDE DEF m
<1>9. \A c \in DOMAIN l.buf : With(l.buf[c], m(c)) \in B /\ With(l.buf[c], m(c)).count = m(c)
  <2> TAKE c \in DOMAIN l.buf
  <2>1. l.buf[c] \in B /\ m(c) \in Nat BY <1>2, <1>8
  <2> QED BY <2>1, WithCount
<1>10. /\ n \in [DOMAIN l.buf -> B] /\ DOMAIN n = DOMAIN l.buf
       /\ \A c \in DOMAIN l.buf : n[c] = With(l.buf[c], m(c)) /\ n[c].count = m(c)
  BY <1>9
<1> HIDE DEF n, r
<1>11. n \in Seq(B) /\ Len(n) = Len(l.buf) BY <1>1, <1>10, SameLength
<1>12. \A i \in DOMAIN l.free : l.free[i] \in DOMAIN n /\ n[l.free[i]].count = 0
  BY <1>4, <1>8, <1>10
<1>13. \A c \in DOMAIN n : n[c].count = 0 => \E i \in DOMAIN l.free : l.free[i] = c
  BY <1>5, <1>8, <1>10
<1>14. Listed(r, B)
  <2>1. l.free \in Seq(Nat) BY <1>1
  <2>2. IsInjective(l.free) BY <1>3 DEF IsInjective
  <2>3. ToSet(l.free) = {c \in DOMAIN n : n[c].count = 0} BY <1>12, <1>13 DEF ToSet
  <2> QED BY <1>7, <1>11, <2>1, <2>2, <2>3 DEF Listed
<1>15. r.buf = n /\ r.free = l.free BY <1>7
<1> QED BY <1>10, <1>11, <1>14, <1>15 DEF m, r

LEMMA ReleasedEach ==
  ASSUME NEW B, Counting(B), NEW l, Listed(l, B), NEW bs \in Seq(Nat), IsInjective(bs),
         \A b \in ToSet(bs) : b \in DOMAIN l.buf /\ l.buf[b].count >= 1
  PROVE  LET r == ReleaseAll(l, bs)
         IN /\ Listed(r, B) /\ Len(r.buf) = Len(l.buf) /\ DOMAIN r.buf = DOMAIN l.buf
            /\ \A c \in DOMAIN l.buf :
                 r.buf[c] = With(l.buf[c], l.buf[c].count - (IF c \in ToSet(bs) THEN 1 ELSE 0))
<1> DEFINE r == ReleaseAll(l, bs)
           m(c) == l.buf[c].count - (IF c \in ToSet(bs) THEN 1 ELSE 0)
           n == [c \in DOMAIN l.buf |-> With(l.buf[c], m(c))]
           zero == {i \in DOMAIN bs : l.buf[bs[i]].count = 1}
           k == Cardinality(zero)
           more == [j \in 1 .. k |-> bs[Nth(zero, j)]]
           f == l.free \o more
<1>1. /\ l.buf \in Seq(B) /\ l.free \in Seq(Nat) /\ l = [buf |-> l.buf, free |-> l.free]
      /\ DOMAIN l.free = 1 .. Len(l.free) /\ Len(l.free) \in Nat
  BY ListedMeans
<1>2. \A c \in DOMAIN l.buf : l.buf[c] \in B /\ l.buf[c].count \in Nat BY ListedMeans
<1>3. \A i, j \in DOMAIN l.free : l.free[i] = l.free[j] => i = j BY ListedMeans
<1>4. \A i \in DOMAIN l.free : l.free[i] \in DOMAIN l.buf /\ l.buf[l.free[i]].count = 0
  BY ListedMeans
<1>5. \A c \in DOMAIN l.buf : l.buf[c].count = 0 => \E i \in DOMAIN l.free : l.free[i] = c
  BY ListedMeans
<1>6. \A c : Times(bs, Len(bs), c) = IF c \in ToSet(bs) THEN 1 ELSE 0 BY TimesInAll
<1>7. /\ DOMAIN bs = 1 .. Len(bs) /\ Len(bs) \in Nat
      /\ \A i \in DOMAIN bs : bs[i] \in Nat /\ bs[i] \in ToSet(bs)
      /\ \A i, j \in DOMAIN bs : bs[i] = bs[j] => i = j
  BY DEF ToSet, IsInjective
<1>8. \A i \in DOMAIN bs : Times(bs, i, bs[i]) = 1
  <2> TAKE i \in DOMAIN bs
  <2>1. i \in 0 .. Len(bs) /\ \E j \in 1 .. i : bs[j] = bs[i] BY <1>7
  <2> QED BY <2>1, TimesOnce
<1>9. r = [buf |-> n, free |-> f]
  <2>1. [c \in DOMAIN l.buf |-> [l.buf[c] EXCEPT !.count = @ - Times(bs, Len(bs), c)]] = n
    BY <1>6 DEF With
  <2>2. {i \in DOMAIN bs : l.buf[bs[i]].count = Times(bs, i, bs[i])} = zero BY <1>8
  <2> HIDE DEF n, zero
  <2> QED BY <2>1, <2>2 DEF ReleaseAll
<1>10. \A c \in DOMAIN l.buf : /\ m(c) \in Nat
                               /\ m(c) = 0 <=> \/ l.buf[c].count = 0
                                               \/ c \in ToSet(bs) /\ l.buf[c].count = 1
  <2> SUFFICES ASSUME NEW c \in DOMAIN l.buf
               PROVE  /\ m(c) \in Nat
                      /\ m(c) = 0 <=> \/ l.buf[c].count = 0
                                      \/ c \in ToSet(bs) /\ l.buf[c].count = 1
    OBVIOUS
  <2>1. l.buf[c].count \in Nat BY <1>2
  <2>2. c \in ToSet(bs) => l.buf[c].count >= 1 OBVIOUS
  <2> QED BY <2>1, <2>2
<1>11. /\ k \in Nat
       /\ \A j \in 1 .. k : Nth(zero, j) \in zero
       /\ \A j, i \in 1 .. k : Nth(zero, j) = Nth(zero, i) => j = i
       /\ \A i \in zero : \E j \in 1 .. k : Nth(zero, j) = i
  <2>1. zero \in SUBSET (1 .. Len(bs)) BY <1>7
  <2> HIDE DEF zero
  <2> QED BY <1>7, <2>1, InOrder
<1>12. /\ \A i \in zero : i \in DOMAIN bs /\ bs[i] \in DOMAIN l.buf /\ l.buf[bs[i]].count = 1
       /\ \A c \in ToSet(bs) : l.buf[c].count = 1 => \E i \in zero : bs[i] = c
  BY <1>7 DEF ToSet
<1> HIDE DEF m, zero, k
<1>13. \A c \in DOMAIN l.buf : With(l.buf[c], m(c)) \in B /\ With(l.buf[c], m(c)).count = m(c)
  <2> TAKE c \in DOMAIN l.buf
  <2>1. l.buf[c] \in B /\ m(c) \in Nat BY <1>2, <1>10
  <2> QED BY <2>1, WithCount
<1>14. /\ n \in [DOMAIN l.buf -> B] /\ DOMAIN n = DOMAIN l.buf
       /\ \A c \in DOMAIN l.buf : n[c] = With(l.buf[c], m(c)) /\ n[c].count = m(c)
  BY <1>13
<1> HIDE DEF n, r
<1>15. n \in Seq(B) /\ Len(n) = Len(l.buf) BY <1>1, <1>14, SameLength
<1>16. /\ more \in Seq(Nat) /\ Len(more) = k
       /\ \A j \in 1 .. k : more[j] = bs[Nth(zero, j)]
  <2>1. \A j \in 1 .. k : bs[Nth(zero, j)] \in Nat BY <1>7, <1>11, <1>12
  <2> QED BY <1>11, <2>1
<1> HIDE DEF more
<1>17. /\ f \in Seq(Nat) /\ Len(f) = Len(l.free) + k /\ DOMAIN f = 1 .. (Len(l.free) + k)
       /\ \A i \in 1 .. (Len(l.free) + k) :
            f[i] = IF i <= Len(l.free) THEN l.free[i] ELSE more[i - Len(l.free)]
  <2>1. l.free \in Seq(Nat) /\ more \in Seq(Nat) /\ Len(more) = k BY <1>1, <1>16
  <2>2. /\ f \in Seq(Nat) /\ Len(f) = Len(l.free) + k
        /\ \A i \in 1 .. (Len(l.free) + k) :
             f[i] = IF i <= Len(l.free) THEN l.free[i] ELSE more[i - Len(l.free)]
    BY <2>1, ConcatProperties
  <2> HIDE DEF f
  <2>3. DOMAIN f = 1 .. Len(f) BY <2>2
  <2> QED BY <2>2, <2>3
<1> HIDE DEF f
<1>18. \A i \in DOMAIN f :
         \/ i \in DOMAIN l.free /\ f[i] = l.free[i]
         \/ i - Len(l.free) \in 1 .. k /\ f[i] = bs[Nth(zero, i - Len(l.free))]
  <2> TAKE i \in DOMAIN f
  <2> DEFINE h == Len(l.free)
  <2>1. h \in Nat /\ k \in Nat /\ DOMAIN l.free = 1 .. h BY <1>1, <1>11
  <2>2. i \in 1 .. (h + k) /\ f[i] = IF i <= h THEN l.free[i] ELSE more[i - h] BY <1>17
  <2>3. CASE i <= h
    <3>1. i \in DOMAIN l.free BY <2>1, <2>2, <2>3
    <3> QED BY <2>2, <2>3, <3>1
  <2>4. CASE ~(i <= h)
    <3>1. i - h \in 1 .. k BY <2>1, <2>2, <2>4
    <3>2. more[i - h] = bs[Nth(zero, i - h)] BY <1>16, <3>1
    <3> QED BY <2>2, <2>4, <3>1, <3>2
  <2> QED BY <2>3, <2>4
<1>19. \A j \in 1 .. k : /\ bs[Nth(zero, j)] \in DOMAIN l.buf
                         /\ l.buf[bs[Nth(zero, j)]].count = 1
                         /\ bs[Nth(zero, j)] \in ToSet(bs)
  BY <1>7, <1>11, <1>12
<1>20. \A i \in DOMAIN f : f[i] \in DOMAIN n /\ n[f[i]].count = 0
  <2> SUFFICES ASSUME NEW i \in DOMAIN f PROVE f[i] \in DOMAIN n /\ n[f[i]].count = 0
    OBVIOUS
  <2>1. f[i] \in DOMAIN l.buf /\ m(f[i]) = 0
    <3>1. CASE i \in DOMAIN l.free /\ f[i] = l.free[i] BY <1>4, <1>10, <3>1
    <3>2. CASE i - Len(l.free) \in 1 .. k /\ f[i] = bs[Nth(zero, i - Len(l.free))]
      BY <1>10, <1>19, <3>2
    <3> QED BY <1>18, <3>1, <3>2
  <2> QED BY <1>14, <2>1
<1>21. \A c \in DOMAIN n : n[c].count = 0 => \E i \in DOMAIN f : f[i] = c
  <2> SUFFICES ASSUME NEW c \in DOMAIN l.buf, m(c) = 0 PROVE \E i \in DOMAIN f : f[i] = c
    BY <1>14
  <2>1. CASE l.buf[c].count = 0
    <3>1. PICK i \in DOMAIN l.free : l.free[i] = c BY <1>5, <2>1
    <3>2. i \in DOMAIN f /\ f[i] = l.free[i] BY <1>1, <1>11, <1>17
    <3> QED BY <3>1, <3>2
  <2>2. CASE c \in ToSet(bs) /\ l.buf[c].count = 1
    <3>1. PICK i \in zero : bs[i] = c BY <1>12, <2>2
    <3>2. PICK j \in 1 .. k : Nth(zero, j) = i BY <1>11
    <3> DEFINE h == Len(l.free)
    <3>a. h \in Nat /\ k \in Nat BY <1>1, <1>11
    <3>b. h + j \in 1 .. (h + k) /\ ~(h + j <= h) /\ (h + j) - h = j BY <3>a
    <3>c. f[h + j] = IF h + j <= h THEN l.free[h + j] ELSE more[(h + j) - h] BY <1>17, <3>b
    <3>3. h + j \in DOMAIN f /\ f[h + j] = more[j] BY <1>17, <3>b, <3>c
    <3> QED BY <1>16, <3>1, <3>2, <3>3
  <2> QED BY <1>10, <2>1, <2>2
<1>22. \A i, j \in DOMAIN f : f[i] = f[j] => i = j
  <2> SUFFICES ASSUME NEW i \in DOMAIN f, NEW j \in DOMAIN f, f[i] = f[j] PROVE i = j
    OBVIOUS
  <2> DEFINE Old(x) == x \in DOMAIN l.free /\ f[x] = l.free[x]
             New(x) == x - Len(l.free) \in 1 .. k /\ f[x] = bs[Nth(zero, x - Len(l.free))]
  <2>1. (Old(i) \/ New(i)) /\ (Old(j) \/ New(j)) BY <1>18
  <2>2. CASE Old(i) /\ Old(j) BY <1>3, <2>2
  <2>3. CASE New(i) /\ New(j)
    <3> DEFINE a == Nth(zero, i - Len(l.free))
               b == Nth(zero, j - Len(l.free))
    <3>a. i - Len(l.free) \in 1 .. k /\ j - Len(l.free) \in 1 .. k BY <2>3
    <3>b. a \in zero /\ b \in zero BY <1>11, <3>a
    <3>c. a \in DOMAIN bs /\ b \in DOMAIN bs /\ bs[a] = bs[b] BY <1>12, <2>3, <3>b
    <3>d. \A x, y \in DOMAIN bs : bs[x] = bs[y] => x = y BY <1>7
    <3>1. Nth(zero, i - Len(l.free)) = Nth(zero, j - Len(l.free)) BY <3>c, <3>d
    <3>2. i - Len(l.free) = j - Len(l.free) BY <1>11, <3>a, <3>1
    <3> QED BY <1>1, <1>11, <1>17, <3>2
  <2>4. ASSUME NEW x, NEW y, Old(x), New(y), f[x] = f[y] PROVE FALSE
    <3>1. l.buf[f[x]].count = 0 BY <1>4, <2>4
    <3>2. l.buf[f[y]].count = 1 BY <1>19, <2>4
    <3> QED BY <2>4, <3>1, <3>2
  <2> HIDE DEF Old, New
  <2> QED BY <2>1, <2>2, <2>3, <2>4
<1>23. Listed(r, B)
  <2>1. f \in Seq(Nat) BY <1>17
  <2>2. IsInjective(f) BY <1>22 DEF IsInjective
  <2>3. ToSet(f) = {c \in DOMAIN n : n[c].count = 0} BY <1>20, <1>21 DEF ToSet
  <2> QED BY <1>9, <1>15, <2>1, <2>2, <2>3 DEF Listed
<1>24. r.buf = n BY <1>9
<1> QED BY <1>14, <1>15, <1>23, <1>24 DEF m, r

-----------------------------------------------------------------------------
(* The lists of source pictures.                                           *)

Buffer == [count : Nat, pic : Nat]
Sound(l) == Listed(l, Buffer)

LEMMA SourceBuffers ==
  /\ Counting(Buffer)
  /\ \A x \in Buffer, n \in Nat : With(x, n).pic = x.pic
<1>1. ASSUME NEW x \in Buffer, NEW n \in Nat
      PROVE  [x EXCEPT !.count = n] \in Buffer /\ With(x, n).pic = x.pic
  BY DEF Buffer, With
<1>2. \A x \in Buffer : "count" \in DOMAIN x /\ x.count \in Nat BY DEF Buffer
<1> QED BY <1>1, <1>2 DEF Counting

\* A source picture with one holder less.
LEMMA SourceReleased ==
  ASSUME NEW l, Sound(l), NEW b \in DOMAIN l.buf, l.buf[b].count >= 1
  PROVE  LET r == Release(l, b)
         IN /\ Sound(r) /\ DOMAIN r.buf = DOMAIN l.buf
            /\ \A c \in DOMAIN l.buf :
                 /\ r.buf[c].pic = l.buf[c].pic
                 /\ r.buf[c].count = IF c = b THEN l.buf[c].count - 1 ELSE l.buf[c].count
            /\ Len(r.free) = Len(l.free) + (IF l.buf[b].count = 1 THEN 1 ELSE 0)
<1> DEFINE r == Release(l, b)
<1>1. Counting(Buffer) /\ Listed(l, Buffer) BY SourceBuffers DEF Sound
<1>2. /\ Listed(r, Buffer) /\ Len(r.buf) = Len(l.buf) /\ DOMAIN r.buf = DOMAIN l.buf
      /\ r.buf[b] = With(l.buf[b], l.buf[b].count - 1)
      /\ \A c \in DOMAIN l.buf : c # b => r.buf[c] = l.buf[c]
      /\ Len(r.free) = Len(l.free) + (IF l.buf[b].count = 1 THEN 1 ELSE 0)
  BY <1>1, Released
<1> HIDE DEF r
<1>3. \A c \in DOMAIN l.buf : l.buf[c] \in Buffer /\ l.buf[c].count \in Nat
  BY <1>1, ListedMeans
<1> DEFINE m == l.buf[b].count - 1
<1>4. m \in Nat /\ l.buf[b] \in Buffer BY <1>3
<1> HIDE DEF m
<1>5. With(l.buf[b], m).count = m /\ With(l.buf[b], m).pic = l.buf[b].pic
  BY <1>1, <1>4, SourceBuffers, WithCount
<1> QED BY <1>2, <1>5 DEF m, r, Sound

-----------------------------------------------------------------------------
(* Steps that leave the pipe as it is.                                     *)

LEMMA SameSources ==
  ASSUME IInv, UNCHANGED <<phase, input, encBufs, lastNonb>>, closing => closing',
         \A t \in Arg : InPipe(t)' <=> InPipe(t),
         \A t \in Arg : InPipe(t) => ctx'[t].fenc = ctx[t].fenc
  PROVE  SourcesHeld' /\ PicturesInOrder' /\ UNCHANGED Inside
<1>1. Piped' = Piped BY DEF Piped
<1>2. Depth' = Depth BY <1>1, PipedFinite DEF Piped, Depth
<1>3. SourcesHeld' BY DEF IInv, SourcesHeld
<1>4. \A t \in Arg : Age(t)' = Age(t) BY DEF Age
<1>5. \A t \in Arg : InPipe(t) => Num(t)' = Num(t) BY DEF Num
<1>6. PicturesInOrder' BY <1>2, <1>4, <1>5 DEF IInv, PicturesInOrder
<1>7. UNCHANGED Inside BY <1>2 DEF Inside
<1> QED BY <1>3, <1>6, <1>7

\* What an action has to keep besides the invariant of the pool.
Frames == TypeOK /\ OneJobEach /\ InStep /\ SourcesHeld /\ PicturesInOrder

LEMMA PlacedAreContexts == ASSUME PoolInv PROVE Placed \subseteq Arg
<1>1. /\ run \in Seq(Arg) /\ done \in Seq(Arg) /\ \A w \in Busy : cur[w] \in Arg
  BY DEF PoolInv, PoolTypeOK, BusyHasJob, Busy
<1>2. ToSet(run) \subseteq Arg /\ ToSet(done) \subseteq Arg BY <1>1 DEF ToSet
<1> QED BY <1>1, <1>2 DEF Placed

\* A context whose job is somewhere in the pool is in the pipe.
LEMMA PlacedInPipe == ASSUME OneJobEach, NEW t \in Placed PROVE InPipe(t)
BY DEF OneJobEach, InPipe

LEMMA SameJobs ==
  ASSUME IInv, JobsApart', Placed' \subseteq Placed, UNCHANGED <<phase, call>>,
         \A t \in Arg : ctx'[t].active = ctx[t].active
  PROVE  OneJobEach'
<1>1. Placed \subseteq Arg BY PlacedAreContexts DEF IInv
<1>2. Oldest' = Oldest BY DEF Oldest
<1> QED BY <1>1, <1>2 DEF IInv, OneJobEach

\* A job codes, publishes or fails.
LEMMA JobKeeps ==
  ASSUME IInv, NEW w \in Worker, NEW t \in Arg,
         Await(w, t) \/ CodeRow(w, t) \/ Publish(w, t) \/ Fail(w, t)
  PROVE  Frames' /\ UNCHANGED <<Inside, input, sent, closing>>
<1>1. /\ wk[w] = "work" /\ cur[w] = t
      /\ UNCHANGED <<phase, encBufs, input, lastNonb, call, closing, sent>>
      /\ FinishWork(w) \/ UNCHANGED poolVars
  <2> DEFINE Here == (\E p \in {"await", "code", "publish"} : At(w, t, p)) /\ JobSteps
  <2>1. ASSUME Await(w, t) PROVE Here BY <2>1 DEF Await
  <2>2. ASSUME CodeRow(w, t) PROVE Here BY <2>2 DEF CodeRow
  <2>5. ASSUME Publish(w, t) PROVE Here BY <2>5 DEF Publish
  <2>6. ASSUME Fail(w, t) PROVE Here BY <2>6 DEF Fail
  <2>7. Here BY <2>1, <2>2, <2>5, <2>6
  <2>3. ASSUME Publish(w, t) PROVE FinishWork(w) \/ UNCHANGED poolVars
    BY <2>3 DEF Publish
  <2>8. ASSUME Await(w, t) PROVE UNCHANGED poolVars BY <2>8 DEF Await
  <2>10. ASSUME CodeRow(w, t) PROVE UNCHANGED poolVars BY <2>10 DEF CodeRow
  <2>9. ASSUME Fail(w, t) PROVE FinishWork(w) BY <2>9 DEF Fail
  <2>4. FinishWork(w) \/ UNCHANGED poolVars BY <2>3, <2>8, <2>9, <2>10
  <2> QED BY <2>4, <2>7 DEF At, JobSteps
<1>2. UNCHANGED <<caller, carg>> BY <1>1 DEF FinishWork, poolVars
<1>3. /\ DOMAIN ctx' = Arg
      /\ \A u \in Arg :
           /\ DOMAIN ctx'[u] = Field
           /\ ctx'[u].active = ctx[u].active /\ ctx'[u].fenc = ctx[u].fenc
           /\ ctx'[u].nal \in BOOLEAN /\ ctx'[u].failed \in BOOLEAN
           /\ ctx'[u].nal => ctx[u].nal \/ u = t
           /\ ctx[u].failed => ctx'[u].failed
  <2>1. /\ DOMAIN ctx = Arg
        /\ \A u \in Arg : /\ DOMAIN ctx[u] = Field
                          /\ ctx[u].nal \in BOOLEAN /\ ctx[u].failed \in BOOLEAN
    BY DEF IInv, TypeOK
  <2>2. CASE ctx' = [ctx EXCEPT ![t].at = "code"] BY <2>1, <2>2 DEF Field
  <2>3. CASE ctx' = [ctx EXCEPT ![t].at = "await"] BY <2>1, <2>3 DEF Field
  <2>4. CASE ctx' = [ctx EXCEPT ![t].failed = TRUE] BY <2>1, <2>4 DEF Field
  <2>5. CASE CodeRow(w, t)
    <3> DEFINE k == ctx[t].row + 1
               b == (k = Rows)
    <3>1. ctx' = [ctx EXCEPT ![t].at = "publish", ![t].row = k, ![t].nal = b]
      BY <2>5 DEF CodeRow
    <3>2. b \in BOOLEAN OBVIOUS
    <3> HIDE DEF k, b
    <3> QED BY <2>1, <3>1, <3>2 DEF Field
  <2>6. ASSUME Await(w, t) PROVE ctx' = [ctx EXCEPT ![t].at = "code"]
    BY <2>6 DEF Await
  <2>7. ASSUME Publish(w, t) PROVE ctx' = [ctx EXCEPT ![t].at = "await"]
    BY <2>7 DEF Publish
  <2>8. ASSUME Fail(w, t) PROVE ctx' = [ctx EXCEPT ![t].failed = TRUE]
    BY <2>8 DEF Fail
  <2> QED BY <2>2, <2>3, <2>4, <2>5, <2>6, <2>7, <2>8
<1>4. JobsApart' /\ Placed' \subseteq Placed
  <2>1. CASE FinishWork(w) BY <2>1, LoopApart DEF IInv, OneJobEach
  <2>2. CASE UNCHANGED poolVars
    <3>1. UNCHANGED <<run, done, cur, caller, carg>> /\ Busy' = Busy
      BY <2>2 DEF Busy, poolVars
    <3> QED BY <3>1, NothingMoves DEF IInv, OneJobEach, JobsApart
  <2> QED BY <1>1, <2>1, <2>2
<1>5. \A u \in Arg : InPipe(u)' <=> InPipe(u) BY <1>1, <1>3 DEF InPipe, Oldest
<1>6. SourcesHeld' /\ PicturesInOrder' /\ UNCHANGED Inside
  BY <1>1, <1>3, <1>5, SameSources
<1>7. OneJobEach' BY <1>1, <1>3, <1>4, SameJobs
<1>8. t \in Placed BY <1>1 DEF Placed, Busy
<1>9. InPipe(t) BY <1>8, PlacedInPipe DEF IInv
<1>10. phase \in Arg /\ Oldest \in Arg /\ Oldest' = Oldest
  BY <1>1, Ages DEF IInv, TypeOK, Oldest
<1>11. InStep'
  <2>1. \A u \in Arg : ctx'[u].nal => InPipe(u)' \/ ctx'[u].failed
    BY <1>3, <1>5, <1>9 DEF IInv, InStep
  <2> QED BY <1>1, <1>2, <1>3, <1>10, <2>1 DEF IInv, InStep
<1>12. TypeOK' BY <1>1, <1>3 DEF IInv, TypeOK
<1> QED BY <1>1, <1>6, <1>7, <1>11, <1>12 DEF Frames

\* A thread of the pool, or the caller waiting in it.
LEMMA PoolKeeps ==
  ASSUME IInv, UNCHANGED frameVars, JobsApart', Placed' \subseteq Placed, carg' = carg,
         \/ caller' = caller
         \/ caller \in {"look", "asleep"} /\ caller' \in {"look", "asleep", "return"}
         \/ caller = "join" /\ caller' = "freed"
  PROVE  Frames' /\ UNCHANGED <<Inside, input, sent, closing>>
<1>1. UNCHANGED <<phase, ctx, encBufs, input, lastNonb, call, closing, sent>>
  BY DEF frameVars
<1>2. \A u \in Arg : InPipe(u)' <=> InPipe(u) BY <1>1 DEF InPipe, Oldest
<1>3. SourcesHeld' /\ PicturesInOrder' /\ UNCHANGED Inside BY <1>1, <1>2, SameSources
<1>4. OneJobEach' BY <1>1, SameJobs
<1>5. InStep'
  <2>1. Oldest' = Oldest BY <1>1 DEF Oldest
  <2>2. call \in {"none", "run", "end", "wait"} BY DEF IInv, TypeOK
  <2> QED BY <1>1, <1>2, <2>1, <2>2 DEF IInv, InStep
<1>6. TypeOK' BY <1>1 DEF IInv, TypeOK
<1> QED BY <1>1, <1>3, <1>4, <1>5, <1>6 DEF Frames

LEMMA ThreadKeeps ==
  ASSUME IInv, NEW w \in Worker, PoolThread(w)
  PROVE  Frames' /\ UNCHANGED <<Inside, input, sent, closing>>
<1>1. Loop(w) /\ UNCHANGED frameVars BY DEF PoolThread
<1>2. JobsApart' /\ Placed' \subseteq Placed BY <1>1, LoopApart DEF IInv, OneJobEach
<1>3. carg' = carg /\ (caller' = caller \/ (caller = "asleep" /\ caller' = "look"))
  BY <1>1 DEF Loop, Top, Sleep, Take, NoJob, PushDone
<1> QED BY <1>1, <1>2, <1>3, PoolKeeps

LEMMA WaitingKeeps ==
  ASSUME IInv, Waiting
  PROVE  Frames' /\ UNCHANGED <<Inside, input, sent, closing>>
<1>1. UNCHANGED frameVars BY DEF Waiting
<1>2. CASE SleepDone
  <2>1. UNCHANGED <<run, done, cur, carg>> /\ caller = "look" /\ caller' = "asleep"
    BY <1>2 DEF SleepDone
  <2>2. Busy' = Busy BY <1>2 DEF SleepDone, Busy
  <2>3. JobsApart' /\ Placed' \subseteq Placed
    BY <2>1, <2>2, NothingMoves DEF IInv, OneJobEach
  <2> QED BY <1>1, <2>1, <2>3, PoolKeeps
<1>3. CASE FindDone
  <2>1. carg' = carg /\ caller = "look" /\ caller' = "return" BY <1>3 DEF FindDone
  <2>2. JobsApart' /\ Placed' \subseteq Placed
    BY <1>3, FindDoneApart DEF IInv, OneJobEach
  <2> QED BY <1>1, <2>1, <2>2, PoolKeeps
<1> QED BY <1>2, <1>3 DEF Waiting

LEMMA JoinPoolKeeps ==
  ASSUME IInv, JoinPool
  PROVE  Frames' /\ UNCHANGED <<Inside, input, sent, closing>>
<1>1. /\ UNCHANGED frameVars /\ UNCHANGED <<cur, carg, wk>>
      /\ run' = <<>> /\ done' = <<>> /\ caller = "join" /\ caller' = "freed"
      /\ \A w \in Worker : wk[w] = "gone"
  BY DEF JoinPool, Joined
<1>2. Busy' = {} BY <1>1 DEF Busy
<1>3. JobsApart' /\ Placed' = {}
  BY <1>1, <1>2 DEF JobsApart, Placed, ToSet, IsInjective
<1> QED BY <1>1, <1>3, PoolKeeps

\* The call hands its job over, and begins to wait for the oldest.
LEMMA QueueKeeps ==
  ASSUME IInv, Queue
  PROVE  Frames' /\ UNCHANGED <<Inside, input, sent, closing>>
<1>1. /\ PushRun /\ call = "run" /\ call' = "end" /\ caller' = "out"
      /\ UNCHANGED <<phase, encBufs, input, lastNonb, closing, sent>>
      /\ ctx' = [ctx EXCEPT ![phase].active = TRUE]
  BY DEF Queue, PushRun
<1>2. phase \in Arg /\ Oldest \in Arg /\ Oldest' = Oldest /\ carg = phase
  BY <1>1, Ages DEF IInv, TypeOK, InStep, Oldest
<1>3. /\ DOMAIN ctx' = Arg
      /\ \A u \in Arg :
           /\ DOMAIN ctx'[u] = Field
           /\ ctx'[u].active = (ctx[u].active \/ u = phase) /\ ctx'[u].fenc = ctx[u].fenc
           /\ ctx'[u].nal = ctx[u].nal /\ ctx'[u].failed = ctx[u].failed
  <2>1. DOMAIN ctx = Arg /\ \A u \in Arg : DOMAIN ctx[u] = Field /\ ctx[u].active \in BOOLEAN
    BY DEF IInv, TypeOK
  <2>2. /\ DOMAIN ctx' = Arg
        /\ \A u \in Arg :
             /\ DOMAIN ctx'[u] = Field
             /\ ctx'[u].active = IF u = phase THEN TRUE ELSE ctx[u].active
             /\ ctx'[u].fenc = ctx[u].fenc /\ ctx'[u].nal = ctx[u].nal
             /\ ctx'[u].failed = ctx[u].failed
    BY <1>1, <1>2, <2>1 DEF Field
  <2> QED BY <2>1, <2>2
<1>4. \A u \in Arg : InPipe(u)' <=> InPipe(u) BY <1>1, <1>2, <1>3 DEF InPipe
<1>5. SourcesHeld' /\ PicturesInOrder' /\ UNCHANGED Inside
  BY <1>1, <1>3, <1>4, SameSources
<1>6. OneJobEach'
  <2>1. JobsApart' /\ Placed' \subseteq Placed \cup {phase}
    BY <1>1, <1>2, PushRunApart DEF IInv, OneJobEach
  <2>2. Placed \subseteq Arg BY PlacedAreContexts DEF IInv
  <2>3. \A u \in Placed : ctx[u].active BY <1>1 DEF IInv, OneJobEach
  <2> QED BY <1>2, <1>3, <2>1, <2>2, <2>3 DEF OneJobEach
<1>7. InStep' BY <1>1, <1>2, <1>3, <1>4 DEF IInv, InStep
<1>8. TypeOK' BY <1>1, <1>3 DEF IInv, TypeOK
<1> QED BY <1>1, <1>5, <1>6, <1>7, <1>8 DEF Frames

LEMMA WaitOldestKeeps ==
  ASSUME IInv, WaitOldest
  PROVE  Frames' /\ UNCHANGED <<Inside, input, sent, closing>>
<1>1. /\ BeginWait(Oldest) /\ call = "end" /\ call' = "wait" /\ ctx[Oldest].active
      /\ UNCHANGED <<phase, encBufs, input, lastNonb, closing, sent>>
      /\ ctx' = [ctx EXCEPT ![Oldest].active = FALSE]
  BY DEF WaitOldest
<1>2. phase \in Arg /\ Oldest \in Arg /\ Oldest' = Oldest
  BY <1>1, Ages DEF IInv, TypeOK, Oldest
<1>3. /\ DOMAIN ctx' = Arg
      /\ \A u \in Arg :
           /\ DOMAIN ctx'[u] = Field
           /\ ctx'[u].active = IF u = Oldest THEN FALSE ELSE ctx[u].active
           /\ ctx'[u].fenc = ctx[u].fenc /\ ctx'[u].nal = ctx[u].nal
           /\ ctx'[u].failed = ctx[u].failed
  <2>1. DOMAIN ctx = Arg /\ \A u \in Arg : DOMAIN ctx[u] = Field
    BY DEF IInv, TypeOK
  <2> QED BY <1>1, <1>2, <2>1 DEF Field
<1>4. \A u \in Arg : InPipe(u)' <=> InPipe(u) BY <1>1, <1>2, <1>3 DEF InPipe
<1>5. SourcesHeld' /\ PicturesInOrder' /\ UNCHANGED Inside
  BY <1>1, <1>3, <1>4, SameSources
<1>6. UNCHANGED <<run, done, cur>> /\ Busy' = Busy /\ caller' = "look" /\ carg' = Oldest
  BY <1>1 DEF BeginWait, Busy
<1>7. OneJobEach'
  <2>1. JobsApart' /\ Placed' \subseteq Placed
    BY <1>6, NothingMoves DEF IInv, OneJobEach
  <2>2. Placed \subseteq Arg BY PlacedAreContexts DEF IInv
  <2>3. \A u \in Placed : ctx[u].active BY <1>1 DEF IInv, OneJobEach
  <2> QED BY <1>1, <1>2, <1>3, <2>1, <2>2, <2>3 DEF OneJobEach
<1>8. InStep'
  <2>1. \A u \in Arg : ctx'[u].nal => InPipe(u)' \/ ctx'[u].failed
    BY <1>3, <1>4 DEF IInv, InStep
  <2>2. ~ctx'[Oldest'].active BY <1>2, <1>3
  <2> QED BY <1>1, <1>2, <1>6, <2>1, <2>2 DEF InStep
<1>9. TypeOK'
  <2>1. \A u \in Arg : /\ ctx'[u].active \in BOOLEAN /\ ctx'[u].nal \in BOOLEAN
                       /\ ctx'[u].failed \in BOOLEAN
    BY <1>3 DEF IInv, TypeOK
  <2>2. /\ UNCHANGED <<phase, input, closing, encBufs, lastNonb>> /\ call' = "wait"
    BY <1>1
  <2> QED BY <1>3, <2>1, <2>2 DEF IInv, TypeOK
<1> QED BY <1>1, <1>5, <1>7, <1>8, <1>9 DEF Frames

LEMMA BeginCloseKeeps ==
  ASSUME IInv, BeginClose
  PROVE  Frames' /\ UNCHANGED <<Inside, input, sent>>
<1>1. /\ UNCHANGED <<phase, ctx, encBufs, input, lastNonb, call, sent>>
      /\ UNCHANGED <<run, done, cur, wk, caller, carg>> /\ closing' = TRUE
  BY DEF BeginClose, poolVars
<1>2. \A u \in Arg : InPipe(u)' <=> InPipe(u) BY <1>1 DEF InPipe, Oldest
<1>3. SourcesHeld' /\ PicturesInOrder' /\ UNCHANGED Inside BY <1>1, <1>2, SameSources
<1>4. Busy' = Busy BY <1>1 DEF Busy
<1>5. JobsApart' /\ Placed' \subseteq Placed
  BY <1>1, <1>4, NothingMoves DEF IInv, OneJobEach, JobsApart
<1>6. OneJobEach' BY <1>1, <1>5, SameJobs
<1>7. InStep'
  <2>1. Oldest' = Oldest BY <1>1 DEF Oldest
  <2> QED BY <1>1, <1>2, <2>1 DEF IInv, InStep
<1>8. TypeOK' BY <1>1 DEF IInv, TypeOK
<1> QED BY <1>1, <1>3, <1>6, <1>7, <1>8 DEF Frames
-----------------------------------------------------------------------------
(* Steps that change the pipe.                                             *)

LEMMA Sources == ASSUME IInv PROVE Sound(encBufs)
BY DEF IInv, TypeOK, SourcesHeld, Sound, Listed, Buffer

LEMMA Counts ==
  ASSUME IInv, NEW b \in DOMAIN encBufs.buf
  PROVE  encBufs.buf[b].count \in Nat /\ encBufs.buf[b].pic \in Nat
<1>1. encBufs.buf \in Seq(Buffer) BY Sources DEF Sound, Listed
<1>2. encBufs.buf[b] \in Buffer BY <1>1
<1> QED BY <1>2 DEF Buffer

\* The pipe is as long as there are contexts in it.
LEMMA InsideLength ==
  ASSUME input \in Nat
  PROVE  /\ Inside \in Seq(Int) /\ Len(Inside) = Depth /\ DOMAIN Inside = 1 .. Depth
         /\ \A i \in 1 .. Depth : Inside[i] = input - Depth + i - 1
<1>1. Depth \in Nat BY PipedFinite, Contexts
<1>2. \A i \in 1 .. Depth : input - Depth + i - 1 \in Int BY <1>1
<1>3. Inside \in [1 .. Depth -> Int] BY <1>2 DEF Inside
<1>4. Inside \in Seq(Int) BY <1>1, <1>3
<1> QED BY <1>1, <1>3, <1>4 DEF Inside

LEMMA InsideShorter ==
  ASSUME input \in Nat, Depth > 0, input' = input, Depth' = Depth - 1
  PROVE  Inside # <<>> /\ Head(Inside) = input - Depth /\ Inside' = Tail(Inside)
<1>1. Depth \in Nat \ {0} BY PipedFinite, Contexts
<1>2. /\ Inside \in Seq(Int) /\ Len(Inside) = Depth
      /\ \A i \in 1 .. Depth : Inside[i] = input - Depth + i - 1
  BY InsideLength
<1> DEFINE d == Depth
           s == Inside
<1>3. Inside' = [i \in 1 .. (d - 1) |-> input - (d - 1) + i - 1] BY DEF Inside
<1> HIDE DEF d, s
<1>4. /\ d \in Nat \ {0} /\ s \in Seq(Int) /\ Len(s) = d
      /\ \A i \in 1 .. d : s[i] = input - d + i - 1
  BY <1>1, <1>2 DEF d, s
<1>5. s # <<>> /\ Head(s) = input - d BY <1>4, HeadTailProperties, EmptySeq
<1> DEFINE r == Tail(s)
<1>6. /\ r \in Seq(Int) /\ DOMAIN r = 1 .. (d - 1)
      /\ \A i \in 1 .. (d - 1) : r[i] = s[i + 1]
  BY <1>4, <1>5, HeadTailProperties
<1> HIDE DEF r
<1>7. \A i \in 1 .. (d - 1) : r[i] = input - (d - 1) + i - 1 BY <1>4, <1>6
<1>9. r = [i \in 1 .. (d - 1) |-> r[i]] BY <1>6
<1>8. Inside' = r BY <1>3, <1>7, <1>9
<1> QED BY <1>5, <1>8 DEF d, s, r

LEMMA InsideLonger ==
  ASSUME input \in Nat, input' = input + 1, Depth' = Depth + 1
  PROVE  Inside' = Append(Inside, input)
<1>1. Depth \in Nat BY PipedFinite, Contexts
<1>2. /\ Inside \in Seq(Int) /\ Len(Inside) = Depth
      /\ \A i \in 1 .. Depth : Inside[i] = input - Depth + i - 1
  BY InsideLength
<1> DEFINE d == Depth
           s == Inside
           a == Append(s, input)
<1>3. Inside' = [i \in 1 .. (d + 1) |-> (input + 1) - (d + 1) + i - 1] BY DEF Inside
<1> HIDE DEF d, s
<1>4. /\ d \in Nat /\ s \in Seq(Int) /\ Len(s) = d
      /\ \A i \in 1 .. d : s[i] = input - d + i - 1
  BY <1>1, <1>2 DEF d, s
<1>5. /\ a \in Seq(Int) /\ DOMAIN a = 1 .. (d + 1) /\ a[d + 1] = input
      /\ \A i \in 1 .. d : a[i] = s[i]
  BY <1>4, AppendProperties
<1> HIDE DEF a
<1>6. \A i \in 1 .. (d + 1) : a[i] = (input + 1) - (d + 1) + i - 1
  <2> SUFFICES ASSUME NEW i \in 1 .. (d + 1)
               PROVE  a[i] = (input + 1) - (d + 1) + i - 1
    OBVIOUS
  <2>1. CASE i = d + 1 BY <1>4, <1>5, <2>1
  <2>2. CASE i # d + 1
    <3>1. i \in 1 .. d BY <1>4, <2>2
    <3> QED BY <1>4, <1>5, <3>1
  <2> QED BY <2>1, <2>2
<1>7. a = [i \in 1 .. (d + 1) |-> a[i]] BY <1>5
<1>8. Inside' = a BY <1>3, <1>6, <1>7
<1> QED BY <1>8 DEF a, s

\* How a context that leaves or joins the pipe changes its length.
LEMMA OneFewer ==
  ASSUME NEW a \in Arg, InPipe(a), \A t \in Arg : InPipe(t)' <=> InPipe(t) /\ t # a
  PROVE  Depth' = Depth - 1
<1>1. Piped' = Piped \ {a} /\ a \in Piped BY DEF Piped
<1>2. Cardinality(Piped \ {a}) = Cardinality(Piped) - 1
  BY <1>1, PipedFinite, FS_RemoveElement
<1>3. Depth' = Cardinality(Piped') BY DEF Depth, Piped
<1> QED BY <1>1, <1>2, <1>3, PipedFinite

LEMMA OneMore ==
  ASSUME NEW a \in Arg, ~InPipe(a), \A t \in Arg : InPipe(t)' <=> InPipe(t) \/ t = a
  PROVE  Depth' = Depth + 1 /\ Depth < Threads
<1>1. Piped' = Piped \cup {a} /\ a \notin Piped BY DEF Piped
<1>2. Cardinality(Piped \cup {a}) = Cardinality(Piped) + 1
  BY <1>1, PipedFinite, FS_AddElement
<1>3. Depth' = Cardinality(Piped') BY DEF Depth, Piped
<1>4. Piped \cup {a} \subseteq Arg BY DEF Piped
<1>5. Cardinality(Piped \cup {a}) <= Threads BY <1>4, Contexts, FS_Subset
<1> QED BY <1>1, <1>2, <1>3, <1>5, PipedFinite, Contexts

LEMMA NobodyInside ==
  ASSUME \A t \in Arg : ~InPipe(t)
  PROVE  Depth = 0
<1>1. Piped = {} BY DEF Piped
<1> QED BY <1>1, PipedFinite, FS_EmptySet

\* x264_encoder_frame_end for a context nobody uses gives out nothing.
LEMMA NothingEnds ==
  ASSUME IInv, FrameEnd, call = "end"
  PROVE  Frames' /\ UNCHANGED <<Inside, input, sent, closing>>
<1>1. phase \in Arg /\ Oldest \in Arg BY Ages DEF IInv, TypeOK
<1>2. ~ctx[Oldest].active /\ UNCHANGED poolVars /\ caller = "out"
  BY DEF FrameEnd, IInv, InStep
<1>3. ctx[Oldest].failed \/ ~ctx[Oldest].nal BY <1>1, <1>2 DEF IInv, InStep, InPipe
<1>4. /\ UNCHANGED <<sent, encBufs, ctx, phase, input, lastNonb, closing>>
      /\ call' = "none" /\ Oldest' = Oldest
  BY <1>3 DEF FrameEnd, Oldest
<1>5. UNCHANGED <<run, done, cur, wk, caller, carg>> BY <1>2 DEF poolVars
<1>6. \A u \in Arg : InPipe(u)' <=> InPipe(u) BY <1>4 DEF InPipe
<1>7. SourcesHeld' /\ PicturesInOrder' /\ UNCHANGED Inside BY <1>4, <1>6, SameSources
<1>8. Busy' = Busy BY <1>5 DEF Busy
<1>9. OneJobEach'
  <2>1. JobsApart' /\ Placed' \subseteq Placed
    BY <1>5, <1>8, NothingMoves DEF IInv, OneJobEach, JobsApart
  <2>2. Placed \subseteq Arg BY PlacedAreContexts DEF IInv
  <2>3. \A u \in Placed : ctx[u].active BY DEF IInv, OneJobEach
  <2> QED BY <1>4, <2>1, <2>2, <2>3 DEF OneJobEach
<1>10. InStep' BY <1>2, <1>4, <1>5, <1>6 DEF IInv, InStep
<1>11. TypeOK' BY <1>4 DEF IInv, TypeOK
<1> QED BY <1>4, <1>7, <1>9, <1>10, <1>11 DEF Frames
\* The oldest context leaves the pipe, and whether its picture comes out or is
\* lost, it was the first of those inside.
LEMMA OldestLeaves ==
  ASSUME IInv, FrameEnd, call = "wait"
  PROVE  Frames' /\ Pipe!TakeOut
<1> DEFINE c == ctx[Oldest]
           out == ~(c.failed \/ ~c.nal)
<1>1. phase \in Arg /\ Oldest \in Arg /\ input \in Nat BY Ages DEF IInv, TypeOK
<1>2. /\ PushUninit /\ carg = Oldest /\ ~c.active
      /\ UNCHANGED <<phase, input, lastNonb, closing>> /\ call' = "none"
      /\ Oldest' = Oldest
  BY DEF FrameEnd, IInv, InStep, Oldest
<1>3. InPipe(Oldest) BY DEF InPipe
<1>4. /\ ~out => UNCHANGED <<sent, encBufs, ctx>>
      /\ out => /\ sent'.source = Num(Oldest)
                /\ encBufs' = Release(encBufs, c.fenc)
                /\ ctx' = [ctx EXCEPT ![Oldest].nal = FALSE]
  BY DEF FrameEnd, Output, Num
<1>5. /\ DOMAIN ctx' = Arg
      /\ \A u \in Arg :
           /\ DOMAIN ctx'[u] = Field
           /\ ctx'[u].active = ctx[u].active /\ ctx'[u].fenc = ctx[u].fenc
           /\ ctx'[u].failed = ctx[u].failed /\ ctx'[u].nal \in BOOLEAN
           /\ ctx'[u].nal => ctx[u].nal /\ (u = Oldest => ctx[u].failed)
  <2>1. DOMAIN ctx = Arg /\ \A u \in Arg : DOMAIN ctx[u] = Field /\ ctx[u].nal \in BOOLEAN
    BY DEF IInv, TypeOK
  <2>2. CASE out
    <3>1. ctx' = [ctx EXCEPT ![Oldest].nal = FALSE] BY <1>4, <2>2
    <3> HIDE DEF c, out
    <3> QED BY <1>1, <2>1, <3>1 DEF Field
  <2>3. CASE ~out
    <3>1. ctx' = ctx BY <1>4, <2>3
    <3> QED BY <2>1, <2>3, <3>1
  <2> QED BY <2>2, <2>3
<1>6. \A u \in Arg : InPipe(u)' <=> InPipe(u) /\ u # Oldest
  BY <1>1, <1>2, <1>5 DEF InPipe
<1>7. c.fenc \in DOMAIN encBufs.buf /\ encBufs.buf[c.fenc].count >= 1
  <2>1. /\ c.fenc \in DOMAIN encBufs.buf
        /\ encBufs.buf[c.fenc].count >= IF c.fenc = lastNonb THEN 2 ELSE 1
    BY <1>1, <1>3 DEF IInv, SourcesHeld
  <2>2. encBufs.buf[c.fenc].count \in Nat BY <2>1, Counts
  <2> QED BY <2>1, <2>2
<1>8. /\ Sound(encBufs)' /\ DOMAIN encBufs'.buf = DOMAIN encBufs.buf
      /\ \A b \in DOMAIN encBufs.buf :
           /\ encBufs'.buf[b].pic = encBufs.buf[b].pic
           /\ encBufs'.buf[b].count =
                IF b = c.fenc /\ out THEN encBufs.buf[b].count - 1
                ELSE encBufs.buf[b].count
  <2>1. Sound(encBufs) BY Sources
  <2> DEFINE r == Release(encBufs, c.fenc)
  <2>2. /\ Sound(r) /\ DOMAIN r.buf = DOMAIN encBufs.buf
        /\ \A b \in DOMAIN encBufs.buf :
             /\ r.buf[b].pic = encBufs.buf[b].pic
             /\ r.buf[b].count = IF b = c.fenc THEN encBufs.buf[b].count - 1
                                 ELSE encBufs.buf[b].count
    BY <1>7, <2>1, SourceReleased
  <2> HIDE DEF r
  <2>3. CASE out
    <3>1. encBufs' = r BY <1>4, <2>3 DEF r
    <3> HIDE DEF c, out
    <3> QED BY <2>2, <2>3, <3>1 DEF Sound, Listed
  <2>4. CASE ~out
    <3>1. encBufs' = encBufs BY <1>4, <2>4
    <3> HIDE DEF c, out
    <3> QED BY <2>1, <2>4, <3>1 DEF Sound, Listed
  <2> QED BY <2>3, <2>4
<1>9. /\ Num(Oldest) = input - Depth /\ Depth > 0
      /\ \A t \in Arg : InPipe(t) /\ t # Oldest => Num(t) > Num(Oldest)
  BY <1>3, OldestFirst
<1>10. Depth' = Depth - 1 BY <1>1, <1>3, <1>6, OneFewer
<1>11. Depth \in 0 .. Threads /\ Threads \in Nat BY PipedFinite, Contexts
<1>12. \A u \in Arg : InPipe(u) =>
         /\ ctx[u].fenc \in DOMAIN encBufs.buf
         /\ encBufs.buf[ctx[u].fenc].count >= IF ctx[u].fenc = lastNonb THEN 2 ELSE 1
         /\ encBufs.buf[ctx[u].fenc].count \in Nat
         /\ Num(u)' = Num(u)
  <2>1. \A u \in Arg : InPipe(u) =>
         /\ ctx[u].fenc \in DOMAIN encBufs.buf
         /\ encBufs.buf[ctx[u].fenc].count >= IF ctx[u].fenc = lastNonb THEN 2 ELSE 1
    BY DEF IInv, SourcesHeld
  <2>2. \A b \in DOMAIN encBufs.buf : encBufs.buf[b].count \in Nat BY Counts
  <2> QED BY <1>5, <1>8, <2>1, <2>2 DEF Num
<1>13. \A u \in Arg : InPipe(u) /\ u # Oldest => Num(u) \in Int /\ ctx[u].fenc # c.fenc
  <2>1. \A u \in Arg : InPipe(u) => Num(u) \in (input - Depth) .. (input - 1)
    BY DEF IInv, PicturesInOrder
  <2>2. \A u \in Arg : InPipe(u) => Num(u) \in Int BY <1>1, <1>11, <2>1
  <2>3. \A u \in Arg : InPipe(u) /\ u # Oldest => Num(u) # Num(Oldest)
    BY <1>1, <1>3, <1>9, <2>2
  <2> QED BY <2>2, <2>3 DEF Num
<1> HIDE DEF c, out
<1>14. SourcesHeld'
  <2>1. \A u \in Arg : InPipe(u)' =>
          /\ ctx'[u].fenc \in DOMAIN encBufs'.buf
          /\ encBufs'.buf[ctx'[u].fenc].count >= IF ctx'[u].fenc = lastNonb' THEN 2 ELSE 1
    BY <1>2, <1>5, <1>6, <1>8, <1>12, <1>13
  <2>2. lastNonb' # 0 => lastNonb' \in DOMAIN encBufs'.buf /\ encBufs'.buf[lastNonb'].count >= 1
    <3> SUFFICES ASSUME lastNonb # 0
                 PROVE  lastNonb \in DOMAIN encBufs'.buf /\ encBufs'.buf[lastNonb].count >= 1
      BY <1>2
    <3>1. lastNonb \in DOMAIN encBufs.buf /\ encBufs.buf[lastNonb].count >= 1
      BY DEF IInv, SourcesHeld
    <3>3. encBufs.buf[lastNonb].count \in Nat BY <3>1, Counts
    <3>2. c.fenc = lastNonb => encBufs.buf[lastNonb].count >= 2
      BY <1>1, <1>3, <1>12 DEF c
    <3> QED BY <1>8, <3>1, <3>2, <3>3
  <2> QED BY <1>8, <2>1, <2>2 DEF SourcesHeld, Sound, Listed
<1>15. PicturesInOrder'
  <2>1. \A t \in Arg : Age(t)' = Age(t) BY <1>2 DEF Age
  <2>2. input' = input /\ closing' = closing BY <1>2
  <2>3. \A t \in Arg : InPipe(t)' => Num(t)' \in (input' - Depth') .. (input' - 1)
    <3> SUFFICES ASSUME NEW t \in Arg, InPipe(t), t # Oldest
                 PROVE  Num(t) \in (input - (Depth - 1)) .. (input - 1)
      BY <1>6, <1>10, <1>12, <2>2
    <3>1. Num(t) \in (input - Depth) .. (input - 1) BY DEF IInv, PicturesInOrder
    <3> QED BY <1>1, <1>9, <1>11, <3>1
  <2>4. \A n \in (input' - Depth') .. (input' - 1) : \E t \in Arg : InPipe(t)' /\ Num(t)' = n
    <3> SUFFICES ASSUME NEW n \in (input - (Depth - 1)) .. (input - 1)
                 PROVE  \E t \in Arg : InPipe(t) /\ t # Oldest /\ Num(t) = n
      BY <1>6, <1>10, <1>12, <2>2
    <3>1. n \in (input - Depth) .. (input - 1) /\ n # input - Depth BY <1>1, <1>11
    <3>2. PICK t \in Arg : InPipe(t) /\ Num(t) = n BY <3>1 DEF IInv, PicturesInOrder
    <3>3. t # Oldest BY <1>9, <3>1, <3>2
    <3> QED BY <3>2, <3>3
  <2>5. \A t, u \in Arg : InPipe(t)' /\ InPipe(u)' /\ Age(u)' < Age(t)' => Num(t)' < Num(u)'
    BY <1>6, <1>12, <2>1 DEF IInv, PicturesInOrder
  <2>6. ~closing' => \A t, u \in Arg : InPipe(t)' /\ Age(u)' < Age(t)' => InPipe(u)'
    <3> SUFFICES ASSUME ~closing, NEW t \in Arg, NEW u \in Arg, InPipe(t), Age(u) < Age(t)
                 PROVE  InPipe(u) /\ u # Oldest
      BY <1>6, <2>1, <2>2
    <3>1. InPipe(u) BY DEF IInv, PicturesInOrder
    <3>2. Age(t) <= Age(Oldest) /\ Age(t) \in Nat /\ Age(u) \in Nat
      <4>1. t = Oldest \/ Age(t) < Age(Oldest) BY <1>1, Ages
      <4>2. \A v \in Arg : Age(v) \in 0 .. (Threads - 1) BY <1>1, Ages
      <4>3. Age(Oldest) \in 0 .. (Threads - 1) BY <1>1, <4>2
      <4> QED BY <4>1, <4>2, <4>3, <1>11
    <3> QED BY <3>1, <3>2
  <2> QED BY <2>3, <2>4, <2>5, <2>6 DEF PicturesInOrder
<1>16. OneJobEach'
  <2>1. UNCHANGED <<run, done, cur>> /\ Busy' = Busy /\ caller' = "out"
    BY <1>2 DEF PushUninit, Busy
  <2>2. JobsApart' /\ Placed' \subseteq Placed
    BY <2>1, NothingMoves DEF IInv, OneJobEach
  <2>3. Oldest \notin Placed BY <1>2 DEF IInv, OneJobEach, JobsApart, PushUninit
  <2>4. Placed \subseteq Arg BY PlacedAreContexts DEF IInv
  <2>5. \A u \in Placed : ctx[u].active BY <2>3 DEF IInv, OneJobEach
  <2> QED BY <1>5, <2>2, <2>4, <2>5 DEF OneJobEach
<1>17. InStep'
  <2>1. \A u \in Arg : ctx'[u].nal => InPipe(u)' \/ ctx'[u].failed
    BY <1>5, <1>6 DEF IInv, InStep
  <2>2. call' = "none" /\ caller' = "out" BY <1>2 DEF PushUninit
  <2>3. ~ctx'[Oldest'].active BY <1>1, <1>2, <1>5 DEF c
  <2> QED BY <2>1, <2>2, <2>3 DEF InStep
<1>18. TypeOK'
  <2>1. encBufs' \in [buf : Seq([count : Nat, pic : Nat]), free : Seq(Nat)]
    BY <1>8 DEF Sound, Listed, Buffer
  <2>2. \A u \in Arg : /\ DOMAIN ctx'[u] = Field
                       /\ ctx'[u].active \in BOOLEAN /\ ctx'[u].nal \in BOOLEAN
                       /\ ctx'[u].failed \in BOOLEAN
    BY <1>5 DEF IInv, TypeOK
  <2> QED BY <1>2, <1>5, <2>1, <2>2 DEF IInv, TypeOK
<1>19. Pipe!TakeOut
  <2>1. Inside # <<>> /\ Head(Inside) = input - Depth /\ Inside' = Tail(Inside)
    BY <1>1, <1>2, <1>9, <1>10, InsideShorter
  <2>2. ~closing => Len(Inside) = Threads BY <1>1, <1>3, OpenIsFull, InsideLength
  <2>3. sent'.source + 1 \in {Head(Inside) + 1, sent.source + 1}
    BY <1>4, <1>9, <2>1
  <2> QED BY <1>2, <2>1, <2>2, <2>3 DEF Pipe!TakeOut
<1> QED BY <1>14, <1>15, <1>16, <1>17, <1>18, <1>19 DEF Frames
\* A call without a picture moves the phase on to a context that is not used.
LEMMA FlushKeeps ==
  ASSUME IInv, Flush
  PROVE  Frames' /\ UNCHANGED <<Inside, input, sent, closing>>
<1>1. phase \in Arg /\ Oldest \in Arg BY Ages DEF IInv, TypeOK
<1>2. /\ call = "none" /\ call' = "end" /\ closing
      /\ UNCHANGED <<encBufs, input, lastNonb, closing, sent>>
      /\ UNCHANGED <<run, done, cur, wk, caller, carg>>
      /\ ctx' = [ctx EXCEPT ![Oldest] = Synced(Oldest, phase)]
      /\ phase' = Next1(phase)
  BY DEF Flush, Oldest, poolVars
<1>3. /\ phase' \in Arg /\ phase' = Oldest
      /\ \A t \in Arg : (Age(t))' = IF t = Oldest THEN 0 ELSE Age(t) + 1
  BY <1>1, <1>2, Older
<1>4. /\ DOMAIN ctx' = Arg
      /\ \A u \in Arg :
           /\ DOMAIN ctx'[u] = Field
           /\ ctx'[u].active = ctx[u].active /\ ctx'[u].nal = ctx[u].nal
           /\ ctx'[u].failed = ctx[u].failed
           /\ u # Oldest => ctx'[u].fenc = ctx[u].fenc
  <2>1. DOMAIN ctx = Arg /\ \A u \in Arg : DOMAIN ctx[u] = Field
    BY DEF IInv, TypeOK
  <2>2. /\ DOMAIN Synced(Oldest, phase) = Field
        /\ Synced(Oldest, phase).active = ctx[Oldest].active
        /\ Synced(Oldest, phase).nal = ctx[Oldest].nal
        /\ Synced(Oldest, phase).failed = ctx[Oldest].failed
    BY <1>1, <2>1 DEF Synced, Field
  <2> QED BY <1>1, <1>2, <2>1, <2>2
<1>5. ~ctx[Oldest].active /\ ~InPipe(Oldest) BY <1>1, <1>2 DEF IInv, InStep, InPipe
<1>6. \A u \in Arg : InPipe(u)' <=> InPipe(u) BY <1>2, <1>4 DEF InPipe
<1>7. Depth' = Depth
  <2>1. Piped' = Piped BY <1>6 DEF Piped
  <2> QED BY <2>1 DEF Piped, Depth
<1>8. \A u \in Arg : InPipe(u) => u # Oldest /\ ctx'[u].fenc = ctx[u].fenc /\ Num(u)' = Num(u)
  BY <1>2, <1>4, <1>5 DEF Num
<1>9. SourcesHeld' BY <1>2, <1>6, <1>8 DEF IInv, SourcesHeld
<1>10. PicturesInOrder'
  <2>1. \A t, u \in Arg : InPipe(t) /\ InPipe(u) /\ Age(u)' < Age(t)' => Age(u) < Age(t)
    <3>1. \A t \in Arg : Age(t) \in Nat BY <1>1, Ages, Contexts
    <3> QED BY <1>3, <1>8, <3>1
  <2>2. \A t, u \in Arg : InPipe(t) /\ InPipe(u) /\ Age(u) < Age(t) => Num(t) < Num(u)
    BY DEF IInv, PicturesInOrder
  <2>3. \A t, u \in Arg : InPipe(t)' /\ InPipe(u)' /\ Age(u)' < Age(t)' => Num(t)' < Num(u)'
    BY <1>6, <1>8, <2>1, <2>2
  <2>4. /\ \A t \in Arg : InPipe(t) => Num(t) \in (input - Depth) .. (input - 1)
        /\ \A n \in (input - Depth) .. (input - 1) : \E t \in Arg : InPipe(t) /\ Num(t) = n
    BY DEF IInv, PicturesInOrder
  <2> QED BY <1>2, <1>6, <1>7, <1>8, <2>3, <2>4 DEF PicturesInOrder
<1>11. UNCHANGED Inside BY <1>2, <1>7 DEF Inside
<1>12. OneJobEach'
  <2>1. Busy' = Busy BY <1>2 DEF Busy
  <2>2. JobsApart' /\ Placed' \subseteq Placed
    BY <1>2, <2>1, NothingMoves DEF IInv, OneJobEach, JobsApart
  <2>3. Placed \subseteq Arg BY PlacedAreContexts DEF IInv
  <2>4. \A u \in Placed : ctx[u].active BY <1>2 DEF IInv, OneJobEach
  <2> QED BY <1>4, <2>2, <2>3, <2>4 DEF OneJobEach
<1>13. InStep'
  <2>1. \A u \in Arg : ctx'[u].nal => InPipe(u)' \/ ctx'[u].failed
    BY <1>4, <1>6 DEF IInv, InStep
  <2>2. caller = "out"
    <3> DEFINE S == {t \in Arg : ctx[t].active}
    <3>1. Cardinality(S) > 0 BY DEF Flush, DelayedFrames
    <3>2. S # {} BY <3>1, FS_EmptySet
    <3> QED BY <1>2, <3>2 DEF IInv, InStep
  <2> QED BY <1>2, <2>1, <2>2 DEF InStep
<1>14. TypeOK' BY <1>2, <1>3, <1>4 DEF IInv, TypeOK
<1> QED BY <1>2, <1>9, <1>10, <1>11, <1>12, <1>13, <1>14 DEF Frames

\* Closing the encoder gives up the last source picture.
LEMMA DeletePoolKeeps ==
  ASSUME IInv, DeletePool
  PROVE  Frames' /\ UNCHANGED <<Inside, input, sent, closing>>
<1>1. phase \in Arg /\ Oldest \in Arg BY Ages DEF IInv, TypeOK
<1>2. /\ call = "none" /\ call' = "none" /\ closing /\ lastNonb' = 0
      /\ UNCHANGED <<phase, ctx, input, closing, sent, run, done, cur, carg>>
      /\ caller' = "join" /\ Oldest' = Oldest
      /\ encBufs' = IF lastNonb = 0 THEN encBufs ELSE Release(encBufs, lastNonb)
  BY DEF DeletePool, Delete, Oldest
<1>3. \A t \in Arg : ~ctx[t].active
  <2> DEFINE S == {t \in Arg : ctx[t].active}
  <2>1. S \subseteq Arg /\ Cardinality(S) = 0 BY DEF DeletePool, DelayedFrames
  <2>2. S = {} BY <2>1, Contexts, FS_Subset, FS_EmptySet
  <2> QED BY <2>2
<1>4. \A t \in Arg : ~InPipe(t) /\ ~InPipe(t)' BY <1>2, <1>3 DEF InPipe
<1>5. Depth = 0 /\ Depth' = 0
  <2>1. Piped' = {} BY <1>4 DEF Piped
  <2>2. Depth' = Cardinality(Piped') BY DEF Depth, Piped
  <2> QED BY <1>4, <2>1, <2>2, NobodyInside, FS_EmptySet
<1>6. UNCHANGED Inside BY <1>2, <1>5 DEF Inside
<1>7. Sound(encBufs)'
  <2>1. Sound(encBufs) BY Sources
  <2>2. CASE lastNonb = 0 BY <1>2, <2>1, <2>2 DEF Sound, Listed
  <2>3. CASE lastNonb # 0
    <3>1. lastNonb \in DOMAIN encBufs.buf /\ encBufs.buf[lastNonb].count >= 1
      BY <2>3 DEF IInv, SourcesHeld
    <3> DEFINE r == Release(encBufs, lastNonb)
    <3>2. Sound(r) BY <2>1, <3>1, SourceReleased
    <3>3. encBufs' = r BY <1>2, <2>3
    <3> HIDE DEF r
    <3> QED BY <3>2, <3>3 DEF Sound, Listed
  <2> QED BY <2>2, <2>3
<1>8. SourcesHeld' BY <1>2, <1>4, <1>7 DEF SourcesHeld, Sound, Listed
<1>9. PicturesInOrder'
  <2>1. input \in Nat BY DEF IInv, TypeOK
  <2>2. (input' - Depth') .. (input' - 1) = {} BY <1>2, <1>5, <2>1
  <2> QED BY <1>2, <1>4, <2>2 DEF PicturesInOrder
<1>10. OneJobEach'
  <2>1. Busy' = Busy BY DEF DeletePool, Delete, Busy, Awakened, IInv, PoolInv, PoolTypeOK
  <2>2. JobsApart' /\ Placed' \subseteq Placed
    BY <1>2, <2>1, NothingMoves DEF IInv, OneJobEach
  <2> QED BY <1>2, <1>3, <2>2 DEF IInv, OneJobEach
<1>11. InStep'
  <2>1. \A u \in Arg : ctx'[u].nal => ctx'[u].failed BY <1>2, <1>4 DEF IInv, InStep
  <2> QED BY <1>1, <1>2, <1>3, <2>1 DEF InStep
<1>12. TypeOK'
  <2>1. encBufs' \in [buf : Seq([count : Nat, pic : Nat]), free : Seq(Nat)]
    BY <1>7 DEF Sound, Listed, Buffer
  <2> QED BY <1>2, <2>1 DEF IInv, TypeOK
<1> QED BY <1>2, <1>6, <1>8, <1>9, <1>10, <1>11, <1>12 DEF Frames

\* An encoder that has just been opened.
Opened ==
  /\ phase = 0 /\ ctx = NewCtx /\ encBufs = NewEncBufs /\ input = 0 /\ lastNonb = 0
  /\ call = "none" /\ closing = FALSE
  /\ caller = "out" /\ run = <<>> /\ done = <<>> /\ Busy = {}

LEMMA OpenedIsFine == Opened => Frames /\ Inside = <<>>
<1> SUFFICES ASSUME Opened PROVE Frames /\ Inside = <<>> OBVIOUS
<1>1. 0 \in Arg /\ Oldest \in Arg BY Contexts, Ages DEF Opened
<1>2. /\ DOMAIN ctx = Arg
      /\ \A t \in Arg : /\ DOMAIN ctx[t] = Field
                        /\ ctx[t].active = FALSE /\ ctx[t].nal = FALSE
                        /\ ctx[t].failed = FALSE
  BY DEF Opened, NewCtx, Context, Field
<1>3. \A t \in Arg : ~InPipe(t) BY <1>2 DEF InPipe, Opened
<1>4. Depth = 0 BY <1>3, NobodyInside
<1>5. encBufs.buf = <<>> /\ encBufs.free = <<>> BY DEF Opened, NewEncBufs
<1>6. encBufs \in [buf : Seq([count : Nat, pic : Nat]), free : Seq(Nat)]
  BY DEF Opened, NewEncBufs
<1>7. TypeOK BY <1>1, <1>2, <1>6 DEF TypeOK, Opened
<1>8. OneJobEach BY DEF OneJobEach, JobsApart, Placed, ToSet, IsInjective, Opened
<1>9. InStep BY <1>1, <1>2 DEF InStep, Opened
<1>10. SourcesHeld
  <2>1. IsInjective(encBufs.free) BY <1>5 DEF IsInjective
  <2>2. ToSet(encBufs.free) = {} /\ DOMAIN encBufs.buf = {} BY <1>5 DEF ToSet
  <2> QED BY <1>3, <2>1, <2>2 DEF SourcesHeld, Opened
<1>11. PicturesInOrder BY <1>3, <1>4 DEF PicturesInOrder, Opened
<1>12. Inside = <<>> BY <1>4 DEF Inside
<1> QED BY <1>7, <1>8, <1>9, <1>10, <1>11, <1>12 DEF Frames

LEMMA OpenedAgain == Opened' => (Frames /\ Inside = <<>>)'
BY OpenedIsFine, PTL

\* openSoftEncoder after closeSoftEncoder: the pipe is empty then.
LEMMA ReopenKeeps ==
  ASSUME IInv, Reopen
  PROVE  Frames' /\ Pipe!Reopen
<1>1. caller = "freed" /\ closing /\ lastNonb = 0 /\ \A t \in Arg : ~ctx[t].active
  BY DEF Reopen, Create, IInv, InStep
<1>2. call = "none" BY <1>1 DEF IInv, InStep, TypeOK
<1>3. \A t \in Arg : ~InPipe(t) BY <1>1, <1>2 DEF InPipe
<1>4. Inside = <<>>
  <2>1. Depth = 0 BY <1>3, NobodyInside
  <2> QED BY <2>1 DEF Inside
<1>5. run = <<>> /\ done = <<>> BY <1>1 DEF IInv, PoolInv, FreedIsIdle
<1>6. Busy' = {} BY DEF Reopen, Create, Busy
<1>7. Opened' BY <1>1, <1>2, <1>5, <1>6 DEF Reopen, Create, Opened, NewCtx, NewEncBufs
<1>8. Frames' /\ Inside' = <<>> BY <1>7, OpenedAgain
<1>9. input' = 0 /\ sent'.source = -1 /\ ~closing' BY DEF Reopen, NoPicture
<1> QED BY <1>1, <1>4, <1>8, <1>9 DEF Pipe!Reopen
\* The lists of source pictures after a picture was put in: it is in a buffer
\* f nobody used, and the last picture has one holder less.
LEMMA PutInBuffer ==
  ASSUME IInv, NEW cut, Encode(cut)
  PROVE  LET f   == lastNonb'
             old == encBufs.buf
             buf == encBufs'.buf
             len == Len(encBufs.free)
         IN /\ Sound(encBufs)' /\ f \in DOMAIN buf /\ f \in Nat \ {0}
            /\ buf[f].count = 2 /\ buf[f].pic = input
            /\ \A b \in DOMAIN old : old[b].count >= 1 =>
                 /\ b \in DOMAIN buf /\ b # f
                 /\ buf[b].pic = old[b].pic
                 /\ buf[b].count = IF b = lastNonb /\ lastNonb # 0 THEN old[b].count - 1
                                   ELSE old[b].count
            /\ \A b \in DOMAIN buf : b # f =>
                 b \in DOMAIN old /\ (old[b].count = 0 => buf[b].count = 0)
            /\ Len(encBufs'.free) =
                 (IF len = 0 THEN 0 ELSE len - 1)
                 + (IF lastNonb # 0 /\ old[lastNonb].count = 1 THEN 1 ELSE 0)
<1> DEFINE new  == [count |-> 1, pic |-> input]
           f    == Popped(encBufs)
           enc1 == Pop(encBufs, new)
           enc2 == IF lastNonb = 0 THEN enc1 ELSE Release(enc1, lastNonb)
           old  == encBufs.buf
           len1 == IF Len(encBufs.free) = 0 THEN 0 ELSE Len(encBufs.free) - 1
           more == IF lastNonb # 0 /\ old[lastNonb].count = 1 THEN 1 ELSE 0
<1>1. input \in Nat /\ Sound(encBufs) /\ Len(encBufs.free) \in Nat
  <2>1. Sound(encBufs) BY Sources
  <2>2. encBufs.free \in Seq(Nat) BY <2>1 DEF Sound, Listed
  <2> QED BY <2>1, <2>2 DEF IInv, TypeOK
<1>2. encBufs' = Hold(enc2, f) /\ lastNonb' = f BY Zenon DEF Encode
<1>3. new \in Buffer /\ new.count = 1 /\ new.pic = input BY <1>1 DEF Buffer
<1> HIDE DEF new
<1>4. /\ Sound(enc1) /\ f \in DOMAIN enc1.buf /\ enc1.buf[f] = new /\ f \in Nat \ {0}
      /\ f \in DOMAIN old => old[f].count = 0
      /\ \A b \in DOMAIN old : b \in DOMAIN enc1.buf /\ (b # f => enc1.buf[b] = old[b])
      /\ \A b \in DOMAIN enc1.buf : b = f \/ b \in DOMAIN old
      /\ Len(enc1.free) = len1
  <2>1. Counting(Buffer) /\ Listed(encBufs, Buffer) BY <1>1, SourceBuffers DEF Sound
  <2> QED BY <1>3, <2>1, FilledAnew DEF Sound
<1>a. \A b \in DOMAIN old : old[b].count \in Nat BY Counts
<1> HIDE DEF enc1, f
<1>5. /\ Sound(enc2) /\ DOMAIN enc2.buf = DOMAIN enc1.buf
      /\ enc2.buf[f].count = 1 /\ enc2.buf[f].pic = input
      /\ \A b \in DOMAIN old : old[b].count >= 1 =>
           /\ b # f /\ enc2.buf[b].pic = old[b].pic
           /\ enc2.buf[b].count = IF b = lastNonb /\ lastNonb # 0 THEN old[b].count - 1
                                  ELSE old[b].count
      /\ \A b \in DOMAIN old : b # f /\ old[b].count = 0 => enc2.buf[b].count = 0
      /\ Len(enc2.free) = len1 + more
  <2>1. \A b \in DOMAIN old : old[b].count >= 1 =>
           b # f /\ b \in DOMAIN enc1.buf /\ enc1.buf[b] = old[b]
    BY <1>4
  <2>2. CASE lastNonb = 0
    <3>1. enc2 = enc1 /\ more = 0 /\ len1 \in Nat BY <1>1, <2>2
    <3> HIDE DEF enc2, more, len1
    <3>2. Len(enc2.free) = len1 + more BY <1>4, <3>1
    <3> QED BY <1>3, <1>4, <2>1, <2>2, <3>1, <3>2
  <2>3. CASE lastNonb # 0
    <3>1. lastNonb \in DOMAIN old /\ old[lastNonb].count >= 1
      BY <2>3 DEF IInv, SourcesHeld
    <3>2. lastNonb # f /\ lastNonb \in DOMAIN enc1.buf /\ enc1.buf[lastNonb].count >= 1
          /\ enc1.buf[lastNonb] = old[lastNonb]
      BY <2>1, <3>1
    <3> DEFINE r == Release(enc1, lastNonb)
    <3>3. /\ Sound(r) /\ DOMAIN r.buf = DOMAIN enc1.buf
          /\ \A b \in DOMAIN enc1.buf :
               /\ r.buf[b].pic = enc1.buf[b].pic
               /\ r.buf[b].count = IF b = lastNonb THEN enc1.buf[b].count - 1
                                   ELSE enc1.buf[b].count
          /\ Len(r.free) = Len(enc1.free) + (IF enc1.buf[lastNonb].count = 1 THEN 1 ELSE 0)
      BY <1>4, <3>2, SourceReleased
    <3>4. enc2 = r BY <2>3
    <3> HIDE DEF r, enc2
    <3>5. r.buf[f].count = 1 /\ r.buf[f].pic = input BY <1>3, <1>4, <3>2, <3>3
    <3>6. Len(r.free) = len1 + more BY <1>4, <2>3, <3>2, <3>3
    <3>7. \A b \in DOMAIN old : b # f /\ old[b].count = 0 => r.buf[b].count = 0
      BY <1>4, <3>1, <3>3
    <3> QED BY <2>1, <2>3, <3>3, <3>4, <3>5, <3>6, <3>7
  <2> QED BY <2>2, <2>3
<1> HIDE DEF enc2
<1> DEFINE h == Hold(enc2, f)
<1>6. /\ Sound(h) /\ DOMAIN h.buf = DOMAIN enc2.buf
      /\ h.buf[f].count = enc2.buf[f].count + 1 /\ h.buf[f].pic = enc2.buf[f].pic
      /\ \A b \in DOMAIN enc2.buf : b # f => h.buf[b] = enc2.buf[b]
      /\ h.free = enc2.free
  <2>1. f \in DOMAIN enc2.buf /\ enc2.buf[f].count >= 1 BY <1>4, <1>5
  <2>2. Counting(Buffer) /\ Listed(enc2, Buffer) BY <1>5, SourceBuffers DEF Sound
  <2>3. /\ Listed(h, Buffer) /\ DOMAIN h.buf = DOMAIN enc2.buf
        /\ h.buf[f] = With(enc2.buf[f], enc2.buf[f].count + 1)
        /\ \A b \in DOMAIN enc2.buf : b # f => h.buf[b] = enc2.buf[b]
        /\ h.free = enc2.free
    BY <2>1, <2>2, HeldOnce
  <2> DEFINE m == enc2.buf[f].count + 1
  <2>4. enc2.buf[f] \in Buffer /\ m \in Nat BY <2>1, <2>2, ListedMeans
  <2> HIDE DEF m, h
  <2>5. With(enc2.buf[f], m).count = m /\ With(enc2.buf[f], m).pic = enc2.buf[f].pic
    BY <2>2, <2>4, SourceBuffers, WithCount
  <2> QED BY <2>3, <2>5 DEF Sound, m
<1>7. encBufs' = h /\ lastNonb' = f BY <1>2
<1> HIDE DEF h, old, len1, more
<1>8. Sound(encBufs)' BY <1>6, <1>7 DEF Sound, Listed
<1>9. f \in DOMAIN h.buf /\ h.buf[f].count = 2 /\ h.buf[f].pic = input
  BY <1>4, <1>5, <1>6
<1>10. \A b \in DOMAIN old : old[b].count >= 1 =>
         /\ b \in DOMAIN h.buf /\ b # f /\ h.buf[b].pic = old[b].pic
         /\ h.buf[b].count = IF b = lastNonb /\ lastNonb # 0 THEN old[b].count - 1
                             ELSE old[b].count
  BY <1>4, <1>5, <1>6
<1>11. \A b \in DOMAIN h.buf : b # f =>
         b \in DOMAIN old /\ (old[b].count = 0 => h.buf[b].count = 0)
  BY <1>4, <1>5, <1>6
<1>12. Len(h.free) = len1 + more BY <1>5, <1>6
<1> QED BY <1>4, <1>7, <1>8, <1>9, <1>10, <1>11, <1>12 DEF old, len1, more

\* x264_encoder_encode with a picture: the oldest context, which nobody uses,
\* becomes the youngest.
LEMMA EncodeKeeps ==
  ASSUME IInv, NEW cut \in BOOLEAN, Encode(cut)
  PROVE  Frames' /\ Pipe!PutIn
<1> DEFINE old == encBufs.buf
           buf == encBufs'.buf
           t0  == Oldest
<1>1. phase \in Arg /\ Oldest \in Arg /\ input \in Nat BY Ages DEF IInv, TypeOK
<1>2. /\ call = "none" /\ call' = "run" /\ ~closing /\ closing' = closing
      /\ phase' = Next1(phase) /\ input' = input + 1 /\ sent' = sent
      /\ PopUninit(Oldest)
  BY Zenon DEF Encode, Oldest
<1>3. /\ phase' \in Arg /\ phase' = Oldest
      /\ \A t \in Arg : (Age(t))' = IF t = Oldest THEN 0 ELSE Age(t) + 1
  BY <1>1, <1>2, Older
<1>4. /\ DOMAIN ctx' = Arg
      /\ \A u \in Arg :
           /\ DOMAIN ctx'[u] = Field /\ ctx'[u].active = ctx[u].active
           /\ u # Oldest => ctx'[u] = ctx[u]
      /\ ctx'[Oldest].fenc = lastNonb'
      /\ ctx'[Oldest].nal = FALSE /\ ctx'[Oldest].failed = FALSE
  <2>1. DOMAIN ctx = Arg /\ \A u \in Arg : DOMAIN ctx[u] = Field
    BY DEF IInv, TypeOK
  <2>2. PICK fdec, ref, type, fref :
          ctx' = [ctx EXCEPT ![Oldest] =
                   [@ EXCEPT !.fdec = fdec, !.ref = ref, !.fenc = Popped(encBufs),
                             !.type = type, !.fref = fref, !.nal = FALSE,
                             !.row = 0, !.at = "await", !.failed = FALSE]]
    BY ZenonT(40) DEF Encode, Oldest
  <2>3. lastNonb' = Popped(encBufs) BY Zenon DEF Encode
  <2> DEFINE fenc == Popped(encBufs)
             c == [ctx[Oldest] EXCEPT !.fdec = fdec, !.ref = ref, !.fenc = fenc,
                             !.type = type, !.fref = fref, !.nal = FALSE,
                             !.row = 0, !.at = "await", !.failed = FALSE]
  <2>4. ctx' = [ctx EXCEPT ![Oldest] = c] BY <2>2
  <2> HIDE DEF fenc
  <2>5. /\ DOMAIN c = Field /\ c.active = ctx[Oldest].active /\ c.fenc = fenc
        /\ c.nal = FALSE /\ c.failed = FALSE
    BY <1>1, <2>1 DEF Field
  <2> HIDE DEF c
  <2> QED BY <1>1, <2>1, <2>3, <2>4, <2>5 DEF fenc
<1>5. ~ctx[Oldest].active /\ ~InPipe(Oldest) BY <1>1, <1>2 DEF IInv, InStep, InPipe
<1>6. \A u \in Arg : InPipe(u)' <=> InPipe(u) \/ u = Oldest
  BY <1>2, <1>3, <1>4 DEF InPipe
<1>7. Depth' = Depth + 1 /\ Depth < Threads BY <1>1, <1>5, <1>6, OneMore
<1>8. Depth \in 0 .. Threads /\ Threads \in Nat BY PipedFinite, Contexts
<1>9. /\ Sound(encBufs)' /\ lastNonb' \in DOMAIN buf /\ lastNonb' \in Nat \ {0}
      /\ buf[lastNonb'].count = 2 /\ buf[lastNonb'].pic = input
      /\ \A b \in DOMAIN old : old[b].count >= 1 =>
           /\ b \in DOMAIN buf /\ b # lastNonb'
           /\ buf[b].pic = old[b].pic
           /\ buf[b].count = IF b = lastNonb /\ lastNonb # 0 THEN old[b].count - 1
                             ELSE old[b].count
  BY PutInBuffer
<1>10. ASSUME NEW u \in Arg, InPipe(u)
       PROVE  /\ u # Oldest /\ ctx'[u].fenc = ctx[u].fenc /\ ctx[u].fenc \in DOMAIN buf
              /\ ctx[u].fenc # lastNonb' /\ buf[ctx[u].fenc].count >= 1
              /\ Num(u)' = Num(u)
  <2>1. /\ ctx[u].fenc \in DOMAIN old
        /\ old[ctx[u].fenc].count >= IF ctx[u].fenc = lastNonb THEN 2 ELSE 1
    BY <1>10 DEF IInv, SourcesHeld
  <2>2. old[ctx[u].fenc].count \in Nat BY <2>1, Counts
  <2>3. u # Oldest /\ ctx'[u].fenc = ctx[u].fenc BY <1>4, <1>5, <1>10
  <2> HIDE DEF old, buf
  <2>4. /\ ctx[u].fenc \in DOMAIN buf /\ ctx[u].fenc # lastNonb'
        /\ buf[ctx[u].fenc].count >= 1
        /\ buf[ctx[u].fenc].pic = old[ctx[u].fenc].pic
    BY <1>9, <2>1, <2>2
  <2> QED BY <2>3, <2>4 DEF Num, old, buf
<1>11. \A t \in Arg : t = Oldest => Num(t)' = input BY <1>4, <1>9 DEF Num
<1>12. SourcesHeld'
  <2>1. \A u \in Arg : InPipe(u)' =>
          /\ ctx'[u].fenc \in DOMAIN encBufs'.buf
          /\ encBufs'.buf[ctx'[u].fenc].count >= IF ctx'[u].fenc = lastNonb' THEN 2 ELSE 1
    <3> SUFFICES ASSUME NEW u \in Arg, InPipe(u) \/ u = Oldest
                 PROVE  /\ ctx'[u].fenc \in DOMAIN buf
                        /\ buf[ctx'[u].fenc].count >= IF ctx'[u].fenc = lastNonb' THEN 2 ELSE 1
      BY <1>6
    <3> HIDE DEF buf
    <3>1. CASE u = Oldest BY <1>4, <1>9, <3>1
    <3>2. CASE u # Oldest BY <1>10, <3>2
    <3> QED BY <3>1, <3>2
  <2>2. encBufs'.buf[lastNonb'].count >= 1 BY <1>9
  <2> QED BY <1>9, <2>1, <2>2 DEF SourcesHeld, Sound, Listed
<1>13. PicturesInOrder'
  <2>1. input' - Depth' = input - Depth /\ input' - 1 = input BY <1>1, <1>2, <1>7, <1>8
  <2>2. \A t \in Arg : InPipe(t) => Num(t) \in (input - Depth) .. (input - 1)
    BY DEF IInv, PicturesInOrder
  <2>3. \A t \in Arg : Age(t) \in Nat BY <1>1, Ages, Contexts
  <2>4. \A t \in Arg : InPipe(t)' => Num(t)' \in (input' - Depth') .. (input' - 1)
    <3> SUFFICES ASSUME NEW t \in Arg, InPipe(t) \/ t = Oldest
                 PROVE  Num(t)' \in (input - Depth) .. input
      BY <1>6, <2>1
    <3>1. CASE t = Oldest BY <1>1, <1>8, <1>11, <3>1
    <3>2. CASE t # Oldest
      <4>1. Num(t)' = Num(t) /\ Num(t) \in (input - Depth) .. (input - 1)
        BY <1>10, <2>2, <3>2
      <4> QED BY <1>1, <1>8, <4>1
    <3> QED BY <3>1, <3>2
  <2>5. \A n \in (input' - Depth') .. (input' - 1) : \E t \in Arg : InPipe(t)' /\ Num(t)' = n
    <3> SUFFICES ASSUME NEW n \in (input - Depth) .. input
                 PROVE  \E t \in Arg : InPipe(t)' /\ Num(t)' = n
      BY <2>1
    <3>1. CASE n = input BY <1>1, <1>6, <1>11, <3>1
    <3>2. CASE n # input
      <4>1. n \in (input - Depth) .. (input - 1) BY <1>1, <1>8, <3>2
      <4>2. PICK t \in Arg : InPipe(t) /\ Num(t) = n BY <4>1 DEF IInv, PicturesInOrder
      <4> QED BY <1>6, <1>10, <4>2
    <3> QED BY <3>1, <3>2
  <2>6. ASSUME NEW t \in Arg, NEW u \in Arg, InPipe(t)', InPipe(u)', Age(u)' < Age(t)'
        PROVE  Num(t)' < Num(u)'
    <3>1. t # Oldest /\ InPipe(t) BY <1>3, <1>6, <2>3, <2>6
    <3>2. Num(t)' = Num(t) /\ Num(t) \in (input - Depth) .. (input - 1)
      BY <1>10, <2>2, <3>1
    <3>3. CASE u = Oldest BY <1>1, <1>8, <1>11, <3>2, <3>3
    <3>4. CASE u # Oldest
      <4>1. InPipe(u) /\ Age(u) < Age(t) BY <1>3, <1>6, <2>3, <2>6, <3>1, <3>4
      <4>2. Num(t) < Num(u) BY <3>1, <4>1 DEF IInv, PicturesInOrder
      <4> QED BY <1>10, <3>2, <4>1, <4>2
    <3> QED BY <3>3, <3>4
  <2>7. ASSUME NEW t \in Arg, NEW u \in Arg, InPipe(t)', Age(u)' < Age(t)'
        PROVE  InPipe(u)'
    <3>1. t # Oldest /\ InPipe(t) BY <1>3, <1>6, <2>3, <2>7
    <3>2. CASE u = Oldest BY <1>6, <3>2
    <3>3. CASE u # Oldest
      <4>1. Age(u) < Age(t) BY <1>3, <2>3, <2>7, <3>1, <3>3
      <4>2. InPipe(u) BY <1>2, <3>1, <4>1 DEF IInv, PicturesInOrder
      <4> QED BY <1>6, <4>2
    <3> QED BY <3>2, <3>3
  <2> QED BY <2>4, <2>5, <2>6, <2>7 DEF PicturesInOrder
<1>14. OneJobEach'
  <2>1. \A u \in Placed : ctx[u].active BY <1>2 DEF IInv, OneJobEach
  <2>2. Oldest \notin Placed BY <1>5, <2>1
  <2>3. JobsApart' /\ Placed' \subseteq Placed
    BY <1>1, <1>2, <2>2, PopUninitApart DEF IInv, PoolInv, OneJobEach
  <2>4. Placed \subseteq Arg BY PlacedAreContexts DEF IInv
  <2> QED BY <1>4, <2>1, <2>3, <2>4 DEF OneJobEach
<1>15. InStep'
  <2>1. caller' = "push" /\ carg' = phase' BY <1>2, <1>3 DEF PopUninit
  <2>2. \A u \in Arg : ctx'[u].nal => InPipe(u)' \/ ctx'[u].failed
    BY <1>2, <1>4, <1>6 DEF IInv, InStep
  <2> QED BY <1>2, <2>1, <2>2 DEF InStep
<1>16. TypeOK'
  <2>1. encBufs' \in [buf : Seq([count : Nat, pic : Nat]), free : Seq(Nat)]
    BY <1>9 DEF Sound, Listed, Buffer
  <2>2. \A u \in Arg : /\ ctx'[u].active \in BOOLEAN /\ ctx'[u].nal \in BOOLEAN
                       /\ ctx'[u].failed \in BOOLEAN
    BY <1>4 DEF IInv, TypeOK
  <2>3. input' \in Nat /\ closing' \in BOOLEAN BY <1>1, <1>2 DEF IInv, TypeOK
  <2> QED BY <1>2, <1>3, <1>4, <1>9, <2>1, <2>2, <2>3 DEF TypeOK
<1>17. Pipe!PutIn
  <2>1. Len(Inside) = Depth BY <1>1, InsideLength
  <2>2. Inside' = Append(Inside, input) BY <1>1, <1>2, <1>7, InsideLonger
  <2> QED BY <1>2, <1>7, <2>1, <2>2 DEF Pipe!PutIn
<1> QED BY <1>12, <1>13, <1>14, <1>15, <1>16, <1>17 DEF Frames
-----------------------------------------------------------------------------
(* Every step.                                                             *)

\* A step puts a picture in, takes one out, begins to close, opens anew or
\* leaves the pipe alone.
PipeStep == [Pipe!PutIn \/ Pipe!TakeOut \/ Pipe!BeginClose \/ Pipe!Reopen]_(Pipe!pipeVars)

LEMMA PipeRests ==
  ASSUME UNCHANGED <<Inside, input, sent, closing>> PROVE PipeStep
BY DEF PipeStep, Pipe!pipeVars

LEMMA EveryStep ==
  ASSUME IInv, [Next]_vars
  PROVE  IInv' /\ PipeStep
<1>1. PoolInv'
  <2>1. phase \in Arg BY DEF IInv, TypeOK
  <2> QED BY <2>1, StepOfPool, StepHolds DEF IInv
<1>2. Frames' /\ PipeStep
  <2>1. ASSUME NEW cut \in BOOLEAN, Encode(cut) PROVE Frames' /\ PipeStep
    BY <2>1, EncodeKeeps DEF PipeStep
  <2>2. CASE Queue BY <2>2, QueueKeeps, PipeRests
  <2>3. CASE WaitOldest BY <2>3, WaitOldestKeeps, PipeRests
  <2>4. CASE Waiting BY <2>4, WaitingKeeps, PipeRests
  <2>5. CASE FrameEnd
    <3>1. call = "wait" \/ call = "end" BY <2>5 DEF FrameEnd
    <3>2. CASE call = "wait" BY <2>5, <3>2, OldestLeaves DEF PipeStep
    <3>3. CASE call = "end" BY <2>5, <3>3, NothingEnds, PipeRests
    <3> QED BY <3>1, <3>2, <3>3
  <2>6. CASE BeginClose
    <3>1. Frames' /\ UNCHANGED <<Inside, input, sent>> BY <2>6, BeginCloseKeeps
    <3>2. ~closing /\ closing' = TRUE BY <2>6 DEF BeginClose
    <3>3. Pipe!BeginClose BY <3>1, <3>2 DEF Pipe!BeginClose
    <3> QED BY <3>1, <3>3 DEF PipeStep
  <2>7. CASE Flush BY <2>7, FlushKeeps, PipeRests
  <2>8. CASE DeletePool BY <2>8, DeletePoolKeeps, PipeRests
  <2>9. CASE JoinPool BY <2>9, JoinPoolKeeps, PipeRests
  <2>10. CASE Reopen BY <2>10, ReopenKeeps DEF PipeStep
  <2>11. ASSUME NEW w \in Worker, PoolThread(w) PROVE Frames' /\ PipeStep
    BY <2>11, ThreadKeeps, PipeRests
  <2>12. ASSUME NEW w \in Worker, NEW t \in Arg,
                Await(w, t) \/ CodeRow(w, t) \/ Publish(w, t) \/ Fail(w, t)
         PROVE  Frames' /\ PipeStep
    BY <2>12, JobKeeps, PipeRests
  <2>13. CASE UNCHANGED vars
    <3>1. UNCHANGED frameVars /\ UNCHANGED poolVars BY <2>13 DEF vars
    <3>2. UNCHANGED <<run, done, cur, wk, caller, carg>> BY <3>1 DEF poolVars
    <3>3. Busy' = Busy BY <3>2 DEF Busy
    <3>4. JobsApart' /\ Placed' \subseteq Placed
      BY <3>2, <3>3, NothingMoves DEF IInv, OneJobEach, JobsApart
    <3> QED BY <3>1, <3>2, <3>4, PoolKeeps, PipeRests
  <2> QED BY <2>1, <2>2, <2>3, <2>4, <2>5, <2>6, <2>7, <2>8, <2>9, <2>10, <2>11,
             <2>12, <2>13 DEF Next
<1> QED BY <1>1, <1>2 DEF IInv, Frames

LEMMA Start == Init => IInv /\ Pipe!PipeInit
<1> SUFFICES ASSUME Init PROVE IInv /\ Pipe!PipeInit OBVIOUS
<1>1. PoolInv BY StartOfPool, InitHolds
<1>2. Opened
  <2>1. Busy = {} BY DEF Init, PoolInit, Busy
  <2> QED BY <2>1 DEF Init, PoolInit, Opened
<1>3. Frames /\ Inside = <<>> BY <1>2, OpenedIsFine
<1>4. Pipe!PipeInit BY <1>3 DEF Pipe!PipeInit, Init, NoPicture
<1> QED BY <1>1, <1>3, <1>4 DEF IInv, Frames

\* One job of each context in the pipe is in the pool and no other, the source
\* pictures inside are held until they come out, and they are numbered in the
\* order in which the contexts were used.
THEOREM Invariance == Spec => []IInv
<1>1. IInv /\ [Next]_vars => IInv' BY EveryStep
<1> QED BY <1>1, Start, PTL DEF Spec

\* Frame threading (x264_encoder_encode, x264_encoder_frame_end and their jobs)
\* implements the pipe: pictures come out in the order they went in, each at
\* most once, Threads - 1 calls later, and closing empties the encoder.
THEOREM PipeRefinement == Spec => PipeRefined
<1>1. IInv /\ [Next]_vars => PipeStep BY EveryStep
<1>2. Init => Pipe!PipeInit BY Start
<1> QED BY <1>1, <1>2, Invariance, PTL DEF Spec, PipeRefined, Pipe!PipeSpec, PipeStep

=============================================================================
