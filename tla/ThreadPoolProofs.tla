-------------------------- MODULE ThreadPoolProofs --------------------------
(***************************************************************************)
(* The pool never meets a full list, for any number of threads and any     *)
(* order of calls: the invariant is that the jobs are conserved.  Steps    *)
(* that move a job between a list and a thread need a fact about the       *)
(* number of busy threads each; all others only move one between numbers.  *)
(***************************************************************************)
EXTENDS ThreadPool, FiniteSetTheorems, SequenceTheorems, TLAPS

USE DEF poolVars

\* The numbers Conserved adds are natural numbers.
LEMMA Numbers ==
  ASSUME PoolTypeOK
  PROVE  /\ Threads \in Nat
         /\ Len(run) \in Nat /\ Len(done) \in Nat
         /\ IsFiniteSet(Busy) /\ Cardinality(Busy) \in Nat
         /\ InHand \in {0, 1}
<1>1. IsFiniteSet(Worker) BY PoolAssumption
<1>2. Threads \in Nat BY <1>1, FS_CardinalityType DEF Threads
<1>3. Busy \subseteq Worker BY DEF Busy
<1>4. IsFiniteSet(Busy) BY <1>1, <1>3, FS_Subset
<1>5. Cardinality(Busy) \in Nat BY <1>4, FS_CardinalityType
<1> QED BY <1>2, <1>4, <1>5 DEF PoolTypeOK, InHand

\* Conservation leaves room in each list a job is about to be pushed on.
LEMMA RoomToPush == PoolInv => NeverFull
<1> SUFFICES ASSUME PoolInv PROVE NeverFull OBVIOUS
<1> USE DEF PoolInv
<1>1. PoolTypeOK OBVIOUS
<1>2. caller = "push" => Len(run) < Threads
  BY <1>1, Numbers DEF Conserved, InHand, PoolTypeOK
<1>3. caller = "return" => uninit < Threads
  BY <1>1, Numbers DEF Conserved, InHand, PoolTypeOK
<1>4. ASSUME NEW w \in Worker, wk[w] = "push" PROVE Len(done) < Threads
  <2>1. w \in Busy BY <1>4 DEF Busy
  <2>2. Cardinality(Busy) # 0 BY <2>1, <1>1, Numbers, FS_EmptySet
  <2>3. caller # "freed" BY <1>4 DEF FreedIsIdle
  <2> QED BY <1>1, <2>2, <2>3, Numbers DEF Conserved, PoolTypeOK
<1> QED BY <1>2, <1>3, <1>4 DEF NeverFull

\* RemoveAt takes out one element.
LEMMA OneLess ==
  ASSUME NEW S, NEW s \in Seq(S), NEW i \in DOMAIN s
  PROVE  RemoveAt(s, i) \in Seq(S) /\ Len(RemoveAt(s, i)) = Len(s) - 1
<1> DEFINE a == SubSeq(s, 1, i - 1)
           b == SubSeq(s, i + 1, Len(s))
<1>1. i \in 1 .. Len(s) OBVIOUS
<1>2. a \in Seq(S) /\ Len(a) = i - 1 BY <1>1
<1>3. b \in Seq(S) /\ Len(b) = Len(s) - i BY <1>1
<1>4. RemoveAt(s, i) = a \o b BY Zenon DEF RemoveAt
<1> HIDE DEF a, b
<1>5. a \o b \in Seq(S) /\ Len(a \o b) = Len(a) + Len(b)
  BY <1>2, <1>3, ConcatProperties
<1>6. Len(a) + Len(b) = Len(s) - 1 BY <1>1, <1>2, <1>3
<1> QED BY <1>4, <1>5, <1>6

LEMMA InitHolds == PoolInit => PoolInv
<1> SUFFICES ASSUME PoolInit PROVE PoolInv OBVIOUS
<1> USE DEF PoolInit
<1>1. IsFiniteSet(Worker) BY PoolAssumption
<1>2. Threads \in Nat BY <1>1, FS_CardinalityType DEF Threads
<1>3. PoolTypeOK
  <2>1. run \in Seq(Arg) /\ done \in Seq(Arg) BY EmptySeq
  <2>2. wk \in [Worker -> {"top", "look", "asleep", "work", "push", "gone"}] OBVIOUS
  <2>3. cur \in [Worker -> Arg \cup {NoArg}] OBVIOUS
  <2>4. exit \in BOOLEAN /\ carg \in Arg \cup {NoArg} OBVIOUS
  <2>5. caller \in {"out", "push", "look", "asleep", "return", "join", "freed"}
    OBVIOUS
  <2> QED BY <1>2, <2>1, <2>2, <2>3, <2>4, <2>5 DEF PoolTypeOK
<1>4. Busy = {} BY DEF Busy
<1>5. Conserved BY <1>2, <1>4, FS_EmptySet DEF Conserved, InHand
<1> QED BY <1>3, <1>4, <1>5 DEF PoolInv, BusyHasJob, CallerHasJob, FreedIsIdle

\* The steps of the caller.
LEMMA PopUninitHolds ==
  ASSUME PoolInv, NEW a \in Arg, PopUninit(a)
  PROVE  PoolInv'
<1> USE DEF PoolInv, PopUninit
<1>1. PoolTypeOK' BY DEF PoolTypeOK
<1>2. Busy' = Busy BY DEF Busy
<1>3. Cardinality(Busy') = Cardinality(Busy) BY <1>2
<1>4. Conserved' BY <1>3, Numbers DEF Conserved, InHand, PoolTypeOK
<1>5. BusyHasJob' BY <1>2 DEF BusyHasJob
<1>6. CallerHasJob' BY DEF CallerHasJob, PoolTypeOK
<1>7. FreedIsIdle' BY DEF FreedIsIdle
<1> QED BY <1>1, <1>4, <1>5, <1>6, <1>7

\* A job moves from the caller to run.
LEMMA PushRunHolds ==
  ASSUME PoolInv, PushRun
  PROVE  PoolInv'
<1> USE DEF PoolInv, PushRun
<1>1. PoolTypeOK'
  <2>1. run' \in Seq(Arg) BY AppendProperties DEF PoolTypeOK, CallerHasJob
  <2>2. wk' \in [Worker -> {"top", "look", "asleep", "work", "push", "gone"}]
    BY DEF PoolTypeOK, Awakened
  <2> QED BY <2>1, <2>2 DEF PoolTypeOK
<1>2. Busy' = Busy BY DEF Busy, Awakened
<1>3. Cardinality(Busy') = Cardinality(Busy) BY <1>2
<1>4. Conserved' BY AppendProperties, <1>3, Numbers DEF Conserved, InHand, PoolTypeOK
<1>5. BusyHasJob' BY <1>2 DEF BusyHasJob
<1>6. CallerHasJob' BY DEF CallerHasJob, PoolTypeOK
<1>7. FreedIsIdle' BY DEF FreedIsIdle, Awakened
<1> QED BY <1>1, <1>4, <1>5, <1>6, <1>7

\* Nothing moves.
LEMMA BeginWaitHolds ==
  ASSUME PoolInv, NEW a \in Arg, BeginWait(a)
  PROVE  PoolInv'
<1> USE DEF PoolInv, BeginWait
<1>1. PoolTypeOK' BY DEF PoolTypeOK
<1>2. Busy' = Busy BY DEF Busy
<1>3. Cardinality(Busy') = Cardinality(Busy) BY <1>2
<1>4. Conserved' BY <1>3, Numbers DEF Conserved, InHand, PoolTypeOK
<1>5. BusyHasJob' BY <1>2 DEF BusyHasJob
<1>6. CallerHasJob' BY DEF CallerHasJob, PoolTypeOK
<1>7. FreedIsIdle' BY DEF FreedIsIdle
<1> QED BY <1>1, <1>4, <1>5, <1>6, <1>7

\* Nothing moves.
LEMMA SleepDoneHolds ==
  ASSUME PoolInv, SleepDone
  PROVE  PoolInv'
<1> USE DEF PoolInv, SleepDone
<1>1. PoolTypeOK' BY DEF PoolTypeOK
<1>2. Busy' = Busy BY DEF Busy
<1>3. Cardinality(Busy') = Cardinality(Busy) BY <1>2
<1>4. Conserved' BY <1>3, Numbers DEF Conserved, InHand, PoolTypeOK
<1>5. BusyHasJob' BY <1>2 DEF BusyHasJob
<1>6. CallerHasJob' BY DEF CallerHasJob, PoolTypeOK
<1>7. FreedIsIdle' BY DEF FreedIsIdle
<1> QED BY <1>1, <1>4, <1>5, <1>6, <1>7

\* A job moves from the caller to uninit.
LEMMA PushUninitHolds ==
  ASSUME PoolInv, PushUninit
  PROVE  PoolInv'
<1> USE DEF PoolInv, PushUninit
<1>1. PoolTypeOK' BY DEF PoolTypeOK
<1>2. Busy' = Busy BY DEF Busy
<1>3. Cardinality(Busy') = Cardinality(Busy) BY <1>2
<1>4. Conserved' BY <1>3, Numbers DEF Conserved, InHand, PoolTypeOK
<1>5. BusyHasJob' BY <1>2 DEF BusyHasJob
<1>6. CallerHasJob' BY DEF CallerHasJob, PoolTypeOK
<1>7. FreedIsIdle' BY DEF FreedIsIdle
<1> QED BY <1>1, <1>4, <1>5, <1>6, <1>7

\* Nothing moves.
LEMMA DeleteHolds ==
  ASSUME PoolInv, Delete
  PROVE  PoolInv'
<1> USE DEF PoolInv, Delete
<1>1. PoolTypeOK' BY DEF PoolTypeOK, Awakened
<1>2. Busy' = Busy BY DEF Busy, Awakened
<1>3. Cardinality(Busy') = Cardinality(Busy) BY <1>2
<1>4. Conserved' BY <1>3, Numbers DEF Conserved, InHand, PoolTypeOK
<1>5. BusyHasJob' BY <1>2 DEF BusyHasJob
<1>6. CallerHasJob' BY DEF CallerHasJob, PoolTypeOK
<1>7. FreedIsIdle' BY DEF FreedIsIdle, Awakened
<1> QED BY <1>1, <1>4, <1>5, <1>6, <1>7

\* A job moves from done to the caller.
LEMMA FindDoneHolds ==
  ASSUME PoolInv, FindDone
  PROVE  PoolInv'
<1> USE DEF PoolInv
<1>1. PICK i \in DOMAIN done : done' = RemoveAt(done, i) BY DEF FindDone
<1>2. caller = "look" /\ caller' = "return"
      /\ UNCHANGED <<uninit, run, wk, cur, carg, exit>>
  BY DEF FindDone
<1>3. done' \in Seq(Arg) /\ Len(done') = Len(done) - 1
  BY <1>1, OneLess DEF PoolTypeOK
<1>4. PoolTypeOK' BY <1>2, <1>3 DEF PoolTypeOK
<1>5. Busy' = Busy BY <1>2 DEF Busy
<1>6. Cardinality(Busy') = Cardinality(Busy) BY <1>5
<1>7. Conserved' BY <1>2, <1>3, <1>6, Numbers DEF Conserved, InHand, PoolTypeOK
<1>8. BusyHasJob' BY <1>2, <1>5 DEF BusyHasJob
<1>9. CallerHasJob' BY <1>2 DEF CallerHasJob
<1>10. FreedIsIdle' BY <1>2 DEF FreedIsIdle
<1> QED BY <1>4, <1>7, <1>8, <1>9, <1>10

\* The lists are freed when no thread is left.
LEMMA JoinedHolds ==
  ASSUME PoolInv, Joined
  PROVE  PoolInv'
<1> USE DEF PoolInv, Joined
<1>1. PoolTypeOK' BY EmptySeq DEF PoolTypeOK
<1>2. Conserved' BY DEF Conserved
<1>3. BusyHasJob' BY DEF BusyHasJob, Busy
<1>4. CallerHasJob' BY DEF CallerHasJob
<1>5. FreedIsIdle' BY DEF FreedIsIdle
<1> QED BY <1>1, <1>2, <1>3, <1>4, <1>5

\* A new pool has all its jobs in uninit.
LEMMA CreateHolds ==
  ASSUME PoolInv, Create
  PROVE  PoolInv'
<1> USE DEF PoolInv, Create
<1>1. Threads \in Nat BY Numbers
<1>2. run' = <<>> /\ done' = <<>> BY DEF FreedIsIdle
<1>3. PoolTypeOK'
  <2>1. wk' \in [Worker -> {"top", "look", "asleep", "work", "push", "gone"}] OBVIOUS
  <2> QED BY <1>1, <2>1 DEF PoolTypeOK
<1>4. Busy' = {} BY DEF Busy
<1>5. Cardinality(Busy') = 0 BY <1>4, FS_EmptySet
<1>6. Conserved' BY <1>1, <1>2, <1>5 DEF Conserved, InHand
<1>7. BusyHasJob' BY <1>4 DEF BusyHasJob
<1>8. CallerHasJob' BY DEF CallerHasJob
<1>9. FreedIsIdle' BY DEF FreedIsIdle
<1> QED BY <1>3, <1>6, <1>7, <1>8, <1>9

\* The steps of a thread that moves no job.
LEMMA IdleHolds ==
  ASSUME PoolInv, NEW w \in Worker, Top(w) \/ Sleep(w) \/ NoJob(w)
  PROVE  PoolInv'
<1> USE DEF PoolInv, Top, Sleep, NoJob
<1>1. PoolTypeOK' BY DEF PoolTypeOK
<1>2. Busy' = Busy BY DEF Busy, PoolTypeOK
<1>3. Cardinality(Busy') = Cardinality(Busy) BY <1>2
<1>4. Conserved' BY <1>3, Numbers DEF Conserved, InHand, PoolTypeOK
<1>5. BusyHasJob' BY <1>2 DEF BusyHasJob
<1>6. CallerHasJob' BY DEF CallerHasJob
<1>7. FreedIsIdle' BY DEF FreedIsIdle, PoolTypeOK
<1> QED BY <1>1, <1>4, <1>5, <1>6, <1>7

\* The job's function returns; the thread keeps the job.
LEMMA FinishWorkHolds ==
  ASSUME PoolInv, NEW w \in Worker, FinishWork(w)
  PROVE  PoolInv'
<1> USE DEF PoolInv, FinishWork
<1>1. PoolTypeOK' BY DEF PoolTypeOK
<1>2. Busy' = Busy BY DEF Busy, PoolTypeOK
<1>3. Cardinality(Busy') = Cardinality(Busy) BY <1>2
<1>4. Conserved' BY <1>3, Numbers DEF Conserved, InHand, PoolTypeOK
<1>5. BusyHasJob' BY <1>2 DEF BusyHasJob
<1>6. CallerHasJob' BY DEF CallerHasJob
<1>7. FreedIsIdle' BY DEF FreedIsIdle
<1> QED BY <1>1, <1>4, <1>5, <1>6, <1>7

\* A job moves from run to a thread that had none.
LEMMA TakeHolds ==
  ASSUME PoolInv, NEW w \in Worker, Take(w)
  PROVE  PoolInv'
<1> USE DEF PoolInv, Take
<1>1. run # <<>> /\ run \in Seq(Arg) BY DEF PoolTypeOK
<1>2. Head(run) \in Arg /\ run' \in Seq(Arg) /\ Len(run') = Len(run) - 1
  BY <1>1, HeadTailProperties
<1>3. PoolTypeOK' BY <1>2 DEF PoolTypeOK
<1>4. w \notin Busy /\ Busy' = Busy \cup {w} BY DEF Busy, PoolTypeOK
<1>5. Cardinality(Busy') = Cardinality(Busy) + 1
  BY <1>4, Numbers, FS_AddElement
<1>6. Conserved' BY <1>2, <1>5, Numbers DEF Conserved, InHand, PoolTypeOK
<1>7. BusyHasJob' BY <1>2, <1>4 DEF BusyHasJob, PoolTypeOK
<1>8. CallerHasJob' BY DEF CallerHasJob
<1>9. FreedIsIdle' BY DEF FreedIsIdle
<1> QED BY <1>3, <1>6, <1>7, <1>8, <1>9

\* A job moves from a thread to done.
LEMMA PushDoneHolds ==
  ASSUME PoolInv, NEW w \in Worker, PushDone(w)
  PROVE  PoolInv'
<1> USE DEF PoolInv, PushDone
<1>1. w \in Busy /\ cur[w] \in Arg BY DEF Busy, BusyHasJob
<1>2. done' \in Seq(Arg) /\ Len(done') = Len(done) + 1
  BY <1>1, AppendProperties DEF PoolTypeOK
<1>3. PoolTypeOK' BY <1>2 DEF PoolTypeOK
<1>4. Busy' = Busy \ {w} BY DEF Busy, PoolTypeOK
<1>5. Cardinality(Busy') = Cardinality(Busy) - 1
  BY <1>1, <1>4, Numbers, FS_RemoveElement
<1>6. caller # "freed" BY DEF FreedIsIdle
<1>7. InHand' = InHand BY DEF InHand
<1>8. Conserved'
  BY <1>2, <1>5, <1>6, <1>7, Numbers DEF Conserved, PoolTypeOK
<1>9. BusyHasJob' BY <1>4 DEF BusyHasJob, PoolTypeOK
<1>10. CallerHasJob' BY DEF CallerHasJob
<1>11. FreedIsIdle' BY <1>6 DEF FreedIsIdle
<1> QED BY <1>3, <1>8, <1>9, <1>10, <1>11

LEMMA NothingHolds == PoolInv /\ UNCHANGED poolVars => PoolInv'
BY DEF PoolInv, PoolTypeOK, Conserved, BusyHasJob, CallerHasJob, FreedIsIdle,
       Busy, InHand

LEMMA StepHolds == PoolInv /\ [PoolNext]_poolVars => PoolInv'
<1> SUFFICES ASSUME PoolInv, [PoolNext]_poolVars PROVE PoolInv' OBVIOUS
<1>1. ASSUME NEW a \in Arg, PopUninit(a) \/ BeginWait(a) PROVE PoolInv'
  BY <1>1, PopUninitHolds, BeginWaitHolds
<1>2. CASE PushRun BY <1>2, PushRunHolds
<1>3. CASE SleepDone BY <1>3, SleepDoneHolds
<1>4. CASE FindDone BY <1>4, FindDoneHolds
<1>5. CASE PushUninit BY <1>5, PushUninitHolds
<1>6. CASE Delete BY <1>6, DeleteHolds
<1>7. CASE Joined BY <1>7, JoinedHolds
<1>8. CASE Create BY <1>8, CreateHolds
<1>9. ASSUME NEW w \in Worker, Loop(w) \/ FinishWork(w) PROVE PoolInv'
  BY <1>9, IdleHolds, TakeHolds, PushDoneHolds, FinishWorkHolds DEF Loop
<1>10. CASE UNCHANGED poolVars BY <1>10, NothingHolds
<1> QED BY <1>1, <1>2, <1>3, <1>4, <1>5, <1>6, <1>7, <1>8, <1>9, <1>10 DEF PoolNext

\* The jobs of x264_threadpool_t are conserved, whatever the caller does and
\* however many threads there are.
THEOREM PoolInvariance == PoolSpec => []PoolInv
BY InitHolds, StepHolds, PTL DEF PoolSpec

\* No push meets a full list: x264_sync_frame_list_push never sleeps on
\* cv_empty in the pool.
THEOREM NeverFullAlways == PoolSpec => []NeverFull
BY PoolInvariance, RoomToPush, PTL

=============================================================================
