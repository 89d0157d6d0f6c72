------------------------- MODULE AsyncPlayerProofs --------------------------
(***************************************************************************)
(* Proofs about AsyncPlayer, for any sets of sounds and threads and any    *)
(* bound on the queue: the worker handover is safe, the queue and mPlayer  *)
(* agree in the end, and the player implements RingRequests.               *)
(*                                                                         *)
(* The inductive invariant is AsyncPlayer!IInv.  SilentWhenStopped is not  *)
(* inductive: that the last command carried out before the worker returns  *)
(* is the newest one follows from NewestAgrees.                            *)
(***************************************************************************)
EXTENDS AsyncPlayer, SequenceTheorems, TLAPS

-----------------------------------------------------------------------------
(* Facts about commands and sequences of them.                             *)

\* The two shapes a command of AsyncPlayer.Command can have.
LEMMA CommandShape ==
  /\ StopCmd \in Command /\ StopCmd.code = "STOP"
  /\ \A u \in Uri : PlayCmd(u) \in Command /\ PlayCmd(u).code = "PLAY"
  /\ \A c \in Command :
       /\ c.code \in {"PLAY", "STOP"}
       /\ c.code = "PLAY" => c.uri \in Uri
BY DEF Command, PlayCmd, StopCmd

\* Adding a command (mCmdQueue.add) makes it the newest and leaves a
\* non-empty queue of commands.
LEMMA AppendFacts ==
  ASSUME NEW q \in Seq(Command), NEW c \in Command
  PROVE  /\ Append(q, c) \in Seq(Command)
         /\ Append(q, c) # <<>>
         /\ Append(q, c)[Len(Append(q, c))] = c
BY AppendProperties, LenProperties

\* Taking the oldest command (removeFirst) keeps the newest one in its place,
\* and when nothing is left the command taken was the newest.
LEMMA TakeFacts ==
  ASSUME NEW q \in Seq(Command), q # <<>>
  PROVE  /\ Head(q) \in Command
         /\ Tail(q) \in Seq(Command)
         /\ Tail(q) # <<>> => Tail(q)[Len(Tail(q))] = q[Len(q)]
         /\ Tail(q) = <<>> => Head(q) = q[Len(q)]
<1>1. /\ Head(q) \in Command
      /\ Tail(q) \in Seq(Command)
      /\ Len(Tail(q)) = Len(q) - 1
      /\ \A i \in 1 .. Len(Tail(q)) : Tail(q)[i] = q[i + 1]
  BY HeadTailProperties
<1>2. Len(q) \in Nat \ {0} /\ Len(Tail(q)) = Len(q) - 1
  BY EmptySeq, HeadTailProperties
<1>3. ASSUME Tail(q) # <<>>
      PROVE  Tail(q)[Len(Tail(q))] = q[Len(q)]
  <2>1. Len(Tail(q)) \in 1 .. Len(Tail(q))
    BY <1>1, <1>3, EmptySeq
  <2>2. Tail(q)[Len(Tail(q))] = q[Len(Tail(q)) + 1]
    BY <1>1, <2>1
  <2>3. Len(Tail(q)) + 1 = Len(q)
    BY <1>2
  <2>4. QED
    BY <2>2, <2>3, Zenon
<1>4. ASSUME Tail(q) = <<>>
      PROVE  Head(q) = q[Len(q)]
  <2>1. Len(<<>>) = 0
    OBVIOUS
  <2>2. Len(Tail(q)) = 0
    BY <1>4, <2>1, Zenon
  <2>3. Len(q) = 1
    <3>1. \A m, n : m \in Nat /\ n = m - 1 /\ n = 0 => m = 1
      OBVIOUS
    <3>2. QED
      BY <1>2, <2>2, <3>1, Zenon
  <2>4. QED
    BY <2>3
<1>5. QED
  BY <1>1, <1>3, <1>4

-----------------------------------------------------------------------------
(* Type correctness.                                                       *)

LEMMA InitTypeOK == Init => TypeOK
<1> SUFFICES ASSUME Init PROVE TypeOK
  OBVIOUS
<1>1. mCmdQueue \in Seq(Command)
  BY EmptySeq DEF Init
<1>2. cmd \in [Thread -> Command]
  BY CommandShape DEF Init
<1>3. usesWakeLock \in BOOLEAN
  BY Zenon DEF Init
<1>4. held \in Nat /\ setter \in {"out", "tested"}
  BY DEF Init
<1>5. QED
  BY <1>1, <1>2, <1>3, <1>4, Zenon DEF Init, TypeOK

\* The fields of AsyncPlayer and the threads' registers keep their types.
THEOREM TypeCorrect == Spec => []TypeOK
<1>1. TypeOK /\ [Next]_vars => TypeOK'
  <2> SUFFICES ASSUME TypeOK, [Next]_vars PROVE TypeOK'
    OBVIOUS
  <2> USE DEF TypeOK
  <2>1. ASSUME NEW u \in Uri, Play(u) PROVE TypeOK'
    <3>1. mCmdQueue' \in Seq(Command)
      BY <2>1, CommandShape, AppendFacts DEF Play, EnqueueLocked
    <3>2. QED
      BY <2>1, <3>1 DEF Play, EnqueueLocked, StartWorker
  <2>2. CASE Stop
    <3>1. mCmdQueue' \in Seq(Command)
      BY <2>2, CommandShape, AppendFacts DEF Stop, EnqueueLocked
    <3>2. QED
      BY <2>2, <3>1, SMTT(30) DEF Stop, EnqueueLocked, StartWorker
  <2>3. CASE SetUsesWakeLockTest
    BY <2>3 DEF SetUsesWakeLockTest
  <2>4. CASE SetUsesWakeLockWrite
    BY <2>4 DEF SetUsesWakeLockWrite
  <2>5. ASSUME NEW t \in Thread, Take(t) PROVE TypeOK'
    BY <2>5, TakeFacts DEF Take, wakeLock
  <2>6. ASSUME NEW t \in Thread, StartSound(t) PROVE TypeOK'
    BY <2>6, CommandShape DEF StartSound, wakeLock
  <2>7. ASSUME NEW t \in Thread, StopSound(t) PROVE TypeOK'
    BY <2>7 DEF StopSound, wakeLock
  <2>8. ASSUME NEW t \in Thread, Check(t) PROVE TypeOK'
    BY <2>8 DEF Check, wakeLock
  <2>9. ASSUME NEW t \in Thread, Release(t) PROVE TypeOK'
    <3>1. held' \in Nat
      BY <2>9 DEF Release
    <3>2. QED
      BY <2>9, <3>1 DEF Release
  <2>10. CASE UNCHANGED vars
    BY <2>10 DEF vars
  <2>11. QED
    BY <2>1, <2>2, <2>3, <2>4, <2>5, <2>6, <2>7, <2>8, <2>9, <2>10 DEF Next, Worker
<1>2. QED
  BY InitTypeOK, <1>1, PTL DEF Spec

-----------------------------------------------------------------------------
(* The inductive invariant.                                                *)

LEMMA InitIInv == Init => IInv
<1> SUFFICES ASSUME Init PROVE IInv
  OBVIOUS
<1>1. TypeOK
  BY InitTypeOK
<1>2. QED
  BY <1>1, ConstantsAssumption
  DEF Init, IInv, SingleWorker, Running, WorkHasWorker, NeverTakesFromEmpty,
      NewestAgrees, LeavesEmpty, LockOfWorker, ConstantsAssumption

\* enqueueLocked, for the command of either caller: it starts a worker exactly
\* when none is registered, so the worker that comes is the only one.
LEMMA EnqueueKeeps ==
  ASSUME IInv, TypeOK', NEW c \in Command, Unlocked, EnqueueLocked(c),
         mState' = c.code, UNCHANGED <<mPlayer, cmd, usesWakeLock>>
  PROVE  IInv'
<1> USE DEF IInv, TypeOK
<1>1. mCmdQueue' # <<>> /\ mCmdQueue'[Len(mCmdQueue')] = c
  BY AppendFacts DEF EnqueueLocked
<1>2. SingleWorker'
  <2>1. CASE mThread = NoThread
    <3>1. \A t \in Thread : pc[t] = "off"
      BY <2>1, ConstantsAssumption
      DEF SingleWorker, Running, Unlocked, Alive, ConstantsAssumption
    <3>2. QED
      BY <2>1, <3>1, ConstantsAssumption
      DEF EnqueueLocked, StartWorker, SingleWorker, Running, ConstantsAssumption
  <2>2. CASE mThread # NoThread
    BY <2>2 DEF EnqueueLocked, SingleWorker, Running
  <2>3. QED
    BY <2>1, <2>2
<1>3. WorkHasWorker'
  BY ConstantsAssumption
  DEF EnqueueLocked, StartWorker, WorkHasWorker, ConstantsAssumption
<1>4. NeverTakesFromEmpty'
  BY <1>1 DEF NeverTakesFromEmpty
<1>5. NewestAgrees'
  BY <1>1 DEF NewestAgrees
<1>6. LeavesEmpty'
  BY DEF EnqueueLocked, StartWorker, LeavesEmpty, Unlocked, Alive
<1>7. LockOfWorker'
  <2>1. CASE mThread = NoThread
    <3>1. \A t \in Thread : pc[t] = "off"
      BY <2>1, ConstantsAssumption
      DEF SingleWorker, Running, Unlocked, Alive, ConstantsAssumption
    <3>2. held = 0
      BY <3>1 DEF LockOfWorker
    <3>3. QED
      BY <2>1, <3>2 DEF EnqueueLocked, StartWorker, LockOfWorker
  <2>2. CASE mThread # NoThread
    BY <2>2 DEF EnqueueLocked, LockOfWorker
  <2>3. QED
    BY <2>1, <2>2
<1>8. QED
  BY <1>2, <1>3, <1>4, <1>5, <1>6, <1>7

\* The worker's removeFirst: the command it takes is the newest one when it
\* leaves the queue empty.
LEMMA TakeKeeps ==
  ASSUME IInv, TypeOK', NEW t \in Thread, Take(t)
  PROVE  IInv'
<1> USE DEF IInv, TypeOK
<1>1. mCmdQueue # <<>>
  BY DEF Take, NeverTakesFromEmpty
<1>2. /\ cmd' = [cmd EXCEPT ![t] = Head(mCmdQueue)]
      /\ mCmdQueue' = Tail(mCmdQueue)
      /\ pc' = [pc EXCEPT ![t] = "exec"]
      /\ UNCHANGED <<mThread, mPlayer, mState, usesWakeLock, held>>
  BY <1>1 DEF Take, wakeLock
<1>3. t = mThread
  BY DEF Take, SingleWorker, Running
<1>4. SingleWorker'
  BY <1>2, <1>3 DEF Take, SingleWorker, Running
<1>5. WorkHasWorker'
  BY <1>2, <1>3, ConstantsAssumption DEF WorkHasWorker, ConstantsAssumption
<1>6. NeverTakesFromEmpty'
  BY <1>2, <1>3, <1>4 DEF NeverTakesFromEmpty, SingleWorker, Running
<1>7. NewestAgrees'
  <2>1. mCmdQueue[Len(mCmdQueue)].code = mState
    BY <1>1 DEF NewestAgrees
  <2>2. mCmdQueue' # <<>> => mCmdQueue'[Len(mCmdQueue')].code = mState'
    BY <1>1, <1>2, <2>1, TakeFacts
  <2>3. ASSUME mCmdQueue' = <<>>, NEW w \in Thread, pc'[w] = "exec"
        PROVE  cmd'[w].code = mState'
    <3>1. w = t
      BY <1>2, <1>3, <1>4, <2>3 DEF SingleWorker, Running
    <3>2. cmd'[w] = mCmdQueue[Len(mCmdQueue)]
      BY <1>1, <1>2, <2>3, <3>1, TakeFacts
    <3>3. QED
      BY <1>2, <2>1, <3>2
  <2>4. pc'[t] = "exec"
    BY <1>2
  <2>5. QED
    BY <2>2, <2>3, <2>4 DEF NewestAgrees
<1>8. LeavesEmpty' /\ LockOfWorker'
  BY <1>2 DEF Take, Unlocked, Alive, LeavesEmpty, LockOfWorker
<1>9. QED
  BY <1>4, <1>5, <1>6, <1>7, <1>8

\* Carrying a command out: afterwards mPlayer is what the command asked for,
\* and the command was the newest when nothing is queued behind it.
LEMMA SoundKeeps ==
  ASSUME IInv, TypeOK', NEW t \in Thread, StartSound(t) \/ StopSound(t)
  PROVE  IInv'
<1> USE DEF IInv, TypeOK
<1>1. /\ pc[t] = "exec"
      /\ pc' = [pc EXCEPT ![t] = "check"]
      /\ UNCHANGED <<mCmdQueue, mThread, mState, cmd, usesWakeLock, held>>
      /\ cmd[t].code = "STOP" => mPlayer' = NoPlayer
  BY DEF StartSound, StopSound, wakeLock
<1>2. t = mThread
  BY <1>1 DEF SingleWorker, Running
<1>3. SingleWorker'
  BY <1>1, <1>2 DEF SingleWorker, Running
<1>4. WorkHasWorker' /\ NeverTakesFromEmpty'
  BY <1>1 DEF WorkHasWorker, NeverTakesFromEmpty
<1>5. NewestAgrees'
  <2>1. \A w \in Thread : pc'[w] # "exec"
    BY <1>1, <1>2 DEF SingleWorker
  <2>2. mCmdQueue = <<>> => cmd[t].code = mState
    BY <1>1 DEF NewestAgrees
  <2>3. QED
    BY <1>1, <2>1, <2>2 DEF NewestAgrees
<1>6. LeavesEmpty' /\ LockOfWorker'
  BY <1>1 DEF LeavesEmpty, LockOfWorker
<1>7. QED
  BY <1>3, <1>4, <1>5, <1>6

\* The end of run(): the worker unregisters itself only when the queue is
\* empty, in the critical section in which it saw that.
LEMMA CheckKeeps ==
  ASSUME IInv, TypeOK', NEW t \in Thread, Check(t)
  PROVE  IInv'
<1> USE DEF IInv, TypeOK
<1>1. t = mThread
  BY DEF Check, SingleWorker, Running
<1>2. mThread # NoThread
  BY <1>1, ConstantsAssumption DEF ConstantsAssumption
<1>3. SingleWorker'
  BY <1>1, ConstantsAssumption
  DEF Check, SingleWorker, Running, ConstantsAssumption
<1>4. WorkHasWorker'
  BY <1>2 DEF Check, WorkHasWorker
<1>5. NeverTakesFromEmpty'
  BY DEF Check, NeverTakesFromEmpty
<1>6. NewestAgrees'
  <2>1. \A w \in Thread : pc[w] # "exec" /\ pc'[w] # "exec"
    BY <1>1 DEF Check, SingleWorker
  <2>2. UNCHANGED <<mCmdQueue, mState, mPlayer, cmd>>
    BY DEF Check
  <2>3. QED
    BY <2>1, <2>2 DEF NewestAgrees
<1>7. LeavesEmpty' /\ LockOfWorker'
  BY DEF Check, wakeLock, Unlocked, Alive, LeavesEmpty, LockOfWorker
<1>8. QED
  BY <1>3, <1>4, <1>5, <1>6, <1>7

\* releaseWakeLock at the end of run(): whatever setUsesWakeLock has done
\* since the worker was started, nothing is held when it is gone.
LEMMA ReleaseKeeps ==
  ASSUME IInv, TypeOK', NEW t \in Thread, Release(t)
  PROVE  IInv'
<1> USE DEF IInv, TypeOK
<1>1. /\ pc[t] = "release"
      /\ pc' \in {[pc EXCEPT ![t] = "off"], [pc EXCEPT ![t] = "crashed"]}
      /\ UNCHANGED <<mCmdQueue, mThread, mPlayer, mState, cmd, usesWakeLock>>
  BY DEF Release
<1>2. \A w \in Thread : w # t => pc[w] = "off"
  BY <1>1 DEF SingleWorker
<1>3. SingleWorker'
  BY <1>1, <1>2 DEF SingleWorker, Running
<1>4. WorkHasWorker' /\ NeverTakesFromEmpty' /\ LeavesEmpty'
  BY <1>1 DEF WorkHasWorker, NeverTakesFromEmpty, LeavesEmpty
<1>5. NewestAgrees'
  BY <1>1 DEF NewestAgrees
<1>6. LockOfWorker'
  <2>1. held = 1 => usesWakeLock
    BY DEF LockOfWorker
  <2>2. held' = 0
    BY <2>1 DEF Release, LockOfWorker
  <2>3. QED
    BY <2>2 DEF LockOfWorker
<1>7. QED
  BY <1>3, <1>4, <1>5, <1>6

\* Every reachable state satisfies the inductive invariant.
THEOREM Invariance == Spec => []IInv
<1>1. TypeOK /\ IInv /\ TypeOK' /\ [Next]_vars => IInv'
  <2> SUFFICES ASSUME IInv, TypeOK', [Next]_vars PROVE IInv'
    OBVIOUS
  <2>1. ASSUME NEW u \in Uri, Play(u) PROVE IInv'
    BY <2>1, EnqueueKeeps, CommandShape DEF Play
  <2>2. CASE Stop
    BY <2>2, EnqueueKeeps, CommandShape DEF Stop
  <2>3. CASE SetUsesWakeLockTest \/ SetUsesWakeLockWrite
    BY <2>3
    DEF SetUsesWakeLockTest, SetUsesWakeLockWrite, IInv, SingleWorker, Running,
        WorkHasWorker, NeverTakesFromEmpty, NewestAgrees, LeavesEmpty,
        LockOfWorker
  <2>4. ASSUME NEW t \in Thread, Worker(t) PROVE IInv'
    BY <2>4, TakeKeeps, SoundKeeps, CheckKeeps, ReleaseKeeps DEF Worker
  <2>5. CASE UNCHANGED vars
    BY <2>5
    DEF vars, IInv, SingleWorker, Running, WorkHasWorker, NeverTakesFromEmpty,
        NewestAgrees, LeavesEmpty, LockOfWorker
  <2>6. QED
    BY <2>1, <2>2, <2>3, <2>4, <2>5 DEF Next
<1>2. QED
  BY <1>1, InitIInv, TypeCorrect, PTL DEF Spec

-----------------------------------------------------------------------------
(* What follows from it.                                                   *)

\* No handover leaves two workers, or a worker mThread does not name.
THEOREM SingleWorkerAlways == Spec => []SingleWorker
<1>1. IInv => SingleWorker
  BY DEF IInv
<1>2. QED
  BY <1>1, Invariance, PTL

\* No command is left in the queue without a worker (AsyncPlayer.enqueueLocked, run).
THEOREM WorkHasWorkerAlways == Spec => []WorkHasWorker
<1>1. IInv => WorkHasWorker
  BY DEF IInv
<1>2. QED
  BY <1>1, Invariance, PTL

\* No worker calls removeFirst on an empty queue.
THEOREM NeverTakesFromEmptyAlways == Spec => []NeverTakesFromEmpty
<1>1. IInv => NeverTakesFromEmpty
  BY DEF IInv
<1>2. QED
  BY <1>1, Invariance, PTL

\* When the worker is gone and the newest request was stop, nothing sounds.
THEOREM SilentWhenStoppedAlways == Spec => []SilentWhenStopped
<1>1. IInv => SilentWhenStopped
  <2> SUFFICES ASSUME IInv, mThread = NoThread, mState = "STOP"
               PROVE  mPlayer = NoPlayer
    BY DEF SilentWhenStopped
  <2>1. mCmdQueue = <<>>
    BY DEF IInv, WorkHasWorker
  <2>2. \A t \in Thread : pc[t] # "exec"
    BY ConstantsAssumption DEF IInv, SingleWorker, Running, ConstantsAssumption
  <2>3. QED
    BY <2>1, <2>2 DEF IInv, NewestAgrees
<1>2. QED
  BY <1>1, Invariance, PTL

\* Whenever setUsesWakeLock is called, no worker leaves the wake lock held.
THEOREM LockNeverLeftAlways == Spec => []LockNeverLeft
<1>1. IInv => LockNeverLeft
  BY DEF IInv, LockOfWorker, LockNeverLeft
<1>2. QED
  BY <1>1, Invariance, PTL

-----------------------------------------------------------------------------
(* The player implements RingRequests.                                     *)

\* The refinement mapping's value for Ring!pending.
Pending == InHand \o mCmdQueue

LEMMA PendingIsInstance ==
  /\ Ring!Init <=> /\ Pending = <<>>
                   /\ (mState = "PLAY") = FALSE
                   /\ mPlayer = NoPlayer
  /\ \A u \in Uri : Ring!RequestPlay(u) <=>
       /\ Pending' = Append(Pending, PlayCmd(u))
       /\ (mState = "PLAY")' = TRUE
       /\ UNCHANGED mPlayer
  /\ Ring!RequestStop <=>
       /\ mState = "PLAY"
       /\ Pending' = Append(Pending, StopCmd)
       /\ (mState = "PLAY")' = FALSE
       /\ UNCHANGED mPlayer
  /\ Ring!TakeEffect <=>
       /\ Pending # <<>>
       /\ Pending' = Tail(Pending)
       /\ IF Head(Pending).code = "PLAY"
          THEN mPlayer' \in {Head(Pending).uri, mPlayer}
          ELSE mPlayer' = NoPlayer
       /\ UNCHANGED (mState = "PLAY")
BY DEF Ring!Init, Ring!RequestPlay, Ring!RequestStop, Ring!TakeEffect,
       Ring!PlayCmd, Ring!StopCmd, PlayCmd, StopCmd, Pending

\* A command is in hand only between removeFirst and the sound it asks for.
LEMMA InHandFacts ==
  ASSUME IInv
  PROVE  /\ \A t \in Thread : pc[t] = "exec" => InHand = <<cmd[t]>>
         /\ (\A t \in Thread : pc[t] # "exec") => InHand = <<>>
         /\ InHand \in Seq(Command)
<1> USE DEF IInv, TypeOK
<1>1. ASSUME NEW t \in Thread, pc[t] = "exec"
      PROVE  InHand = <<cmd[t]>> /\ InHand \in Seq(Command)
  BY <1>1, ConstantsAssumption
  DEF InHand, SingleWorker, Running, ConstantsAssumption
<1>2. ASSUME \A t \in Thread : pc[t] # "exec"
      PROVE  InHand = <<>> /\ InHand \in Seq(Command)
  <2>1. InHand = <<>>
    BY <1>2 DEF InHand
  <2>2. QED
    BY <2>1, EmptySeq
<1>3. QED
  BY <1>1, <1>2

\* A queued command is the newest of those pending.
LEMMA PendingAppend ==
  ASSUME IInv, IInv', NEW c \in Command, EnqueueLocked(c), UNCHANGED cmd
  PROVE  Pending' = Append(Pending, c)
<1> USE DEF IInv, TypeOK
<1>1. InHand' = InHand
  <2>1. CASE mThread = NoThread
    <3>1. \A t \in Thread : pc[t] # "exec" /\ pc'[t] # "exec"
      BY <2>1, ConstantsAssumption
      DEF EnqueueLocked, StartWorker, SingleWorker, Running, ConstantsAssumption
    <3>2. QED
      BY <3>1 DEF InHand
  <2>2. CASE mThread # NoThread
    BY <2>2 DEF EnqueueLocked, InHand
  <2>3. QED
    BY <2>1, <2>2
<1>2. InHand \in Seq(Command) /\ mCmdQueue \in Seq(Command)
  BY InHandFacts
<1>3. mCmdQueue' = mCmdQueue \o <<c>> /\ <<c>> \in Seq(Command)
  BY <1>2, AppendIsConcat DEF EnqueueLocked
<1>4. Pending' = (InHand \o mCmdQueue) \o <<c>>
  BY <1>1, <1>2, <1>3, ConcatAssociative DEF Pending
<1>5. Pending \in Seq(Command)
  BY <1>2, ConcatProperties DEF Pending
<1>6. QED
  BY <1>4, <1>5, AppendIsConcat DEF Pending

\* A command put in front of a queue is its head, and the queue its tail.
LEMMA FrontFacts ==
  ASSUME NEW q \in Seq(Command), NEW c \in Command
  PROVE  /\ <<c>> \o q # <<>>
         /\ Head(<<c>> \o q) = c
         /\ Tail(<<c>> \o q) = q
<1> DEFINE s == <<c>> \o q
<1>1. <<c>> \in Seq(Command) /\ Len(<<c>>) = 1 /\ <<c>>[1] = c
  OBVIOUS
<1>2. /\ s \in Seq(Command)
      /\ Len(s) = 1 + Len(q)
      /\ \A i \in 1 .. 1 + Len(q) : s[i] = IF i <= 1 THEN <<c>>[i] ELSE q[i - 1]
  BY <1>1, ConcatProperties
<1>3. Len(q) \in Nat
  BY LenProperties
<1> HIDE DEF s
<1>4. s # <<>>
  BY <1>2, <1>3, EmptySeq
<1>5. s[1] = c
  BY <1>1, <1>2, <1>3
<1>6. Head(s) = c
  BY <1>2, <1>4, <1>5
<1>7. /\ Tail(s) \in Seq(Command)
      /\ Len(Tail(s)) = Len(s) - 1
      /\ \A i \in 1 .. Len(Tail(s)) : Tail(s)[i] = s[i + 1]
  BY <1>2, <1>4, HeadTailProperties
<1>8. Len(Tail(s)) = Len(q)
  BY <1>2, <1>3, <1>7
<1>9. ASSUME NEW i \in 1 .. Len(Tail(s)) PROVE Tail(s)[i] = q[i]
  <2>1. i + 1 \in 1 .. 1 + Len(q) /\ ~(i + 1 <= 1) /\ (i + 1) - 1 = i
    BY <1>3, <1>8
  <2>2. s[i + 1] = q[(i + 1) - 1]
    BY <1>2, <2>1
  <2>3. QED
    BY <1>7, <2>1, <2>2, Zenon
<1>10. Tail(s) = q
  BY <1>7, <1>8, <1>9, SeqEqual
<1>11. QED
  BY <1>4, <1>6, <1>10 DEF s

\* Every behaviour of the player is one of RingRequests: a caller's request
\* is recorded, carrying a command out lets the oldest request take effect,
\* and every other step of the worker is invisible.
THEOREM Refinement == Spec => RequestsInOrder
<1>1. Init => Ring!Init
  <2> SUFFICES ASSUME Init PROVE Ring!Init
    OBVIOUS
  <2>1. InHand = <<>>
    BY DEF Init, InHand
  <2>2. Pending = <<>>
    BY <2>1, EmptySeq, ConcatEmptySeq DEF Init, Pending
  <2>3. QED
    BY <2>2, PendingIsInstance DEF Init
<1>2. IInv /\ IInv' /\ [Next]_vars => [Ring!Next]_(Ring!vars)
  <2> SUFFICES ASSUME IInv, IInv', [Next]_vars
               PROVE  [Ring!Next]_(Ring!vars)
    OBVIOUS
  <2> USE DEF IInv, TypeOK
  <2>1. ASSUME NEW u \in Uri, Play(u) PROVE Ring!RequestPlay(u)
    <3>1. Pending' = Append(Pending, PlayCmd(u))
      BY <2>1, PendingAppend, CommandShape DEF Play
    <3>2. QED
      BY <2>1, <3>1, PendingIsInstance DEF Play
  <2>2. ASSUME Stop PROVE Ring!RequestStop
    <3>1. Pending' = Append(Pending, StopCmd)
      BY <2>2, PendingAppend, CommandShape DEF Stop
    <3>2. QED
      BY <2>2, <3>1, PendingIsInstance DEF Stop
  <2>3. ASSUME NEW t \in Thread, StartSound(t) \/ StopSound(t)
        PROVE  Ring!TakeEffect
    <3>1. /\ pc[t] = "exec"
          /\ pc' = [pc EXCEPT ![t] = "check"]
          /\ UNCHANGED <<mCmdQueue, mThread, mState, cmd>>
          /\ IF cmd[t].code = "PLAY"
             THEN mPlayer' \in {cmd[t].uri, mPlayer}
             ELSE mPlayer' = NoPlayer
      BY <2>3 DEF StartSound, StopSound
    <3>2. Pending = <<cmd[t]>> \o mCmdQueue
      BY <3>1, InHandFacts DEF Pending
    <3>3. \A w \in Thread : pc'[w] # "exec"
      BY <3>1 DEF SingleWorker
    <3>4. InHand' = <<>>
      BY <3>3 DEF InHand
    <3>5. Pending' = mCmdQueue
      BY <3>1, <3>4, ConcatEmptySeq DEF Pending
    <3>6. Pending # <<>> /\ Head(Pending) = cmd[t] /\ Tail(Pending) = mCmdQueue
      BY <3>2, FrontFacts
    <3>7. UNCHANGED (mState = "PLAY")
      BY <3>1
    <3> HIDE DEF IInv, TypeOK
    <3>8. QED
      BY <3>1, <3>5, <3>6, <3>7, PendingIsInstance
  <2>4. ASSUME NEW t \in Thread, Take(t) PROVE UNCHANGED Ring!vars
    <3>1. /\ mCmdQueue # <<>>
          /\ cmd' = [cmd EXCEPT ![t] = Head(mCmdQueue)]
          /\ mCmdQueue' = Tail(mCmdQueue)
          /\ pc' = [pc EXCEPT ![t] = "exec"]
          /\ UNCHANGED <<mThread, mPlayer, mState>>
      BY <2>4 DEF Take, NeverTakesFromEmpty
    <3>2. \A w \in Thread : pc[w] # "exec"
      BY <2>4 DEF Take, SingleWorker, Running
    <3>3. Pending = mCmdQueue
      BY <3>2, InHandFacts, ConcatEmptySeq DEF Pending
    <3>4. mThread = t /\ t # NoThread
      BY <2>4, ConstantsAssumption
      DEF Take, SingleWorker, Running, ConstantsAssumption
    <3>5. InHand' = <<Head(mCmdQueue)>>
      BY <3>1, <3>4 DEF InHand
    <3>6. Pending' = <<Head(mCmdQueue)>> \o Tail(mCmdQueue)
      BY <3>1, <3>5 DEF Pending
    <3>7. mCmdQueue = <<Head(mCmdQueue)>> \o Tail(mCmdQueue)
      BY <3>1, HeadTailProperties
    <3>8. Pending' = Pending
      BY <3>3, <3>6, <3>7
    <3>9. QED
      BY <3>1, <3>8 DEF Ring!vars, Pending
  <2>5. ASSUME NEW t \in Thread, Check(t) PROVE UNCHANGED Ring!vars
    <3>1. \A w \in Thread : pc[w] # "exec" /\ pc'[w] # "exec"
      BY <2>5 DEF Check, SingleWorker
    <3>2. InHand' = InHand
      BY <3>1 DEF InHand
    <3>3. QED
      BY <2>5, <3>2 DEF Check, Ring!vars
  <2>6. ASSUME NEW t \in Thread, Release(t) PROVE UNCHANGED Ring!vars
    <3>1. \A w \in Thread : pc[w] # "exec" /\ pc'[w] # "exec"
      BY <2>6 DEF Release, SingleWorker
    <3>2. InHand' = InHand
      BY <3>1 DEF InHand
    <3>3. QED
      BY <2>6, <3>2 DEF Release, Ring!vars
  <2>7. ASSUME SetUsesWakeLockTest \/ SetUsesWakeLockWrite \/ UNCHANGED vars
        PROVE  UNCHANGED Ring!vars
    BY <2>7
    DEF SetUsesWakeLockTest, SetUsesWakeLockWrite, vars, Ring!vars, InHand
  <2>8. QED
    BY <2>1, <2>2, <2>3, <2>4, <2>5, <2>6, <2>7 DEF Next, Worker, Ring!Next
<1>3. QED
  BY <1>1, <1>2, Invariance, PTL DEF Spec, RequestsInOrder, Ring!Spec

=============================================================================
