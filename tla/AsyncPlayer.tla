---------------------------- MODULE AsyncPlayer -----------------------------
(***************************************************************************)
(* The ring player of the call screens (AsyncPlayer.java).  Callers on any *)
(* thread queue PLAY and STOP commands under the lock of mCmdQueue.  A     *)
(* worker thread exists only while there is work: enqueueLocked starts one *)
(* when mThread is null, and the worker clears mThread and returns when it *)
(* finds the queue empty.                                                  *)
(*                                                                         *)
(* One action is one critical section of the code, or the code between two *)
(* of them.  setUsesWakeLock takes no lock: it reads the fields in one     *)
(* step and writes in another, and the last critical section of a worker   *)
(* is two steps, because it may come between them.  In the section of      *)
(* enqueueLocked it may come between too, but there it does what it would  *)
(* have done before or after.  One thread at a time calls setUsesWakeLock. *)
(* An uncaught exception ends the process.  A MediaPlayer is represented   *)
(* by the sound it plays.                                                  *)
(***************************************************************************)
EXTENDS Integers, Sequences

CONSTANTS
  Uri,       \* the sounds
  NoPlayer,  \* mPlayer is null
  Thread,    \* identities for worker threads
  NoThread,  \* mThread is null
  MaxQueue   \* bound: play is called only while fewer commands are queued

ASSUME ConstantsAssumption ==
  /\ NoPlayer \notin Uri
  /\ NoThread \notin Thread
  /\ Thread # {}
  /\ MaxQueue \in Nat \ {0}

VARIABLES
  mCmdQueue,    \* commands not yet taken by the worker
  mThread,      \* the registered worker
  mPlayer,      \* the sound that is playing
  mState,       \* code of the newest command accepted
  pc,           \* where each worker thread is in run()
  cmd,          \* the command a worker holds
  usesWakeLock, \* mWakeLock is not null
  held,         \* how many times the wake lock is held
  setter        \* where the caller of setUsesWakeLock is

wakeLock == <<usesWakeLock, held, setter>>
vars == <<mCmdQueue, mThread, mPlayer, mState, pc, cmd, usesWakeLock, held, setter>>

PlayCmd(u) == [code |-> "PLAY", uri |-> u]
StopCmd    == [code |-> "STOP", uri |-> NoPlayer]
Command    == {PlayCmd(u) : u \in Uri} \cup {StopCmd}

TypeOK ==
  /\ mCmdQueue \in Seq(Command)
  /\ mThread \in Thread \cup {NoThread}
  /\ mPlayer \in Uri \cup {NoPlayer}
  /\ mState \in {"PLAY", "STOP"}
  /\ pc \in [Thread -> {"off", "take", "exec", "check", "release", "crashed"}]
  /\ cmd \in [Thread -> Command]
  /\ usesWakeLock \in BOOLEAN
  /\ held \in Nat
  /\ setter \in {"out", "tested"}

Init ==
  /\ mCmdQueue = <<>>
  /\ mThread = NoThread
  /\ mPlayer = NoPlayer
  /\ mState = "STOP"
  /\ pc = [t \in Thread |-> "off"]
  /\ cmd = [t \in Thread |-> StopCmd]
  /\ usesWakeLock = FALSE
  /\ held = 0
  /\ setter = "out"

-----------------------------------------------------------------------------
(* Callers.                                                                *)

Alive == \A t \in Thread : pc[t] # "crashed"

\* Nobody is in a critical section: a worker that leaves is, from the moment
\* it clears mThread until it has released the wake lock.
Unlocked == Alive /\ \A t \in Thread : pc[t] # "release"

StartWorker(t) ==
  /\ mThread' = t
  /\ pc' = [pc EXCEPT ![t] = "take"]
  /\ held' = IF usesWakeLock THEN held + 1 ELSE held

\* Variant for mutation: a worker is started when the queue was empty.
EnqueueLockedWhenEmpty(c) ==
  /\ mCmdQueue' = Append(mCmdQueue, c)
  /\ IF mCmdQueue = <<>>
     THEN \E t \in Thread : pc[t] = "off" /\ StartWorker(t)
     ELSE UNCHANGED <<mThread, pc, held>>

EnqueueLocked(c) ==
  /\ mCmdQueue' = Append(mCmdQueue, c)
  /\ IF mThread = NoThread
     THEN \E t \in Thread : pc[t] = "off" /\ StartWorker(t)
     ELSE UNCHANGED <<mThread, pc, held>>

Play(u) ==
  /\ Unlocked
  /\ Len(mCmdQueue) < MaxQueue
  /\ EnqueueLocked(PlayCmd(u))
  /\ mState' = "PLAY"
  /\ UNCHANGED <<mPlayer, cmd, usesWakeLock, setter>>

\* Variant for mutation: a stop during work is only noted, not queued.
StopNotQueuedDuringWork ==
  /\ Unlocked
  /\ mState # "STOP"
  /\ IF mThread = NoThread
     THEN EnqueueLocked(StopCmd)
     ELSE UNCHANGED <<mCmdQueue, mThread, pc, held>>
  /\ mState' = "STOP"
  /\ UNCHANGED <<mPlayer, cmd, usesWakeLock, setter>>

Stop ==
  /\ Unlocked
  /\ mState # "STOP"
  /\ EnqueueLocked(StopCmd)
  /\ mState' = "STOP"
  /\ UNCHANGED <<mPlayer, cmd, usesWakeLock, setter>>

\* setUsesWakeLock, up to the test.  When the lock is set or a worker exists
\* it throws in its caller, and so changes nothing.
SetUsesWakeLockTest ==
  /\ Alive
  /\ setter = "out"
  /\ ~usesWakeLock /\ mThread = NoThread
  /\ setter' = "tested"
  /\ UNCHANGED <<mCmdQueue, mThread, mPlayer, mState, pc, cmd, usesWakeLock, held>>

\* The rest: mWakeLock is written, whatever has happened since the test.
SetUsesWakeLockWrite ==
  /\ Alive
  /\ setter = "tested"
  /\ usesWakeLock' = TRUE
  /\ setter' = "out"
  /\ UNCHANGED <<mCmdQueue, mThread, mPlayer, mState, pc, cmd, held>>

-----------------------------------------------------------------------------
(* The worker thread.                                                      *)

\* Variant for mutation: the newest command is taken first.
TakeNewest(t) ==
  /\ Unlocked
  /\ pc[t] = "take"
  /\ mCmdQueue # <<>>
  /\ cmd' = [cmd EXCEPT ![t] = mCmdQueue[Len(mCmdQueue)]]
  /\ mCmdQueue' = SubSeq(mCmdQueue, 1, Len(mCmdQueue) - 1)
  /\ pc' = [pc EXCEPT ![t] = "exec"]
  /\ UNCHANGED <<mThread, mPlayer, mState, wakeLock>>

\* removeFirst() throws on an empty list, and nothing in run() catches it.
Take(t) ==
  /\ Unlocked
  /\ pc[t] = "take"
  /\ IF mCmdQueue = <<>>
     THEN /\ pc' = [pc EXCEPT ![t] = "crashed"]
          /\ UNCHANGED <<mCmdQueue, cmd>>
     ELSE /\ cmd' = [cmd EXCEPT ![t] = Head(mCmdQueue)]
          /\ mCmdQueue' = Tail(mCmdQueue)
          /\ pc' = [pc EXCEPT ![t] = "exec"]
  /\ UNCHANGED <<mThread, mPlayer, mState, wakeLock>>

\* The new player replaces the old one, unless loading it throws.
StartSound(t) ==
  /\ pc[t] = "exec"
  /\ cmd[t].code = "PLAY"
  /\ mPlayer' \in {cmd[t].uri, mPlayer}
  /\ pc' = [pc EXCEPT ![t] = "check"]
  /\ UNCHANGED <<mCmdQueue, mThread, mState, cmd, wakeLock>>

\* Variant for mutation: the stopped player is not forgotten.
StopSoundKeepsPlayer(t) ==
  /\ pc[t] = "exec"
  /\ cmd[t].code = "STOP"
  /\ pc' = [pc EXCEPT ![t] = "check"]
  /\ UNCHANGED <<mCmdQueue, mThread, mPlayer, mState, cmd, wakeLock>>

StopSound(t) ==
  /\ pc[t] = "exec"
  /\ cmd[t].code = "STOP"
  /\ mPlayer' = NoPlayer
  /\ pc' = [pc EXCEPT ![t] = "check"]
  /\ UNCHANGED <<mCmdQueue, mThread, mState, cmd, wakeLock>>

\* Variants for mutation: the worker never returns, or returns without
\* looking at the queue.
CheckNeverReturns(t) ==
  /\ Unlocked
  /\ pc[t] = "check"
  /\ pc' = [pc EXCEPT ![t] = "take"]
  /\ UNCHANGED <<mCmdQueue, mThread, mPlayer, mState, cmd, wakeLock>>

CheckAlwaysReturns(t) ==
  /\ Unlocked
  /\ pc[t] = "check"
  /\ mThread' = NoThread
  /\ pc' = [pc EXCEPT ![t] = "release"]
  /\ UNCHANGED <<mCmdQueue, mPlayer, mState, cmd, wakeLock>>

\* The emptiness test and the clearing of mThread are one critical section,
\* which goes on until the wake lock is released.
Check(t) ==
  /\ Unlocked
  /\ pc[t] = "check"
  /\ IF mCmdQueue = <<>>
     THEN mThread' = NoThread /\ pc' = [pc EXCEPT ![t] = "release"]
     ELSE pc' = [pc EXCEPT ![t] = "take"] /\ UNCHANGED mThread
  /\ UNCHANGED <<mCmdQueue, mPlayer, mState, cmd, wakeLock>>

\* Variant for mutation: the worker keeps the wake lock.
ReleaseNothing(t) ==
  /\ pc[t] = "release"
  /\ pc' = [pc EXCEPT ![t] = "off"]
  /\ UNCHANGED <<mCmdQueue, mThread, mPlayer, mState, cmd, wakeLock>>

\* releaseWakeLock, and the thread ends.  WakeLock.release throws when the
\* lock is not held.
Release(t) ==
  /\ pc[t] = "release"
  /\ IF usesWakeLock /\ held = 0
     THEN pc' = [pc EXCEPT ![t] = "crashed"] /\ UNCHANGED held
     ELSE /\ pc' = [pc EXCEPT ![t] = "off"]
          /\ held' = IF usesWakeLock THEN held - 1 ELSE held
  /\ UNCHANGED <<mCmdQueue, mThread, mPlayer, mState, cmd, usesWakeLock, setter>>

Worker(t) ==
  Take(t) \/ StartSound(t) \/ StopSound(t) \/ Check(t) \/ Release(t)

Next ==
  \/ \E u \in Uri : Play(u)
  \/ Stop
  \/ SetUsesWakeLockTest
  \/ SetUsesWakeLockWrite
  \/ \E t \in Thread : Worker(t)

Spec == Init /\ [][Next]_vars

\* A started thread keeps running; nobody has to call play or stop.
FairSpec == Spec /\ \A t \in Thread : WF_vars(Worker(t))

-----------------------------------------------------------------------------
(* Properties.                                                             *)

\* Between its start and the clearing of mThread.
Running(t) == pc[t] \in {"take", "exec", "check"}

\* At most one worker runs, and it is the one mThread names: the handover
\* between a worker that is leaving and a caller that finds mThread null
\* (enqueueLocked against the end of run) never leaves two workers or a
\* worker nobody knows of, and none starts before the last one has left.
SingleWorker ==
  /\ \A t \in Thread : Running(t) <=> t = mThread
  /\ \A t, w \in Thread : pc[t] # "off" /\ pc[w] # "off" => t = w

\* A command that is queued has a worker that will come for it: none is left
\* behind by a worker that returned just as the command was added.
WorkHasWorker == mCmdQueue # <<>> => mThread # NoThread

\* The worker only calls removeFirst when there is something to remove, so
\* the uncaught NoSuchElementException never happens.
NeverTakesFromEmpty == \A t \in Thread : pc[t] = "take" => mCmdQueue # <<>>

\* Once everything queued is done, a player whose newest request was stop is
\* silent: mState, which callers update early, and mPlayer, which the worker
\* updates late, agree in the end.
SilentWhenStopped ==
  mThread = NoThread /\ mState = "STOP" => mPlayer = NoPlayer

\* The phone is not kept awake for nothing: whenever setUsesWakeLock is
\* called, the wake lock is held once at most, and only as long as there is
\* a worker that will release it.
LockNeverLeft ==
  held # 0 => held = 1 /\ \E t \in Thread : pc[t] \notin {"off", "crashed"}

\* A stop is not lost: after it the ring ends, unless somebody plays again.
StopEndsSound == mState = "STOP" ~> (mPlayer = NoPlayer \/ mState = "PLAY")

(***************************************************************************)
(* What makes SilentWhenStopped inductive: mState names the newest command *)
(* that is queued; when none is queued, the one being carried out; and     *)
(* when there is none of those either, it agrees with mPlayer.             *)
(***************************************************************************)
NewestAgrees ==
  /\ mCmdQueue # <<>> => mCmdQueue[Len(mCmdQueue)].code = mState
  /\ mCmdQueue = <<>> =>
       \A t \in Thread : pc[t] = "exec" => cmd[t].code = mState
  /\ (mCmdQueue = <<>> /\ \A t \in Thread : pc[t] # "exec") =>
       (mState = "STOP" => mPlayer = NoPlayer)

\* A worker leaves with nothing queued, and nothing is queued until it is gone.
LeavesEmpty ==
  \A t \in Thread : pc[t] \in {"release", "crashed"} => mCmdQueue = <<>>

\* What makes LockNeverLeft inductive: what is held was acquired after
\* mWakeLock was set, so the worker does release it.
LockOfWorker ==
  /\ held \in {0, 1}
  /\ held = 1 => usesWakeLock /\ \E t \in Thread : pc[t] \notin {"off", "crashed"}

\* The inductive invariant of the proofs in AsyncPlayerProofs.
IInv ==
  /\ TypeOK
  /\ SingleWorker
  /\ WorkHasWorker
  /\ NeverTakesFromEmpty
  /\ NewestAgrees
  /\ LeavesEmpty
  /\ LockOfWorker

-----------------------------------------------------------------------------
(* The commands not yet carried out, the one in the worker's hands first.  *)
InHand ==
  IF mThread # NoThread /\ pc[mThread] = "exec" THEN <<cmd[mThread]>> ELSE <<>>

Ring == INSTANCE RingRequests
          WITH pending <- InHand \o mCmdQueue,
               wanted <- mState = "PLAY",
               sounding <- mPlayer

\* The player, with its threads and locks, keeps the promise of RingRequests:
\* every request takes effect once, in the order of the requests.
RequestsInOrder == Ring!Spec

-----------------------------------------------------------------------------
(* What the code asserts, and does not ensure: TLC refutes it on the       *)
(* instance that checks the properties above.                              *)

\* setUsesWakeLock refuses to set the wake lock up while a worker runs, who
\* would release what it has not acquired ("assertion failed mWakeLock=...
\* mThread=..."): no worker ends in an exception.
NoWorkerCrashes == \A t \in Thread : pc[t] # "crashed"

=============================================================================
