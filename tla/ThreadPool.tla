----------------------------- MODULE ThreadPool -----------------------------
(***************************************************************************)
(* The thread pool of the software encoder, x264_threadpool_t in           *)
(* common/threadpool.c, with the synchronised lists of common/frame.c it   *)
(* is made of.                                                             *)
(*                                                                         *)
(* One thread, the caller, hands jobs to the pool and waits for them; the  *)
(* pool's threads take them in order.  A job travels from the list uninit  *)
(* to run, to a thread, to done and back to uninit.  The three lists have  *)
(* room for one job per thread.  A push to a full list would sleep on      *)
(* cv_empty, and nothing ever wakes such a sleeper: the pool removes jobs  *)
(* from run and done without x264_sync_frame_list_pop, the only function   *)
(* that broadcasts cv_empty.  Here a push to a full list is not enabled,   *)
(* for ever; NeverFull says that it does not come to that.                 *)
(*                                                                         *)
(* A broadcast of cv_fill follows the unlock; it is one step with the push *)
(* here, for a thread that slips in between finds the list as it is after  *)
(* the broadcast.                                                          *)
(***************************************************************************)
EXTENDS Naturals, Sequences, FiniteSets, SequencesExt

CONSTANTS
  Worker,  \* the threads of the pool
  Arg,     \* what jobs are named by: their arguments
  NoArg    \* no job

ASSUME PoolAssumption ==
  /\ IsFiniteSet(Worker) /\ Worker # {}
  /\ NoArg \notin Arg

VARIABLES
  uninit,  \* the number of jobs in the list uninit
  run,     \* the arguments of the jobs in the list run
  done,    \* the arguments of the jobs in the list done
  wk,      \* where each thread of the pool is
  cur,     \* the argument of the job it has
  caller,  \* where the calling thread is
  carg,    \* the argument of the job the caller hands over or waits for
  exit     \* pool->exit

poolVars == <<uninit, run, done, wk, cur, caller, carg, exit>>

Threads == Cardinality(Worker)

PoolTypeOK ==
  /\ uninit \in Nat
  /\ run \in Seq(Arg)
  /\ done \in Seq(Arg)
  /\ wk \in [Worker -> {"top", "look", "asleep", "work", "push", "gone"}]
  /\ cur \in [Worker -> Arg \cup {NoArg}]
  /\ caller \in {"out", "push", "look", "asleep", "return", "join", "freed"}
  /\ carg \in Arg \cup {NoArg}
  /\ exit \in BOOLEAN

PoolInit ==
  /\ uninit = Threads
  /\ run = <<>>
  /\ done = <<>>
  /\ wk = [w \in Worker |-> "top"]
  /\ cur = [w \in Worker |-> NoArg]
  /\ caller = "out"
  /\ carg = NoArg
  /\ exit = FALSE

\* Broadcast on run.cv_fill.
Awakened == [w \in Worker |-> IF wk[w] = "asleep" THEN "look" ELSE wk[w]]

-----------------------------------------------------------------------------
(* The calling thread.                                                     *)

\* x264_threadpool_run: take a job from uninit ...
\* (Mutant: and leave it there.)
PopUninitLeaving(a) ==
  /\ caller = "out" /\ ~exit
  /\ uninit > 0
  /\ caller' = "push"
  /\ carg' = a
  /\ UNCHANGED <<uninit, run, done, wk, cur, exit>>

PopUninit(a) ==
  /\ caller = "out" /\ ~exit
  /\ uninit > 0
  /\ uninit' = uninit - 1
  /\ caller' = "push"
  /\ carg' = a
  /\ UNCHANGED <<run, done, wk, cur, exit>>

\* ... and push it on run.
PushRun ==
  /\ caller = "push"
  /\ Len(run) < Threads
  /\ run' = Append(run, carg)
  /\ wk' = Awakened
  /\ caller' = "out"
  /\ carg' = NoArg
  /\ UNCHANGED <<uninit, done, cur, exit>>

\* x264_threadpool_wait.
BeginWait(a) ==
  /\ caller = "out" /\ ~exit
  /\ caller' = "look"
  /\ carg' = a
  /\ UNCHANGED <<uninit, run, done, wk, cur, exit>>

SleepDone ==
  /\ caller = "look"
  /\ carg \notin ToSet(done)
  /\ caller' = "asleep"
  /\ UNCHANGED <<uninit, run, done, wk, cur, carg, exit>>

FindDone ==
  /\ caller = "look"
  /\ \E i \in DOMAIN done :
       /\ done[i] = carg
       /\ \A j \in 1 .. (i - 1) : done[j] # carg
       /\ done' = RemoveAt(done, i)
  /\ caller' = "return"
  /\ UNCHANGED <<uninit, run, wk, cur, carg, exit>>

PushUninit ==
  /\ caller = "return"
  /\ uninit < Threads
  /\ uninit' = uninit + 1
  /\ caller' = "out"
  /\ carg' = NoArg
  /\ UNCHANGED <<run, done, wk, cur, exit>>

\* x264_threadpool_delete: tell the threads, join them, free the lists.
\* (Mutant: without the broadcast.)
DeleteQuietly ==
  /\ caller = "out" /\ ~exit
  /\ exit' = TRUE
  /\ caller' = "join"
  /\ UNCHANGED <<uninit, run, done, wk, cur, carg>>

Delete ==
  /\ caller = "out" /\ ~exit
  /\ exit' = TRUE
  /\ wk' = Awakened
  /\ caller' = "join"
  /\ UNCHANGED <<uninit, run, done, cur, carg>>

Joined ==
  /\ caller = "join"
  /\ \A w \in Worker : wk[w] = "gone"
  /\ caller' = "freed"
  /\ uninit' = 0
  /\ run' = <<>>
  /\ done' = <<>>
  /\ UNCHANGED <<wk, cur, carg, exit>>

\* x264_threadpool_init, for the next encoder.
Create ==
  /\ caller = "freed"
  /\ uninit' = Threads
  /\ wk' = [w \in Worker |-> "top"]
  /\ caller' = "out"
  /\ exit' = FALSE
  /\ UNCHANGED <<run, done, cur, carg>>

-----------------------------------------------------------------------------
(* A thread of the pool: x264_threadpool_thread.                           *)

\* The test at the top of the loop, without a lock.
Top(w) ==
  /\ wk[w] = "top"
  /\ wk' = [wk EXCEPT ![w] = IF exit THEN "gone" ELSE "look"]
  /\ UNCHANGED <<uninit, run, done, cur, caller, carg, exit>>

\* With the lock of run: sleep, or take the first job, or go back to the top.
Sleep(w) ==
  /\ wk[w] = "look"
  /\ ~exit /\ run = <<>>
  /\ wk' = [wk EXCEPT ![w] = "asleep"]
  /\ UNCHANGED <<uninit, run, done, cur, caller, carg, exit>>

Take(w) ==
  /\ wk[w] = "look"
  /\ run # <<>>
  /\ cur' = [cur EXCEPT ![w] = Head(run)]
  /\ run' = Tail(run)
  /\ wk' = [wk EXCEPT ![w] = "work"]
  /\ UNCHANGED <<uninit, done, caller, carg, exit>>

NoJob(w) ==
  /\ wk[w] = "look"
  /\ exit /\ run = <<>>
  /\ wk' = [wk EXCEPT ![w] = "top"]
  /\ UNCHANGED <<uninit, run, done, cur, caller, carg, exit>>

\* job->func returns ...
FinishWork(w) ==
  /\ wk[w] = "work"
  /\ wk' = [wk EXCEPT ![w] = "push"]
  /\ UNCHANGED <<uninit, run, done, cur, caller, carg, exit>>

\* ... and the job is pushed on done, which wakes a waiting caller.
PushDone(w) ==
  /\ wk[w] = "push"
  /\ Len(done) < Threads
  /\ done' = Append(done, cur[w])
  /\ caller' = IF caller = "asleep" THEN "look" ELSE caller
  /\ wk' = [wk EXCEPT ![w] = "top"]
  /\ cur' = [cur EXCEPT ![w] = NoArg]
  /\ UNCHANGED <<uninit, run, carg, exit>>

\* The steps of a thread but for the job's own.
Loop(w) == Top(w) \/ Sleep(w) \/ Take(w) \/ NoJob(w) \/ PushDone(w)

PoolNext ==
  \/ \E a \in Arg : PopUninit(a) \/ BeginWait(a)
  \/ PushRun \/ SleepDone \/ FindDone \/ PushUninit
  \/ Delete \/ Joined \/ Create
  \/ \E w \in Worker : Loop(w) \/ FinishWork(w)

PoolSpec == PoolInit /\ [][PoolNext]_poolVars

-----------------------------------------------------------------------------
(* Properties.                                                             *)

\* No push ever meets a full list, where it would sleep for good: this is
\* what makes the missing broadcasts of cv_empty harmless.
NeverFull ==
  /\ caller = "push" => Len(run) < Threads
  /\ caller = "return" => uninit < Threads
  /\ \A w \in Worker : wk[w] = "push" => Len(done) < Threads

(***************************************************************************)
(* Why: jobs are conserved.  Each of the Threads jobs of the pool is in    *)
(* one of the lists, with the caller or with a thread, as long as there is *)
(* a pool; and when there is none, no thread is left to touch its lists.   *)
(***************************************************************************)
Busy == {w \in Worker : wk[w] \in {"work", "push"}}
InHand == IF caller \in {"push", "return"} THEN 1 ELSE 0

Conserved ==
  caller # "freed" =>
    uninit + Len(run) + Cardinality(Busy) + Len(done) + InHand = Threads

BusyHasJob == \A w \in Worker : w \in Busy => cur[w] \in Arg
CallerHasJob == caller \in {"push", "look", "asleep", "return"} => carg \in Arg
FreedIsIdle ==
  caller = "freed" => run = <<>> /\ done = <<>> /\ \A w \in Worker : wk[w] = "gone"

PoolInv == PoolTypeOK /\ Conserved /\ BusyHasJob /\ CallerHasJob /\ FreedIsIdle

(***************************************************************************)
(* No two jobs in the pool have the same argument, if the caller hands     *)
(* over no argument that is still in the pool.                             *)
(***************************************************************************)
Placed == ToSet(run) \cup ToSet(done) \cup {cur[w] : w \in Busy}

JobsApart ==
  /\ IsInjective(run) /\ IsInjective(done)
  /\ ToSet(run) \cap ToSet(done) = {}
  /\ \A v, w \in Busy : cur[v] = cur[w] => v = w
  /\ \A w \in Busy : cur[w] \notin ToSet(run) \cup ToSet(done)
  /\ caller \in {"push", "return"} => carg \notin Placed

=============================================================================
