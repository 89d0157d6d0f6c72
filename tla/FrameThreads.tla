---------------------------- MODULE FrameThreads ----------------------------
(***************************************************************************)
(* Frame threading in the software encoder: x264_encoder_encode,           *)
(* x264_encoder_frame_end and x264_slices_write in encoder/encoder.c with  *)
(* the picture lists of common/frame.c, in the configuration libenc.cc     *)
(* opens it: no B pictures, no lookahead thread, no sliced threads, no     *)
(* open GOP, no weighted prediction, one slice a picture, and more than    *)
(* one thread.                                                             *)
(*                                                                         *)
(* Every picture is coded by a context, h->thread[t], whose job a thread   *)
(* of the pool runs.  The call that codes picture n starts its job and     *)
(* waits for the job of picture n - Threads + 1.  Jobs run at the same     *)
(* time although a picture is predicted from those before it: a job that   *)
(* codes a row waits until the rows it may look at have been published by  *)
(* the jobs of its reference pictures (i_lines_completed).  Buffers are    *)
(* shared between contexts, counted (i_reference_count) and used again     *)
(* when the count is zero.  Only the calling thread touches counts and     *)
(* lists, between its calls of the pool, so what it does there is one step.*)
(*                                                                         *)
(* A row is 16 lines.  Since a picture decoder is not part of the program, *)
(* dpb and sent stand for the decoder at the other end: what has been sent *)
(* to it and which pictures it keeps.  The field pic of a buffer and of an *)
(* entry of fref is history: which picture is (meant to be) in it.         *)
(***************************************************************************)
EXTENDS ThreadPool, Integers

CONSTANTS
  Rows,         \* the height of a picture, h->mb.i_mb_height
  MeRange,      \* param.analyse.i_me_range
  MvRange,      \* param.analyse.i_mv_range
  Keyint,       \* param.i_keyint_max
  KeyintMin,    \* param.i_keyint_min
  NumRefs,      \* sps->i_num_ref_frames
  Cuts,         \* the pictures that may begin a new scene
  MaxPictures,  \* bound: the pictures of a session
  MaxFailures,  \* bound: the jobs of a session that fail
  FailRows      \* bound: the rows a job fails before

ASSUME FramesAssumption ==
  /\ Threads > 1 /\ Arg = 0 .. (Threads - 1)
  /\ Rows \in Nat \ {0} /\ MeRange \in Nat /\ MvRange \in Nat
  /\ Keyint \in Nat \ {0} /\ KeyintMin \in 1 .. Keyint
  /\ NumRefs \in 1 .. 16
  /\ MaxPictures \in Nat /\ MaxFailures \in Nat /\ FailRows \subseteq 0 .. Rows

VARIABLES
  phase,     \* thread[0]->i_thread_phase
  ctx,       \* the contexts
  encBufs,   \* the source pictures: [buf, free], free is frames.unused[0]
  decBufs,   \* the reconstructed pictures, free is frames.unused[1]
  input,     \* frames.i_input
  lastKey,   \* lookahead->i_last_keyframe + Keyint
  lastNonb,  \* lookahead->last_nonb: a source picture, 0 is NULL
  call,      \* where x264_encoder_encode is
  closing,   \* closeSoftEncoder has been called
  failures,  \* history: how many jobs have failed
  sent,      \* history: the last picture that came out
  dpb        \* history: the pictures the decoder keeps, the oldest first

frameVars == <<phase, ctx, encBufs, decBufs, input, lastKey, lastNonb, call,
               closing, failures, sent, dpb>>
vars == <<frameVars, poolVars>>

THREAD_HEIGHT == 24
NoPicture == [pic |-> -1, source |-> -1, type |-> "none", refs |-> <<>>]

-----------------------------------------------------------------------------
(* Lists of buffers: x264_frame_pop_unused, x264_frame_push_unused.        *)
(* A buffer is named by its place in buf.                                  *)

\* x264_frame_push_unused for one buffer, and for a sequence of them.  (Not
\* with EXCEPT: TLC loses it when it appends to a function not yet evaluated.)
Release(l, b) ==
  [buf  |-> [c \in DOMAIN l.buf |-> IF c = b THEN [l.buf[c] EXCEPT !.count = @ - 1]
                                    ELSE l.buf[c]],
   free |-> IF l.buf[b].count = 1 THEN Append(l.free, b) ELSE l.free]

\* How often b is among the first n of bs, and the k-th of a set of numbers.
Times(bs, n, b) == Cardinality({i \in 1 .. n : bs[i] = b})
Nth(S, k) == CHOOSE i \in S : Cardinality({j \in S : j <= i}) = k

ReleaseAll(l, bs) ==
  LET zero == {i \in DOMAIN bs : l.buf[bs[i]].count = Times(bs, i, bs[i])}
  IN [buf  |-> [b \in DOMAIN l.buf |->
                  [l.buf[b] EXCEPT !.count = @ - Times(bs, Len(bs), b)]],
      free |-> l.free \o [k \in 1 .. Cardinality(zero) |-> bs[Nth(zero, k)]]]

Hold(l, b)     == [l EXCEPT !.buf[b].count = @ + 1]
HoldAll(l, bs) ==
  [l EXCEPT !.buf = [b \in DOMAIN l.buf |->
                       [l.buf[b] EXCEPT !.count = @ + Times(bs, Len(bs), b)]]]

\* The buffer x264_frame_pop_unused gives, and the lists with it filled anew.
Popped(l) == IF l.free = <<>> THEN Len(l.buf) + 1 ELSE Last(l.free)
Pop(l, new) ==
  IF l.free = <<>> THEN [l EXCEPT !.buf = Append(@, new)]
  ELSE [buf |-> [l.buf EXCEPT ![Last(l.free)] = new], free |-> Front(l.free)]

\* lines: i_lines_completed; final: the lines whose samples are final.
NewDec(pic, kept) ==
  [count |-> 1, pic |-> pic, kept |-> kept, lines |-> -1, final |-> 0]

-----------------------------------------------------------------------------
Context(fdec) ==
  [fdec |-> fdec, ref |-> <<>>, fenc |-> 0, type |-> "none", fref |-> <<>>,
   active |-> FALSE,    \* b_thread_active
   nal    |-> FALSE,    \* out.i_nal is not 0
   row    |-> 0,        \* the row its job is at, and where in the row
   at     |-> "await",  \* "await", "code" or "publish"
   failed |-> FALSE]    \* what the job returned

NewCtx     == [t \in Arg |-> Context(t + 1)]
NewEncBufs == [buf |-> <<>>, free |-> <<>>]
NewDecBufs == [buf |-> [b \in 1 .. Threads |-> NewDec(-1, FALSE)], free |-> <<>>]

\* x264_encoder_open.
Init ==
  /\ PoolInit
  /\ phase = 0
  /\ ctx = NewCtx /\ encBufs = NewEncBufs /\ decBufs = NewDecBufs
  /\ input = 0 /\ lastKey = 0 /\ lastNonb = 0
  /\ call = "none" /\ closing = FALSE
  /\ failures = 0 /\ sent = NoPicture /\ dpb = <<>>

Next1(t)  == (t + 1) % Threads
\* Mutant: the context after the oldest one.
OldestBut1 == Next1(Next1(phase))
Oldest    == Next1(phase)

\* x264_validate_parameters: i_mv_range_thread, how far below its own row a
\* job may look.
MvRangeThread ==
  LET space == ((16 * Rows + THREAD_HEIGHT) \div Threads) - THREAD_HEIGHT
      half  == IF space > 0 THEN space \div 2 ELSE 0
      most  == IF half > MeRange THEN half ELSE MeRange
      r     == IF most < MvRange THEN most ELSE MvRange
      r2    == 16 * (r \div 16) + 8
  IN IF r2 < r THEN r2 + 16 ELSE r2

-----------------------------------------------------------------------------
(* The calling thread.                                                     *)

\* x264_thread_sync_context: dst gets the references and pictures of src.
\* (Mutant: the picture src has filled is not counted.)
SyncBufsUncounted(dst, src) ==
  ReleaseAll(HoldAll(decBufs, ctx[src].ref), Append(ctx[dst].ref, ctx[dst].fdec))

SyncBufs(dst, src) ==
  LET held == HoldAll(decBufs, Append(ctx[src].ref, ctx[src].fdec))
  IN ReleaseAll(held, Append(ctx[dst].ref, ctx[dst].fdec))

Synced(dst, src) ==
  [ctx[dst] EXCEPT !.ref = ctx[src].ref, !.fdec = ctx[src].fdec,
                   !.fenc = ctx[src].fenc, !.type = ctx[src].type,
                   !.fref = ctx[src].fref]

\* x264_reference_update: the last reconstructed picture becomes a
\* reference, and there is a new one to fill.
Updated(l, c, pic) ==
  LET refs == Append(c.ref, c.fdec)
      keep == Len(refs) <= NumRefs
      l1   == IF ~l.buf[c.fdec].kept THEN Release(l, c.fdec)
              ELSE IF keep THEN l ELSE Release(l, Head(refs))
      ref1 == IF ~l.buf[c.fdec].kept THEN c.ref
              ELSE IF keep THEN refs ELSE Tail(refs)
  IN [bufs |-> Pop(l1, NewDec(pic, Keyint > 1)), fdec |-> Popped(l1),
      ref |-> ref1]

\* x264_reference_build_list: the references, the latest first.
RefList(type, ref, bufs) ==
  IF type # "P" THEN <<>>
  ELSE [i \in DOMAIN ref |->
          LET b == Reverse(ref)[i] IN [buf |-> b, pic |-> bufs.buf[b].pic]]

\* x264_slicetype_decide for one picture: what the scene cut test says, the
\* limit on the distance between key frames, and P for what is left.
Decided(n, cut) ==
  LET gap == n + Keyint - lastKey IN
  IF gap >= Keyint \/ (cut /\ gap >= KeyintMin) THEN "IDR"
  ELSE IF cut THEN "I" ELSE "P"

\* x264_encoder_encode with a picture, up to the call of the pool.
Encode(cut) ==
  LET t     == Next1(phase)
      n     == input
      enc1  == Pop(encBufs, [count |-> 1, pic |-> n])
      fenc  == Popped(encBufs)
      kind  == Decided(n, cut)
      enc2  == IF lastNonb = 0 THEN enc1 ELSE Release(enc1, lastNonb)
      u     == Updated(SyncBufs(t, phase), Synced(t, phase), n)
      type  == IF kind = "P" /\ u.ref = <<>> THEN "IDR" ELSE kind
      ref   == IF type = "IDR" THEN <<>> ELSE u.ref
  IN /\ call = "none" /\ ~closing /\ n < MaxPictures
     /\ PopUninit(t)
     /\ phase' = t
     /\ encBufs' = Hold(enc2, fenc)
     /\ lastNonb' = fenc
     /\ lastKey' = IF kind = "IDR" THEN n + Keyint ELSE lastKey
     /\ decBufs' = IF type = "IDR" THEN ReleaseAll(u.bufs, Reverse(u.ref))
                   ELSE u.bufs
     /\ ctx' = [ctx EXCEPT ![t] =
                  [@ EXCEPT !.fdec = u.fdec, !.ref = ref, !.fenc = fenc,
                            !.type = type, !.fref = RefList(type, ref, u.bufs), !.nal = FALSE,
                            !.row = 0, !.at = "await", !.failed = FALSE]]
     /\ input' = n + 1
     /\ call' = "run"
     /\ UNCHANGED <<closing, failures, sent, dpb>>

\* x264_threadpool_run puts the job in the list.
Queue ==
  /\ call = "run"
  /\ PushRun
  /\ ctx' = [ctx EXCEPT ![phase].active = TRUE]
  /\ call' = "end"
  /\ UNCHANGED <<phase, encBufs, decBufs, input, lastKey, lastNonb, closing,
                 failures, sent, dpb>>

\* x264_encoder_frame_end: wait for the job of the oldest context ...
WaitOldest ==
  /\ call = "end"
  /\ ctx[Oldest].active
  /\ BeginWait(Oldest)
  /\ ctx' = [ctx EXCEPT ![Oldest].active = FALSE]
  /\ call' = "wait"
  /\ UNCHANGED <<phase, encBufs, decBufs, input, lastKey, lastNonb, closing,
                 failures, sent, dpb>>

\* The decoder keeps the last NumRefs reference pictures since the last IDR.
Decode(kind, pic) ==
  IF kind = "IDR" THEN <<pic>>
  ELSE LET all == Append(dpb, pic)
       IN IF Len(all) > NumRefs THEN Tail(all) ELSE all

\* ... and give out its picture, or nothing.
\* (Mutant: the picture of the current context under the header of the oldest.)
OutputCurrent(c) ==
  LET pic == decBufs.buf[ctx[phase].fdec].pic IN
  /\ sent' = [pic |-> pic, source |-> encBufs.buf[c.fenc].pic, type |-> c.type,
              refs |-> [i \in DOMAIN c.fref |-> c.fref[i].pic]]
  /\ dpb' = Decode(c.type, pic)
  /\ encBufs' = Release(encBufs, c.fenc)

Output(c) ==
  LET pic == decBufs.buf[c.fdec].pic IN
  /\ sent' = [pic |-> pic, source |-> encBufs.buf[c.fenc].pic, type |-> c.type,
              refs |-> [i \in DOMAIN c.fref |-> c.fref[i].pic]]
  /\ dpb' = Decode(c.type, pic)
  /\ encBufs' = Release(encBufs, c.fenc)

\* (Mutant: whether its job has been waited for or not.)
FrameEndAnyhow ==
  LET c == ctx[Oldest] IN
  /\ \/ call = "wait" /\ PushUninit
     \/ call = "end" /\ UNCHANGED poolVars
  /\ IF c.failed \/ ~c.nal THEN UNCHANGED <<sent, dpb, encBufs, ctx>>
     ELSE Output(c) /\ ctx' = [ctx EXCEPT ![Oldest].nal = FALSE]
  /\ call' = "none"
  /\ UNCHANGED <<phase, decBufs, input, lastKey, lastNonb, closing, failures>>

FrameEnd ==
  LET c == ctx[Oldest] IN
  /\ \/ call = "wait" /\ PushUninit
     \/ call = "end" /\ ~c.active /\ UNCHANGED poolVars
  /\ IF c.failed \/ ~c.nal THEN UNCHANGED <<sent, dpb, encBufs, ctx>>
     ELSE Output(c) /\ ctx' = [ctx EXCEPT ![Oldest].nal = FALSE]
  /\ call' = "none"
  /\ UNCHANGED <<phase, decBufs, input, lastKey, lastNonb, closing, failures>>

\* The caller waits in x264_threadpool_wait.
Waiting == (SleepDone \/ FindDone) /\ UNCHANGED frameVars

-----------------------------------------------------------------------------
(* closeSoftEncoder: take out what is inside, then x264_encoder_close.     *)

DelayedFrames == Cardinality({t \in Arg : ctx[t].active})

BeginClose ==
  /\ call = "none" /\ ~closing
  /\ closing' = TRUE
  /\ UNCHANGED <<phase, ctx, encBufs, decBufs, input, lastKey, lastNonb, call,
                 failures, sent, dpb>>
  /\ UNCHANGED poolVars

\* x264_encoder_encode without a picture.
Flush ==
  LET t == Next1(phase) IN
  /\ call = "none" /\ closing
  /\ DelayedFrames > 0
  /\ phase' = t
  /\ decBufs' = SyncBufs(t, phase)
  /\ ctx' = [ctx EXCEPT ![t] = Synced(t, phase)]
  /\ call' = "end"
  /\ UNCHANGED <<encBufs, input, lastKey, lastNonb, closing, failures, sent, dpb>>
  /\ UNCHANGED poolVars

\* x264_lookahead_delete and x264_threadpool_delete.
DeletePool ==
  /\ call = "none" /\ closing
  /\ DelayedFrames = 0
  /\ Delete
  /\ encBufs' = IF lastNonb = 0 THEN encBufs ELSE Release(encBufs, lastNonb)
  /\ lastNonb' = 0
  /\ UNCHANGED <<phase, ctx, decBufs, input, lastKey, call, closing, failures,
                 sent, dpb>>

JoinPool == Joined /\ UNCHANGED frameVars

\* openSoftEncoder again.
Reopen ==
  /\ Create
  /\ phase' = 0
  /\ ctx' = NewCtx /\ encBufs' = NewEncBufs /\ decBufs' = NewDecBufs
  /\ input' = 0 /\ lastKey' = 0 /\ closing' = FALSE
  /\ failures' = 0 /\ sent' = NoPicture /\ dpb' = <<>>
  /\ UNCHANGED <<lastNonb, call>>

-----------------------------------------------------------------------------
(* A job: x264_slices_write, x264_slice_write.                             *)

\* Thread w runs the job of context t and is at p.
At(w, t, p) == wk[w] = "work" /\ cur[w] = t /\ ctx[t].at = p

JobSteps == UNCHANGED <<phase, encBufs, input, lastKey, lastNonb, call,
                        closing, sent, dpb>>

\* x264_mb_analyse_init at the first macroblock of a row: wait for the lines
\* the row may look at, in every reference picture.  x264_frame_cond_wait
\* tests and sleeps with the mutex the lines are published under.
Await(w, t) ==
  /\ At(w, t, "await")
  /\ \A i \in DOMAIN ctx[t].fref :
       decBufs.buf[ctx[t].fref[i].buf].lines >= 16 * ctx[t].row + MvRangeThread
  /\ ctx' = [ctx EXCEPT ![t].at = "code"]
  /\ UNCHANGED decBufs /\ UNCHANGED failures /\ JobSteps /\ UNCHANGED poolVars

\* How many lines are final when k rows have been coded; AllLines is more
\* than a job can ask for.
AllLines == 16 * Rows + 20000
FinalLines(k) == CASE k = Rows -> AllLines [] k = 0 -> 0 [] OTHER -> 16 * k - 8

\* The macroblocks of the row are coded, and x264_fdec_filter_row deblocks
\* and interpolates it and the rows above, except the last lines, which the
\* next row still changes or needs.  After the last row there is a NAL.
CodeRow(w, t) ==
  LET k == ctx[t].row + 1 IN
  /\ At(w, t, "code")
  /\ ctx' = [ctx EXCEPT ![t].at = "publish", ![t].row = k, ![t].nal = (k = Rows)]
  /\ decBufs' = [decBufs EXCEPT !.buf[ctx[t].fdec].final = FinalLines(k)]
  /\ UNCHANGED failures /\ JobSteps /\ UNCHANGED poolVars

\* The end of x264_fdec_filter_row, x264_frame_cond_broadcast; after the
\* last row the job returns.
\* (Mutant: the last lines are not kept back.)
PublishAll(w, t) ==
  LET k == ctx[t].row IN
  /\ At(w, t, "publish")
  /\ decBufs' = [decBufs EXCEPT !.buf[ctx[t].fdec].lines =
                   16 * k + IF k = Rows THEN 10000 ELSE 0]
  /\ IF k = Rows THEN FinishWork(w) ELSE UNCHANGED poolVars
  /\ ctx' = [ctx EXCEPT ![t].at = "await"]
  /\ UNCHANGED failures /\ JobSteps

Publish(w, t) ==
  LET k == ctx[t].row
      b == ctx[t].fdec
  IN /\ At(w, t, "publish")
     /\ decBufs' = IF ~decBufs.buf[b].kept THEN decBufs
                   ELSE [decBufs EXCEPT !.buf[b].lines =
                           16 * k + IF k = Rows THEN 10000 ELSE -THREAD_HEIGHT]
     /\ IF k = Rows THEN FinishWork(w) ELSE UNCHANGED poolVars
     /\ ctx' = [ctx EXCEPT ![t].at = "await"]
     /\ UNCHANGED failures /\ JobSteps

\* There is no memory for a longer bitstream when the job comes to a row
\* (x264_bitstream_check_buffer).  With frame threads nobody is told.
Fail(w, t) ==
  /\ \/ At(w, t, "await") /\ ctx[t].row = 0 /\ 0 \in FailRows
     \/ At(w, t, "code") /\ ctx[t].row + 1 \in FailRows
  /\ failures < MaxFailures
  /\ FinishWork(w)
  /\ ctx' = [ctx EXCEPT ![t].failed = TRUE]
  /\ failures' = failures + 1
  /\ UNCHANGED decBufs /\ JobSteps

Job(w) == \E t \in Arg : Await(w, t) \/ CodeRow(w, t) \/ Publish(w, t)

PoolThread(w) == Loop(w) /\ UNCHANGED frameVars

InCall == Queue \/ WaitOldest \/ Waiting \/ FrameEnd \/ Flush \/ DeletePool \/ JoinPool

Next ==
  \/ \E cut \in BOOLEAN : (cut => input \in Cuts) /\ Encode(cut)
  \/ Queue \/ WaitOldest \/ Waiting \/ FrameEnd
  \/ BeginClose \/ Flush \/ DeletePool \/ JoinPool \/ Reopen
  \/ \E w \in Worker :
       \/ PoolThread(w)
       \/ \E t \in Arg : \/ Await(w, t) \/ CodeRow(w, t) \/ Publish(w, t)
                         \/ Fail(w, t)

Spec == Init /\ [][Next]_vars

\* A call that has begun goes on, and so do the threads.
FairSpec ==
  /\ Spec
  /\ WF_vars(InCall)
  /\ \A w \in Worker : WF_vars(PoolThread(w)) /\ WF_vars(Job(w))

-----------------------------------------------------------------------------
(* Properties.                                                             *)

(***************************************************************************)
(* A job that codes a row finds, in the buffer of every reference picture, *)
(* that picture and no other, with final samples down to the last line a   *)
(* motion vector of the row can reach.  x264_mb_analyse_init waits for     *)
(* i_lines_completed once a row; the rest is up to the counts of the       *)
(* buffers and to the lines x264_fdec_filter_row keeps back.               *)
(***************************************************************************)
RefsReady ==
  \A w \in Worker : \A t \in Arg : At(w, t, "code") =>
    \A i \in DOMAIN ctx[t].fref :
      LET ref == ctx[t].fref[i]
          b   == decBufs.buf[ref.buf]
      IN b.pic = ref.pic /\ b.final > 16 * ctx[t].row + 15 + MvRangeThread

\* The pictures whose jobs were started and not yet waited for.
InPipe(t) == \/ ctx[t].active
             \/ t = phase /\ call = "run"
             \/ t = Oldest /\ call = "wait"

\* The NULL-terminated arrays of x264_encoder_open hold their lists.
ListsFit ==
  /\ Len(encBufs.free) < Threads - 1 + 3
  /\ Len(decBufs.free) < Threads + 16 + 4
  /\ \A t \in Arg : Len(ctx[t].ref) <= NumRefs

Holders(b) == Cardinality({t \in Arg : ctx[t].fdec = b})
              + Cardinality({t \in Arg : b \in ToSet(ctx[t].ref)})
SourceHolders(b) == Cardinality({t \in Arg : InPipe(t) /\ ctx[t].fenc = b})
                    + (IF lastNonb = b THEN 1 ELSE 0)

(***************************************************************************)
(* The reference counts are right: a buffer's count is the number of       *)
(* contexts that may still use it, and the buffers to be used again are    *)
(* those nobody uses, each once.  (A source picture whose job failed is    *)
(* never given back.)                                                      *)
(***************************************************************************)
CountsHold ==
  /\ ListsFit
  /\ \A b \in DOMAIN decBufs.buf : decBufs.buf[b].count = Holders(b)
  /\ failures = 0 => \A b \in DOMAIN encBufs.buf : encBufs.buf[b].count = SourceHolders(b)
  /\ \A l \in {decBufs, encBufs} :
       /\ IsInjective(l.free)
       /\ ToSet(l.free) = {b \in DOMAIN l.buf : l.buf[b].count = 0}

(***************************************************************************)
(* What comes out of the encoder can be decoded: a predicted picture       *)
(* refers to the latest of the pictures the decoder has kept from what was *)
(* sent before, in the decoder's order, and the samples are those of its   *)
(* own source.  Failed jobs do not change this: a picture predicted from a *)
(* lost one does not come out.                                             *)
(***************************************************************************)
DecoderHasRefs ==
  [][sent' # sent /\ sent' # NoPicture =>
       /\ sent'.pic = sent'.source
       /\ sent'.refs # <<>> \/ sent'.type # "P"
       /\ IsPrefix(sent'.refs, Reverse(dpb))]_vars

\* The pictures in the encoder, the oldest first: the last that were put in.
\* (That they are the ones in the buffers of the contexts is PicturesInOrder.)
Depth  == Cardinality({t \in Arg : InPipe(t)})
Inside == [i \in 1 .. Depth |-> input - Depth + i - 1]

Pipe == INSTANCE EncoderPipe WITH
  Depth <- Threads, inside <- Inside, last <- sent.source + 1, open <- ~closing

\* Frame threading implements the pipe: pictures come out in the order they
\* went in, Threads - 1 calls later, and closing takes out all of them.
PipeRefined == Pipe!PipeSpec

(***************************************************************************)
(* Why.  A context is used again when its job has been waited for, so the  *)
(* pool has one job of each context in the pipe and none of the others;    *)
(* the contexts are used in turn, so those in the pipe are the last ones,  *)
(* and the pictures in their buffers, which are held until they come out,  *)
(* are numbered in the order of their age.                                 *)
(***************************************************************************)
OneJobEach ==
  /\ JobsApart
  /\ \A t \in Placed : ctx[t].active \/ (call = "wait" /\ t = Oldest)

\* What the caller does in the pool, and which contexts are in use then.
InStep ==
  /\ call = "run"  => caller = "push" /\ carg = phase
  /\ call = "end"  => caller = "out"
  /\ call = "wait" => /\ caller \in {"look", "asleep", "return"}
                      /\ carg = Oldest /\ ~ctx[Oldest].active
  /\ call = "none" => caller \in {"out", "join", "freed"} /\ ~ctx[Oldest].active
  /\ caller \in {"join", "freed"} =>
       closing /\ lastNonb = 0 /\ \A t \in Arg : ~ctx[t].active
  /\ \A t \in Arg : ctx[t].nal => InPipe(t) \/ ctx[t].failed

\* A source picture is held by the context that codes it and as lastNonb, and
\* only free buffers are filled anew.
SourcesHeld ==
  LET buf  == encBufs.buf
      free == encBufs.free
  IN /\ \A t \in Arg : InPipe(t) =>
          /\ ctx[t].fenc \in DOMAIN buf
          /\ buf[ctx[t].fenc].count >= IF ctx[t].fenc = lastNonb THEN 2 ELSE 1
     /\ lastNonb # 0 => lastNonb \in DOMAIN buf /\ buf[lastNonb].count >= 1
     /\ IsInjective(free)
     /\ ToSet(free) = {b \in DOMAIN buf : buf[b].count = 0}

\* How many pictures ago context t was used, and the picture it codes.
Age(t) == IF t <= phase THEN phase - t ELSE phase + Threads - t
Num(t) == encBufs.buf[ctx[t].fenc].pic

PicturesInOrder ==
  /\ \A t \in Arg : InPipe(t) => Num(t) \in (input - Depth) .. (input - 1)
  /\ \A n \in (input - Depth) .. (input - 1) : \E t \in Arg : InPipe(t) /\ Num(t) = n
  /\ \A t, u \in Arg : InPipe(t) /\ InPipe(u) /\ Age(u) < Age(t) => Num(t) < Num(u)
  /\ ~closing => \A t, u \in Arg : InPipe(t) /\ Age(u) < Age(t) => InPipe(u)

Field == {"fdec", "ref", "fenc", "type", "fref", "active", "nal", "row", "at",
          "failed"}

TypeOK ==
  /\ phase \in Arg
  /\ input \in Nat /\ closing \in BOOLEAN /\ call \in {"none", "run", "end", "wait"}
  /\ DOMAIN ctx = Arg
  /\ \A t \in Arg : /\ DOMAIN ctx[t] = Field
                    /\ ctx[t].active \in BOOLEAN /\ ctx[t].nal \in BOOLEAN
                    /\ ctx[t].failed \in BOOLEAN
  /\ encBufs \in [buf : Seq([count : Nat, pic : Nat]), free : Seq(Nat)]
  /\ lastNonb \in Nat

\* The inductive invariant behind PipeRefined.
IInv ==
  PoolInv /\ TypeOK /\ OneJobEach /\ InStep /\ SourcesHeld /\ PicturesInOrder

(***************************************************************************)
(* Why the counts hold and what a job looks at is there.                   *)
(*                                                                         *)
(* Reconstructed pictures: a context uses the one it fills and those it is *)
(* predicted from.  What the younger contexts refer to, an older one       *)
(* refers to or has been filled since, so there are never more buffers     *)
(* than the oldest references and one for each context.                    *)
(***************************************************************************)
DecBuffer == [count : Nat, pic : Int, kept : BOOLEAN, lines : Int, final : Int]

Used(t) == ToSet(ctx[t].ref) \cup {ctx[t].fdec}

\* The pictures filled since context t was used.
FilledSince(t) == {ctx[v].fdec : v \in {v \in Arg : Age(v) <= Age(t)}}

PicturesShared ==
  /\ decBufs \in [buf : Seq(DecBuffer), free : Seq(Nat)]
  /\ Len(decBufs.buf) <= Threads + NumRefs
  /\ \A t \in Arg :
       /\ ctx[t].ref \in Seq(Nat) /\ IsInjective(ctx[t].ref)
       /\ ctx[t].fdec \notin ToSet(ctx[t].ref)
       /\ Used(t) \subseteq DOMAIN decBufs.buf
       /\ Len(ctx[t].ref) <= NumRefs
  /\ \A b \in DOMAIN decBufs.buf : decBufs.buf[b].count = Holders(b)
  /\ IsInjective(decBufs.free)
  /\ ToSet(decBufs.free) = {b \in DOMAIN decBufs.buf : decBufs.buf[b].count = 0}
  /\ \A t, u \in Arg : Age(u) <= Age(t) =>
       ToSet(ctx[u].ref) \subseteq ToSet(ctx[t].ref) \cup FilledSince(t)

\* Source pictures: the last one is held by its context too, and they come
\* back, unless a job has failed.
SourcesCounted ==
  /\ input = 0 => lastNonb = 0
  /\ input > 0 /\ ~closing => InPipe(phase) /\ lastNonb = ctx[phase].fenc
  /\ Len(encBufs.free) + Depth <= Threads + IF caller \in {"join", "freed"} THEN 1 ELSE 0
  /\ failures = 0 => \A b \in DOMAIN encBufs.buf : encBufs.buf[b].count = SourceHolders(b)

(***************************************************************************)
(* Jobs: how far the job of a context is when it is in the list run, with  *)
(* a thread, and when it has been done.                                    *)
(***************************************************************************)
Ready(t)    == ctx[t].row = 0 /\ ctx[t].at = "await" /\ ~ctx[t].nal /\ ~ctx[t].failed
Running(t)  == ~ctx[t].failed /\ IF ctx[t].at = "publish" THEN ctx[t].row > 0
                                  ELSE ctx[t].row < Rows
Finished(t) == ctx[t].failed \/ ctx[t].nal

JobsRun ==
  /\ call = "run" => Ready(phase)
  /\ \A t \in ToSet(run) : Ready(t)
  /\ \A w \in Worker : /\ wk[w] = "work" => Running(cur[w])
                       /\ wk[w] = "push" => Finished(cur[w])
  /\ \A t \in ToSet(done) : Finished(t)
  /\ caller = "return" => Finished(carg)
  /\ \A t \in Arg : InPipe(t) =>
       /\ ctx[t].row \in 0 .. Rows /\ ctx[t].nal = (ctx[t].row = Rows)
       /\ ctx[t].failed => ~ctx[t].nal
  /\ failures \in Nat /\ \A t \in Arg : ctx[t].failed => failures > 0

\* The pictures in the buffers are those their contexts code, numbered in the
\* order they went in, and the references of each are the ones before it.
PicturesNumbered ==
  LET pic(b) == decBufs.buf[b].pic IN
  /\ \A b, c \in DOMAIN decBufs.buf :
       /\ pic(b) < input
       /\ pic(b) = pic(c) /\ pic(b) >= 0 => b = c
  /\ \A t \in Arg : InPipe(t) =>
       /\ pic(ctx[t].fdec) = Num(t) /\ decBufs.buf[ctx[t].fdec].kept = (Keyint > 1)
       /\ \A i \in DOMAIN ctx[t].ref :
            pic(ctx[t].ref[i]) = Num(t) - Len(ctx[t].ref) + i - 1
  /\ \A t, u \in Arg :
       InPipe(t) /\ InPipe(u) /\ ctx[t].type = "IDR" /\ Num(t) < Num(u) =>
         \A b \in ToSet(ctx[u].ref) : pic(b) >= Num(t)
  /\ input = 0 => \A t \in Arg : ctx[t].ref = <<>> /\ ~decBufs.buf[ctx[t].fdec].kept
  /\ lastKey \in Int /\ lastKey <= input + Keyint - 1 /\ (input = 0 => lastKey = 0)

\* Lines are published after they are final, and a job that has coded a row
\* has seen them final in its references.
LinesFinal ==
  /\ \A b \in DOMAIN decBufs.buf :
       LET l == decBufs.buf[b]
       IN /\ l.lines >= 0 => l.final >= l.lines + 16
          /\ l.final = AllLines \/ l.final <= 16 * (Rows - 1)
  /\ \A t \in Arg : InPipe(t) =>
       LET final(i) == decBufs.buf[ctx[t].ref[i]].final
       IN /\ decBufs.buf[ctx[t].fdec].final = FinalLines(ctx[t].row)
          /\ ctx[t].type \in {"P", "I", "IDR"}
          /\ ctx[t].type = "P" => ctx[t].ref # <<>>
          /\ ctx[t].type = "IDR" => ctx[t].ref = <<>>
          /\ ctx[t].fref = RefList(ctx[t].type, ctx[t].ref, decBufs)
          /\ ctx[t].type = "P" => \A i \in DOMAIN ctx[t].ref :
               /\ ctx[t].at = "code" => final(i) > 16 * ctx[t].row + 15 + MvRangeThread
               /\ ctx[t].nal => final(i) = AllLines

\* A reference that was sent, with all its lines and so were those after it,
\* is where the decoder's order has it.
DecoderKeeps ==
  LET first == input - Depth IN
  /\ dpb \in Seq(Int) /\ Len(dpb) <= NumRefs
  /\ \A t \in Arg : InPipe(t) => \A i \in DOMAIN ctx[t].ref :
       LET pic(j) == decBufs.buf[ctx[t].ref[j]].pic
           whole(j) == decBufs.buf[ctx[t].ref[j]].final = AllLines
       IN pic(i) < first /\ (\A j \in i .. Len(ctx[t].ref) : pic(j) < first => whole(j)) =>
            first - pic(i) <= Len(dpb) /\ dpb[Len(dpb) - (first - pic(i)) + 1] = pic(i)

\* The inductive invariant behind CountsHold, RefsReady and DecoderHasRefs.
PicturesInv ==
  /\ IInv /\ PicturesShared /\ SourcesCounted /\ JobsRun
  /\ PicturesNumbered /\ LinesFinal /\ DecoderKeeps

(***************************************************************************)
(* Unless a job fails, every call of x264_encoder_encode comes back, and   *)
(* so does closeSoftEncoder: no job waits for ever for the rows of another *)
(* and no wake-up of the pool is lost.  (A failed job never publishes its  *)
(* last rows: the others wait for them, and the caller waits for those.)   *)
(***************************************************************************)
CallsReturn ==
  /\ call # "none" ~> (call = "none" \/ failures > 0)
  /\ closing ~> (~closing \/ caller = "freed" \/ failures > 0)

=============================================================================
