------------------------ MODULE FramePicturesProofs ------------------------
(***************************************************************************)
(* The pictures of the encoder: the counts of their buffers are right, a   *)
(* job reads only lines that are final of pictures that are still there,   *)
(* and what comes out can be decoded, for any number of threads, any size  *)
(* of picture, any references and any jobs that fail.  PicturesInv is the     *)
(* invariant behind the three; each of its parts has a section.            *)
(***************************************************************************)
EXTENDS FrameThreadsProofs

-----------------------------------------------------------------------------
(* Jobs and contexts, step by step.                                        *)

\* What a context knows of the pictures, and how far its job is.
SamePictures(u) ==
  /\ ctx'[u].fdec = ctx[u].fdec /\ ctx'[u].ref = ctx[u].ref /\ ctx'[u].fenc = ctx[u].fenc
  /\ ctx'[u].type = ctx[u].type /\ ctx'[u].fref = ctx[u].fref
SameProgress(u) ==
  /\ ctx'[u].row = ctx[u].row /\ ctx'[u].at = ctx[u].at
  /\ ctx'[u].nal = ctx[u].nal /\ ctx'[u].failed = ctx[u].failed

\* The four steps of a job.
Awaited(t) ==
  /\ ctx[t].at = "await" /\ ctx'[t].at = "code" /\ ctx'[t].row = ctx[t].row
  /\ ctx'[t].nal = ctx[t].nal /\ ctx'[t].failed = ctx[t].failed
  /\ UNCHANGED <<failures, wk>>
Coded(t) ==
  /\ ctx[t].at = "code" /\ ctx'[t].at = "publish"
  /\ ctx'[t].row = ctx[t].row + 1 /\ ctx'[t].nal = (ctx[t].row + 1 = Rows)
  /\ ctx'[t].failed = ctx[t].failed
  /\ UNCHANGED <<failures, wk>>
Published(w, t) ==
  /\ ctx[t].at = "publish" /\ ctx'[t].at = "await" /\ ctx'[t].row = ctx[t].row
  /\ ctx'[t].nal = ctx[t].nal /\ ctx'[t].failed = ctx[t].failed
  /\ IF ctx[t].row = Rows THEN wk' = [wk EXCEPT ![w] = "push"] ELSE wk' = wk
  /\ failures' = failures
Failed(w, t) ==
  /\ ctx[t].at \in {"await", "code"} /\ ctx'[t].at = ctx[t].at
  /\ ctx'[t].row = ctx[t].row
  /\ ctx'[t].nal = ctx[t].nal /\ ctx'[t].failed = TRUE
  /\ wk' = [wk EXCEPT ![w] = "push"]
  /\ failures' = failures + 1

\* A job changes how far its own context is, and no other.
LEMMA JobMoves ==
  ASSUME IInv, NEW w \in Worker, NEW t \in Arg,
         Await(w, t) \/ CodeRow(w, t) \/ Publish(w, t) \/ Fail(w, t)
  PROVE  /\ \A u \in Arg : SamePictures(u) /\ ctx'[u].active = ctx[u].active
         /\ \A u \in Arg : u # t => SameProgress(u)
         /\ Awaited(t) \/ Coded(t) \/ Published(w, t) \/ Failed(w, t)
         /\ wk[w] = "work" /\ cur[w] = t /\ InPipe(t)
         /\ UNCHANGED <<phase, encBufs, input, lastKey, lastNonb, call, closing, sent, dpb>>
         /\ UNCHANGED <<run, done, cur, caller, carg>>
         /\ \A u \in Arg : InPipe(u)' <=> InPipe(u)
<1> DEFINE Where == /\ wk[w] = "work" /\ cur[w] = t
                    /\ UNCHANGED <<phase, encBufs, input, lastKey, lastNonb, call,
                                   closing, sent, dpb>>
                    /\ UNCHANGED <<run, done, cur, caller, carg>>
<1>1. DOMAIN ctx = Arg /\ \A u \in Arg : DOMAIN ctx[u] = Field BY DEF IInv, TypeOK
<1>2. ASSUME NEW new, DOMAIN new = Field, ctx' = [ctx EXCEPT ![t] = new],
             new.fdec = ctx[t].fdec, new.ref = ctx[t].ref, new.fenc = ctx[t].fenc,
             new.type = ctx[t].type, new.fref = ctx[t].fref, new.active = ctx[t].active
      PROVE  /\ \A u \in Arg : SamePictures(u) /\ ctx'[u].active = ctx[u].active
             /\ \A u \in Arg : u # t => SameProgress(u)
             /\ ctx'[t] = new
  <2>1. ctx'[t] = new /\ \A u \in Arg : u # t => ctx'[u] = ctx[u] BY <1>1, <1>2
  <2> QED BY <1>2, <2>1 DEF SamePictures, SameProgress
<1>3. ASSUME Await(w, t)
      PROVE  /\ \A u \in Arg : SamePictures(u) /\ ctx'[u].active = ctx[u].active
             /\ \A u \in Arg : u # t => SameProgress(u)
             /\ Awaited(t)
             /\ Where
  <2> DEFINE new == [ctx[t] EXCEPT !.at = "code"]
  <2>1. ctx' = [ctx EXCEPT ![t] = new] BY <1>3 DEF Await
  <2>2. /\ DOMAIN new = Field /\ new.at = "code" /\ new.row = ctx[t].row
        /\ new.nal = ctx[t].nal /\ new.failed = ctx[t].failed
        /\ new.fdec = ctx[t].fdec /\ new.ref = ctx[t].ref /\ new.fenc = ctx[t].fenc
        /\ new.type = ctx[t].type /\ new.fref = ctx[t].fref /\ new.active = ctx[t].active
    BY <1>1 DEF Field
  <2> HIDE DEF new
  <2>3. /\ \A u \in Arg : SamePictures(u) /\ ctx'[u].active = ctx[u].active
        /\ \A u \in Arg : u # t => SameProgress(u)
        /\ ctx'[t] = new
    BY <1>2, <2>1, <2>2
  <2>4. Where /\ UNCHANGED <<failures, wk>> /\ ctx[t].at = "await"
    BY <1>3 DEF Await, At, JobSteps, poolVars
  <2> QED BY <2>2, <2>3, <2>4 DEF Awaited
<1>4. ASSUME CodeRow(w, t)
      PROVE  /\ \A u \in Arg : SamePictures(u) /\ ctx'[u].active = ctx[u].active
             /\ \A u \in Arg : u # t => SameProgress(u)
             /\ Coded(t)
             /\ Where
  <2> DEFINE k == ctx[t].row + 1
             b == (k = Rows)
             new == [ctx[t] EXCEPT !.at = "publish", !.row = k, !.nal = b]
  <2>1. ctx' = [ctx EXCEPT ![t] = new] BY <1>4 DEF CodeRow
  <2> HIDE DEF k, b
  <2>2. /\ DOMAIN new = Field /\ new.at = "publish" /\ new.row = k
        /\ new.nal = b /\ new.failed = ctx[t].failed
        /\ new.fdec = ctx[t].fdec /\ new.ref = ctx[t].ref /\ new.fenc = ctx[t].fenc
        /\ new.type = ctx[t].type /\ new.fref = ctx[t].fref /\ new.active = ctx[t].active
    BY <1>1 DEF Field
  <2> HIDE DEF new
  <2>3. /\ \A u \in Arg : SamePictures(u) /\ ctx'[u].active = ctx[u].active
        /\ \A u \in Arg : u # t => SameProgress(u)
        /\ ctx'[t] = new
    BY <1>2, <2>1, <2>2
  <2>4. Where /\ UNCHANGED <<failures, wk>> /\ ctx[t].at = "code"
    BY <1>4 DEF CodeRow, At, JobSteps, poolVars
  <2> HIDE DEF Where
  <2> QED BY <2>2, <2>3, <2>4 DEF k, b, Coded
<1>5. ASSUME Publish(w, t)
      PROVE  /\ \A u \in Arg : SamePictures(u) /\ ctx'[u].active = ctx[u].active
             /\ \A u \in Arg : u # t => SameProgress(u)
             /\ Published(w, t)
             /\ Where
  <2> DEFINE new == [ctx[t] EXCEPT !.at = "await"]
  <2>1. ctx' = [ctx EXCEPT ![t] = new] BY <1>5 DEF Publish
  <2>2. /\ DOMAIN new = Field /\ new.at = "await" /\ new.row = ctx[t].row
        /\ new.nal = ctx[t].nal /\ new.failed = ctx[t].failed
        /\ new.fdec = ctx[t].fdec /\ new.ref = ctx[t].ref /\ new.fenc = ctx[t].fenc
        /\ new.type = ctx[t].type /\ new.fref = ctx[t].fref /\ new.active = ctx[t].active
    BY <1>1 DEF Field
  <2> HIDE DEF new
  <2>3. /\ \A u \in Arg : SamePictures(u) /\ ctx'[u].active = ctx[u].active
        /\ \A u \in Arg : u # t => SameProgress(u)
        /\ ctx'[t] = new
    BY <1>2, <2>1, <2>2
  <2>4. IF ctx[t].row = Rows THEN FinishWork(w) ELSE UNCHANGED poolVars
    BY <1>5 DEF Publish
  <2>5. /\ UNCHANGED <<run, done, cur, caller, carg>>
        /\ IF ctx[t].row = Rows THEN wk' = [wk EXCEPT ![w] = "push"] ELSE wk' = wk
    BY <2>4 DEF FinishWork, poolVars
  <2>6. Where /\ failures' = failures /\ ctx[t].at = "publish"
    BY <1>5, <2>5 DEF Publish, At, JobSteps
  <2> QED BY <2>2, <2>3, <2>5, <2>6 DEF Published
<1>6. ASSUME Fail(w, t)
      PROVE  /\ \A u \in Arg : SamePictures(u) /\ ctx'[u].active = ctx[u].active
             /\ \A u \in Arg : u # t => SameProgress(u)
             /\ Failed(w, t)
             /\ Where
  <2> DEFINE new == [ctx[t] EXCEPT !.failed = TRUE]
  <2>1. ctx' = [ctx EXCEPT ![t] = new] BY <1>6 DEF Fail
  <2>2. /\ DOMAIN new = Field /\ new.at = ctx[t].at /\ new.row = ctx[t].row
        /\ new.nal = ctx[t].nal /\ new.failed = TRUE
        /\ new.fdec = ctx[t].fdec /\ new.ref = ctx[t].ref /\ new.fenc = ctx[t].fenc
        /\ new.type = ctx[t].type /\ new.fref = ctx[t].fref /\ new.active = ctx[t].active
    BY <1>1 DEF Field
  <2> HIDE DEF new
  <2>3. /\ \A u \in Arg : SamePictures(u) /\ ctx'[u].active = ctx[u].active
        /\ \A u \in Arg : u # t => SameProgress(u)
        /\ ctx'[t] = new
    BY <1>2, <2>1, <2>2
  <2>4. /\ Where /\ failures' = failures + 1 /\ ctx[t].at \in {"await", "code"}
        /\ wk' = [wk EXCEPT ![w] = "push"]
    BY <1>6 DEF Fail, At, JobSteps, FinishWork
  <2> QED BY <2>2, <2>3, <2>4 DEF Failed
<1>7. Where BY <1>3, <1>4, <1>5, <1>6
<1>8. InPipe(t)
  <2>1. t \in Placed BY <1>7 DEF Placed, Busy
  <2> QED BY <2>1, PlacedInPipe DEF IInv
<1>9. \A u \in Arg : ctx'[u].active = ctx[u].active BY <1>3, <1>4, <1>5, <1>6
<1>10. \A u \in Arg : InPipe(u)' <=> InPipe(u)
  <2>1. phase' = phase /\ call' = call /\ Oldest' = Oldest BY <1>7 DEF Oldest
  <2> QED BY <1>9, <2>1 DEF InPipe
<1> QED
  <2>1. CASE Await(w, t) BY <1>3, <1>8, <1>10, <2>1
  <2>2. CASE CodeRow(w, t) BY <1>4, <1>8, <1>10, <2>2
  <2>3. CASE Publish(w, t) BY <1>5, <1>8, <1>10, <2>3
  <2>4. CASE Fail(w, t) BY <1>6, <1>8, <1>10, <2>4
  <2> QED BY <2>1, <2>2, <2>3, <2>4

\* A picture is put in: what Encode makes of the lists, the type and the references.
NewPic       == Updated(SyncBufs(Oldest, phase), Synced(Oldest, phase), input)
NewType(cut) == IF Decided(input, cut) = "P" /\ NewPic.ref = <<>> THEN "IDR" ELSE Decided(input, cut)
NewRef(cut)  == IF NewType(cut) = "IDR" THEN <<>> ELSE NewPic.ref

\* x264_encoder_encode fills the oldest context and leaves the others.
LEMMA EncodeMoves ==
  ASSUME IInv, NEW cut, Encode(cut)
  PROVE  /\ \A u \in Arg : u # Oldest => SamePictures(u) /\ SameProgress(u)
         /\ \A u \in Arg : ctx'[u].active = ctx[u].active
         /\ ctx'[Oldest].fdec = NewPic.fdec
         /\ ctx'[Oldest].ref = NewRef(cut)
         /\ ctx'[Oldest].fenc = lastNonb'
         /\ ctx'[Oldest].type = NewType(cut)
         /\ ctx'[Oldest].fref = RefList(NewType(cut), NewRef(cut), NewPic.bufs)
         /\ ctx'[Oldest].nal = FALSE /\ ctx'[Oldest].row = 0 /\ ctx'[Oldest].at = "await"
         /\ ctx'[Oldest].failed = FALSE
         /\ decBufs' = IF NewType(cut) = "IDR" THEN ReleaseAll(NewPic.bufs, Reverse(NewPic.ref))
                       ELSE NewPic.bufs
         /\ lastKey' = IF Decided(input, cut) = "IDR" THEN input + Keyint ELSE lastKey
         /\ call = "none" /\ call' = "run" /\ ~closing /\ PopUninit(Oldest)
         /\ phase' = Oldest /\ input' = input + 1
         /\ UNCHANGED <<closing, failures, sent, dpb>>
<1>1. DOMAIN ctx = Arg /\ \A u \in Arg : DOMAIN ctx[u] = Field BY DEF IInv, TypeOK
<1>2. Oldest \in Arg BY Ages DEF IInv, TypeOK
<1>3. /\ decBufs' = IF NewType(cut) = "IDR" THEN ReleaseAll(NewPic.bufs, Reverse(NewPic.ref))
                    ELSE NewPic.bufs
  BY ZenonT(40) DEF Encode, NewType, NewPic, Oldest
<1>4. /\ lastKey' = IF Decided(input, cut) = "IDR" THEN input + Keyint ELSE lastKey
      /\ call = "none" /\ call' = "run" /\ ~closing /\ PopUninit(Oldest)
      /\ phase' = Oldest /\ input' = input + 1
      /\ UNCHANGED <<closing, failures, sent, dpb>>
      /\ lastNonb' = Popped(encBufs)
  BY Zenon DEF Encode, Oldest
<1> DEFINE fdec == NewPic.fdec
           ref == NewRef(cut)
           fenc == Popped(encBufs)
           type == NewType(cut)
           fref == RefList(type, ref, NewPic.bufs)
           new == [ctx[Oldest] EXCEPT !.fdec = fdec, !.ref = ref, !.fenc = fenc,
                     !.type = type, !.fref = fref, !.nal = FALSE,
                     !.row = 0, !.at = "await", !.failed = FALSE]
<1>5. ctx' = [ctx EXCEPT ![Oldest] = new]
  <2>1. ctx' = [ctx EXCEPT ![Oldest] =
                  [@ EXCEPT !.fdec = NewPic.fdec, !.ref = NewRef(cut), !.fenc = Popped(encBufs),
                            !.type = NewType(cut),
                            !.fref = RefList(NewType(cut), NewRef(cut), NewPic.bufs),
                            !.nal = FALSE,
                            !.row = 0, !.at = "await", !.failed = FALSE]]
    BY ZenonT(60) DEF Encode, NewType, NewRef, NewPic, Oldest
  <2> QED BY <2>1
<1> HIDE DEF fdec, ref, fenc, type, fref
<1>6. /\ DOMAIN new = Field /\ new.fdec = fdec /\ new.ref = ref /\ new.fenc = fenc
      /\ new.type = type /\ new.fref = fref /\ new.nal = FALSE /\ new.row = 0
      /\ new.at = "await" /\ new.failed = FALSE /\ new.active = ctx[Oldest].active
  BY <1>1, <1>2 DEF Field
<1> HIDE DEF new
<1>7. ctx'[Oldest] = new /\ \A u \in Arg : u # Oldest => ctx'[u] = ctx[u]
  BY <1>1, <1>2, <1>5
<1>8. \A u \in Arg : u # Oldest => SamePictures(u) /\ SameProgress(u)
  BY <1>7 DEF SamePictures, SameProgress
<1>9. \A u \in Arg : ctx'[u].active = ctx[u].active BY <1>6, <1>7
<1> QED BY <1>3, <1>4, <1>6, <1>7, <1>8, <1>9 DEF fdec, ref, fenc, type, fref

\* The context of the new picture becomes active.
LEMMA QueueMoves ==
  ASSUME IInv, Queue
  PROVE  /\ \A u \in Arg : SamePictures(u) /\ SameProgress(u)
         /\ \A u \in Arg : InPipe(u)' <=> InPipe(u)
         /\ PushRun /\ call = "run" /\ call' = "end" /\ carg = phase
         /\ UNCHANGED <<phase, encBufs, decBufs, input, lastKey, lastNonb, closing,
                        failures, sent, dpb>>
<1>1. /\ PushRun /\ call = "run" /\ call' = "end"
      /\ UNCHANGED <<phase, encBufs, decBufs, input, lastKey, lastNonb, closing,
                     failures, sent, dpb>>
      /\ ctx' = [ctx EXCEPT ![phase].active = TRUE]
  BY DEF Queue
<1>2. phase \in Arg /\ carg = phase BY <1>1 DEF IInv, TypeOK, InStep
<1>3. DOMAIN ctx = Arg /\ \A u \in Arg : DOMAIN ctx[u] = Field /\ ctx[u].active \in BOOLEAN
  BY DEF IInv, TypeOK
<1>4. \A u \in Arg : /\ ctx'[u].fdec = ctx[u].fdec /\ ctx'[u].ref = ctx[u].ref
                     /\ ctx'[u].fenc = ctx[u].fenc /\ ctx'[u].type = ctx[u].type
                     /\ ctx'[u].fref = ctx[u].fref /\ ctx'[u].row = ctx[u].row
                     /\ ctx'[u].at = ctx[u].at /\ ctx'[u].nal = ctx[u].nal
                     /\ ctx'[u].failed = ctx[u].failed
                     /\ u # phase => ctx'[u].active = ctx[u].active
  BY <1>1, <1>2, <1>3 DEF Field
<1>5. ctx'[phase].active
  <2> DEFINE new == [ctx[phase] EXCEPT !.active = TRUE]
  <2>1. ctx' = [ctx EXCEPT ![phase] = new] BY <1>1
  <2>2. new.active BY <1>2, <1>3 DEF Field
  <2> HIDE DEF new
  <2> QED BY <1>2, <1>3, <2>1, <2>2
<1>6. \A u \in Arg : InPipe(u)' <=> InPipe(u)
  <2>1. Oldest' = Oldest BY <1>1 DEF Oldest
  <2> QED BY <1>1, <1>4, <1>5, <2>1 DEF InPipe
<1> QED BY <1>1, <1>2, <1>4, <1>6 DEF SamePictures, SameProgress

\* The oldest context is not active any more, and is waited for.
LEMMA WaitOldestMoves ==
  ASSUME IInv, WaitOldest
  PROVE  /\ \A u \in Arg : SamePictures(u) /\ SameProgress(u)
         /\ \A u \in Arg : InPipe(u)' <=> InPipe(u)
         /\ BeginWait(Oldest) /\ call = "end" /\ call' = "wait"
         /\ UNCHANGED <<phase, encBufs, decBufs, input, lastKey, lastNonb, closing,
                        failures, sent, dpb>>
<1>1. /\ BeginWait(Oldest) /\ call = "end" /\ call' = "wait" /\ ctx[Oldest].active
      /\ UNCHANGED <<phase, encBufs, decBufs, input, lastKey, lastNonb, closing,
                     failures, sent, dpb>>
      /\ ctx' = [ctx EXCEPT ![Oldest].active = FALSE]
  BY DEF WaitOldest
<1>2. phase \in Arg /\ Oldest \in Arg BY Ages DEF IInv, TypeOK
<1>3. DOMAIN ctx = Arg /\ \A u \in Arg : DOMAIN ctx[u] = Field /\ ctx[u].active \in BOOLEAN
  BY DEF IInv, TypeOK
<1>4. \A u \in Arg : /\ ctx'[u].fdec = ctx[u].fdec /\ ctx'[u].ref = ctx[u].ref
                     /\ ctx'[u].fenc = ctx[u].fenc /\ ctx'[u].type = ctx[u].type
                     /\ ctx'[u].fref = ctx[u].fref /\ ctx'[u].row = ctx[u].row
                     /\ ctx'[u].at = ctx[u].at /\ ctx'[u].nal = ctx[u].nal
                     /\ ctx'[u].failed = ctx[u].failed
                     /\ u # Oldest => ctx'[u].active = ctx[u].active
  BY <1>1, <1>2, <1>3 DEF Field
<1>6. \A u \in Arg : InPipe(u)' <=> InPipe(u)
  <2>1. Oldest' = Oldest BY <1>1 DEF Oldest
  <2> QED BY <1>1, <1>4, <2>1 DEF InPipe
<1> QED BY <1>1, <1>4, <1>6 DEF SamePictures, SameProgress

\* x264_encoder_frame_end lets the oldest context go, and no other.
LEMMA FrameEndMoves ==
  ASSUME IInv, FrameEnd
  PROVE  /\ \A u \in Arg : SamePictures(u) /\ (u # Oldest => SameProgress(u))
         /\ \A u \in Arg : InPipe(u)' <=> InPipe(u) /\ u # Oldest
         /\ \A u \in Arg : ctx'[u].failed = ctx[u].failed
         /\ UNCHANGED <<phase, decBufs, input, lastKey, lastNonb, closing, failures>>
         /\ call' = "none" /\ caller' = "out" /\ UNCHANGED <<run, done, cur, wk>>
         /\ \/ call = "end" /\ UNCHANGED <<ctx, encBufs, sent, dpb>>
            \/ call = "wait" /\ caller = "return" /\ carg = Oldest
<1>1. phase \in Arg /\ Oldest \in Arg BY Ages DEF IInv, TypeOK
<1>2. /\ \/ call = "wait" /\ PushUninit
         \/ call = "end" /\ ~ctx[Oldest].active /\ UNCHANGED poolVars
      /\ \/ UNCHANGED <<sent, dpb, encBufs, ctx>>
         \/ ctx' = [ctx EXCEPT ![Oldest].nal = FALSE]
      /\ ctx[Oldest].failed \/ ~ctx[Oldest].nal => UNCHANGED <<sent, dpb, encBufs, ctx>>
      /\ call' = "none"
      /\ UNCHANGED <<phase, decBufs, input, lastKey, lastNonb, closing, failures>>
  BY DEF FrameEnd
<1>3. DOMAIN ctx = Arg /\ \A u \in Arg : DOMAIN ctx[u] = Field BY DEF IInv, TypeOK
<1>4. \A u \in Arg : /\ ctx'[u].fdec = ctx[u].fdec /\ ctx'[u].ref = ctx[u].ref
                     /\ ctx'[u].fenc = ctx[u].fenc /\ ctx'[u].type = ctx[u].type
                     /\ ctx'[u].fref = ctx[u].fref /\ ctx'[u].row = ctx[u].row
                     /\ ctx'[u].at = ctx[u].at
                     /\ u # Oldest => ctx'[u].nal = ctx[u].nal
                     /\ ctx'[u].failed = ctx[u].failed
                     /\ ctx'[u].active = ctx[u].active
  <2>1. CASE ctx' = [ctx EXCEPT ![Oldest].nal = FALSE] BY <1>1, <1>3, <2>1 DEF Field
  <2>2. CASE ctx' = ctx BY <2>2
  <2> QED BY <1>2, <2>1, <2>2
<1>5. Oldest' = Oldest BY <1>2 DEF Oldest
<1>6. ~ctx[Oldest].active
  BY <1>2 DEF IInv, InStep
<1>7. \A u \in Arg : InPipe(u)' <=> InPipe(u) /\ u # Oldest
  BY <1>2, <1>4, <1>5, <1>6 DEF InPipe
<1>8. CASE call = "wait"
  <2>1. PushUninit /\ carg = Oldest BY <1>2, <1>8 DEF IInv, InStep
  <2>2. caller = "return" /\ caller' = "out" /\ UNCHANGED <<run, done, cur, wk>>
    BY <2>1 DEF PushUninit
  <2> QED BY <1>2, <1>4, <1>7, <1>8, <2>1, <2>2 DEF SamePictures, SameProgress
<1>9. CASE call = "end"
  <2>1. /\ caller' = "out" /\ UNCHANGED <<run, done, cur, wk>>
    BY <1>2, <1>9 DEF IInv, InStep, poolVars
  <2>2. ctx[Oldest].failed \/ ~ctx[Oldest].nal
    BY <1>1, <1>6, <1>9 DEF IInv, InStep, InPipe
  <2> QED BY <1>2, <1>4, <1>7, <1>9, <2>1, <2>2 DEF SamePictures, SameProgress
<1> QED BY <1>2, <1>8, <1>9

\* A call without a picture hands what the context had to the next one.
LEMMA FlushMoves ==
  ASSUME IInv, Flush
  PROVE  /\ \A u \in Arg : SameProgress(u) /\ (u # Oldest => SamePictures(u))
         /\ ctx'[Oldest].fdec = ctx[phase].fdec /\ ctx'[Oldest].ref = ctx[phase].ref
         /\ \A u \in Arg : InPipe(u)' <=> InPipe(u)
         /\ ~InPipe(Oldest) /\ Depth > 0
         /\ call = "none" /\ call' = "end" /\ phase' = Oldest /\ closing
         /\ decBufs' = SyncBufs(Oldest, phase)
         /\ UNCHANGED <<encBufs, input, lastKey, lastNonb, closing, failures, sent, dpb>>
         /\ UNCHANGED <<run, done, cur, wk, caller, carg>>
<1>1. phase \in Arg /\ Oldest \in Arg /\ Oldest # phase BY Ages DEF IInv, TypeOK
<1>2. /\ call = "none" /\ call' = "end" /\ closing /\ phase' = Oldest
      /\ UNCHANGED <<encBufs, input, lastKey, lastNonb, closing, failures, sent, dpb>>
      /\ UNCHANGED <<run, done, cur, wk, caller, carg>>
      /\ ctx' = [ctx EXCEPT ![Oldest] = Synced(Oldest, phase)]
      /\ decBufs' = SyncBufs(Oldest, phase)
  BY DEF Flush, Oldest, poolVars
<1>3. DOMAIN ctx = Arg /\ \A u \in Arg : DOMAIN ctx[u] = Field BY DEF IInv, TypeOK
<1> DEFINE new == Synced(Oldest, phase)
<1>4. /\ new.row = ctx[Oldest].row /\ new.at = ctx[Oldest].at /\ new.nal = ctx[Oldest].nal
      /\ new.failed = ctx[Oldest].failed /\ new.active = ctx[Oldest].active
      /\ new.fdec = ctx[phase].fdec /\ new.ref = ctx[phase].ref
  BY <1>1, <1>3 DEF Synced, Field
<1> HIDE DEF new
<1>5. ctx'[Oldest] = new /\ \A u \in Arg : u # Oldest => ctx'[u] = ctx[u]
  BY <1>1, <1>2, <1>3 DEF new
<1>6. \A u \in Arg : SameProgress(u) /\ (u # Oldest => SamePictures(u))
  BY <1>4, <1>5 DEF SamePictures, SameProgress
<1>7. \A u \in Arg : ctx'[u].active = ctx[u].active BY <1>4, <1>5
<1>8. \A u \in Arg : InPipe(u)' <=> InPipe(u) BY <1>2, <1>7 DEF InPipe
<1>9. ~InPipe(Oldest) BY <1>1, <1>2 DEF IInv, InStep, InPipe
<1>10. Depth > 0
  <2> DEFINE S == {t \in Arg : ctx[t].active}
  <2>1. Cardinality(S) > 0 BY DEF Flush, DelayedFrames
  <2>2. PICK t \in Arg : ctx[t].active BY <2>1, FS_EmptySet
  <2>3. t \in Piped BY <2>2 DEF Piped, InPipe
  <2>4. Cardinality(Piped) # 0 BY <2>3, PipedFinite, FS_EmptySet
  <2> QED BY <2>4, PipedFinite, Contexts
<1> QED BY <1>2, <1>4, <1>5, <1>6, <1>8, <1>9, <1>10

\* Nothing becomes ready, runs or is done that was not.
LEMMA JobsRest ==
  ASSUME JobsRun, call' = "run" => Ready(phase)',
         \A u \in ToSet(run') : (u \in ToSet(run) /\ SameProgress(u)) \/ Ready(u)',
         \A u \in ToSet(done') : (u \in ToSet(done) /\ SameProgress(u)) \/ Finished(u)',
         \A v \in Worker : wk'[v] \in {"work", "push"} =>
           wk'[v] = wk[v] /\ cur'[v] = cur[v] /\ SameProgress(cur[v]),
         caller' = "return" =>
           \/ caller = "return" /\ carg' = carg /\ SameProgress(carg)
           \/ Finished(carg)',
         \A u \in Arg : InPipe(u)' =>
           \/ InPipe(u) /\ SameProgress(u)
           \/ Ready(u)',
         failures' = failures,
         \A u \in Arg : ctx'[u].failed => ctx[u].failed,
         \A u \in Arg : ctx'[u].nal \in BOOLEAN
  PROVE  JobsRun'
<1>1. \A u \in ToSet(run') : Ready(u)' BY DEF JobsRun, Ready, SameProgress
<1>2. \A u \in ToSet(done') : Finished(u)' BY DEF JobsRun, Finished, SameProgress
<1>3. \A v \in Worker : wk'[v] = "work" => Running(cur[v])'
  <2> SUFFICES ASSUME NEW v \in Worker, wk'[v] = "work" PROVE Running(cur[v])'
    OBVIOUS
  <2>1. Running(cur[v]) /\ SameProgress(cur[v]) /\ cur'[v] = cur[v] BY DEF JobsRun
  <2> QED BY <2>1 DEF Running, SameProgress
<1>4. \A v \in Worker : wk'[v] = "push" => Finished(cur[v])'
  <2> SUFFICES ASSUME NEW v \in Worker, wk'[v] = "push" PROVE Finished(cur[v])'
    OBVIOUS
  <2>1. Finished(cur[v]) /\ SameProgress(cur[v]) /\ cur'[v] = cur[v] BY DEF JobsRun
  <2> QED BY <2>1 DEF Finished, SameProgress
<1>5. caller' = "return" => Finished(carg)' BY DEF JobsRun, Finished, SameProgress
<1>6. \A u \in Arg : InPipe(u)' =>
        /\ ctx'[u].row \in 0 .. Rows /\ ctx'[u].nal = (ctx'[u].row = Rows)
        /\ ctx'[u].failed => ~ctx'[u].nal
  <2> SUFFICES ASSUME NEW u \in Arg, InPipe(u)'
               PROVE  /\ ctx'[u].row \in 0 .. Rows /\ ctx'[u].nal = (ctx'[u].row = Rows)
                      /\ ctx'[u].failed => ~ctx'[u].nal
    OBVIOUS
  <2>1. CASE InPipe(u) /\ SameProgress(u) BY <2>1 DEF JobsRun, SameProgress
  <2>2. CASE Ready(u)'
    <3>1. ctx'[u].row = 0 /\ ~ctx'[u].nal /\ ~ctx'[u].failed BY <2>2 DEF Ready
    <3>2. Rows \in Nat \ {0} BY FramesAssumption
    <3>3. ctx'[u].nal = FALSE BY <3>1
    <3> QED BY <3>1, <3>2
  <2> QED BY <2>1, <2>2
<1>7. failures' \in Nat /\ \A u \in Arg : ctx'[u].failed => failures' > 0 BY DEF JobsRun
<1> QED BY <1>1, <1>2, <1>3, <1>4, <1>5, <1>6, <1>7 DEF JobsRun

\* A job that goes on, and is not done before its last row.
LEMMA JobGoesOn ==
  ASSUME IInv, IInv', JobsRun, NEW w \in Worker, NEW t \in Arg,
         Await(w, t) \/ CodeRow(w, t) \/ Publish(w, t) \/ Fail(w, t)
  PROVE  JobsRun'
<1>1. /\ wk[w] = "work" /\ cur[w] = t /\ InPipe(t)
      /\ UNCHANGED <<phase, call, run, done, cur, caller, carg>>
      /\ \A u \in Arg : InPipe(u)' <=> InPipe(u)
      /\ \A u \in Arg : u # t => SameProgress(u)
  BY JobMoves
<1>2. /\ Running(t) /\ ctx[t].row \in 0 .. Rows /\ ctx[t].nal = (ctx[t].row = Rows)
      /\ failures \in Nat /\ Rows \in Nat \ {0}
  BY <1>1, FramesAssumption DEF JobsRun
<1>3. wk \in [Worker -> {"top", "look", "asleep", "work", "push", "gone"}]
  BY DEF IInv, PoolInv, PoolTypeOK
<1>4. /\ failures' \in Nat
      /\ ctx'[t].row \in 0 .. Rows /\ ctx'[t].nal = (ctx'[t].row = Rows)
      /\ ctx'[t].failed => ~ctx'[t].nal
      /\ ctx'[t].failed => failures' > 0
      /\ failures > 0 => failures' > 0
      /\ \/ wk' = wk /\ Running(t)'
         \/ wk' = [wk EXCEPT ![w] = "push"] /\ Finished(t)'
  <2>a. ~ctx[t].failed BY <1>2 DEF Running
  <2>1. CASE Awaited(t) BY <1>2, <2>1 DEF Running, Awaited
  <2>2. CASE Coded(t) BY <1>2, <2>2 DEF Running, Coded
  <2>3. CASE Published(w, t)
    <3>1. CASE ctx[t].row = Rows
      <4>1. ctx[t].nal BY <1>2, <3>1
      <4> QED BY <1>2, <2>a, <2>3, <3>1, <4>1 DEF Finished, Published
    <3>2. CASE ctx[t].row # Rows BY <1>2, <2>a, <2>3, <3>2 DEF Running, Published
    <3> QED BY <3>1, <3>2
  <2>4. CASE Failed(w, t)
    <3>1. ctx[t].row # Rows BY <1>2, <2>4 DEF Running, Failed
    <3>2. ctx[t].nal = FALSE BY <1>2, <3>1
    <3> QED BY <1>2, <2>4, <3>1, <3>2 DEF Finished, Failed
  <2> QED BY JobMoves, <2>1, <2>2, <2>3, <2>4
<1>5. w \in Busy BY <1>1 DEF Busy
<1>6. /\ \A u \in ToSet(run) \cup ToSet(done) : SameProgress(u)
      /\ \A v \in Worker : v # w /\ wk[v] \in {"work", "push"} => SameProgress(cur[v])
      /\ caller = "return" => SameProgress(carg)
  <2>1. JobsApart /\ PoolTypeOK /\ BusyHasJob /\ CallerHasJob
    BY DEF IInv, OneJobEach, PoolInv
  <2>2. t \in Placed /\ Placed \subseteq Arg
    BY <1>1, <1>5, PlacedAreContexts DEF IInv, Placed
  <2>3. \A u \in ToSet(run) \cup ToSet(done) : u # t /\ u \in Arg
    BY <1>1, <1>5, <2>1, <2>2 DEF JobsApart, Placed
  <2>4. \A v \in Worker : v # w /\ wk[v] \in {"work", "push"} => cur[v] # t /\ cur[v] \in Arg
    BY <1>1, <1>5, <2>1 DEF JobsApart, Busy, BusyHasJob
  <2>5. caller = "return" => carg # t /\ carg \in Arg BY <2>1, <2>2 DEF JobsApart, CallerHasJob
  <2> QED BY <1>1, <2>3, <2>4, <2>5
<1>7. call' = "run" => Ready(phase)'
  <2> SUFFICES ASSUME call = "run" PROVE Ready(phase)' BY <1>1
  <2>1. Ready(phase) /\ carg = phase /\ caller = "push" /\ phase \in Arg
    BY DEF JobsRun, IInv, InStep, TypeOK
  <2>2. phase # t
    <3>1. t \in Placed BY <1>1, <1>5 DEF Placed
    <3> QED BY <2>1, <3>1 DEF IInv, OneJobEach, JobsApart
  <2>3. SameProgress(phase) BY <1>1, <2>1, <2>2
  <2> QED BY <1>1, <2>1, <2>3 DEF Ready, SameProgress
<1>8. \A u \in ToSet(run') : Ready(u)' BY <1>1, <1>6 DEF JobsRun, Ready, SameProgress
<1>9. \A u \in ToSet(done') : Finished(u)' BY <1>1, <1>6 DEF JobsRun, Finished, SameProgress
<1>10. \A v \in Worker : /\ wk'[v] = "work" => Running(cur[v])'
                         /\ wk'[v] = "push" => Finished(cur[v])'
  <2> SUFFICES ASSUME NEW v \in Worker
               PROVE  /\ wk'[v] = "work" => Running(cur[v])'
                      /\ wk'[v] = "push" => Finished(cur[v])'
    OBVIOUS
  <2>1. cur'[v] = cur[v] BY <1>1
  <2>2. CASE v = w
    <3>1. wk' = wk \/ wk'[w] = "push" BY <1>3, <1>4
    <3>2. cur'[v] = t BY <1>1, <2>1, <2>2
    <3>3. CASE wk' = wk /\ Running(t)' BY <1>1, <2>2, <3>2, <3>3 DEF Running
    <3>4. CASE wk' = [wk EXCEPT ![w] = "push"] /\ Finished(t)'
      BY <1>3, <2>2, <3>2, <3>4 DEF Finished
    <3> QED BY <1>4, <3>3, <3>4
  <2>3. CASE v # w
    <3>1. wk'[v] = wk[v] BY <1>3, <1>4, <2>3
    <3>2. wk[v] = "work" => Running(cur[v]) /\ SameProgress(cur[v])
      BY <1>6, <2>3 DEF JobsRun
    <3>3. wk[v] = "push" => Finished(cur[v]) /\ SameProgress(cur[v])
      BY <1>6, <2>3 DEF JobsRun
    <3>4. wk[v] = "work" => Running(cur[v])' BY <2>1, <3>2 DEF Running, SameProgress
    <3>5. wk[v] = "push" => Finished(cur[v])' BY <2>1, <3>3 DEF Finished, SameProgress
    <3> QED BY <3>1, <3>4, <3>5
  <2> QED BY <2>2, <2>3
<1>11. caller' = "return" => Finished(carg)' BY <1>1, <1>6 DEF JobsRun, Finished, SameProgress
<1>12. \A u \in Arg : InPipe(u)' =>
         /\ ctx'[u].row \in 0 .. Rows /\ ctx'[u].nal = (ctx'[u].row = Rows)
         /\ ctx'[u].failed => ~ctx'[u].nal
  BY <1>1, <1>4 DEF JobsRun, SameProgress
<1>13. \A u \in Arg : ctx'[u].failed => failures' > 0
  BY <1>1, <1>2, <1>4 DEF JobsRun, SameProgress
<1> QED BY <1>4, <1>7, <1>8, <1>9, <1>10, <1>11, <1>12, <1>13 DEF JobsRun

\* A thread of the pool takes a job that is ready and puts it back when it is done.
LEMMA ThreadGoesOn ==
  ASSUME IInv, IInv', JobsRun, NEW w \in Worker, Loop(w), UNCHANGED frameVars
  PROVE  JobsRun'
<1>1. UNCHANGED <<phase, ctx, call, failures>> /\ \A u \in Arg : InPipe(u)' <=> InPipe(u)
  <2>1. UNCHANGED <<phase, ctx, call, failures>> BY DEF frameVars
  <2> QED BY <2>1 DEF InPipe, Oldest
<1>2. /\ wk \in [Worker -> {"top", "look", "asleep", "work", "push", "gone"}]
      /\ cur \in [Worker -> Arg \cup {NoArg}] /\ run \in Seq(Arg) /\ done \in Seq(Arg)
  BY DEF IInv, PoolInv, PoolTypeOK
<1>3. \A u : SameProgress(u) BY <1>1 DEF SameProgress
<1>4. \A u : Ready(u)' <=> Ready(u) BY <1>1 DEF Ready
<1>5. \A u : Running(u)' <=> Running(u) BY <1>1 DEF Running
<1>6. \A u : Finished(u)' <=> Finished(u) BY <1>1 DEF Finished
<1>7. \A u \in Arg : ctx'[u].nal \in BOOLEAN BY DEF IInv, TypeOK
<1>8. call' = "run" => Ready(phase)' BY <1>1, <1>4 DEF JobsRun
<1>9. \A u \in Arg : InPipe(u)' => InPipe(u) /\ SameProgress(u) BY <1>1, <1>3
<1>10. CASE Top(w) \/ Sleep(w) \/ NoJob(w)
  <2>1. UNCHANGED <<run, done, cur, caller, carg>>
    BY <1>10 DEF Top, Sleep, NoJob
  <2>2. \A v \in Worker : wk'[v] \in {"work", "push"} => wk'[v] = wk[v] /\ cur'[v] = cur[v]
    BY <1>2, <1>10, <2>1 DEF Top, Sleep, NoJob
  <2>3. ToSet(run') = ToSet(run) /\ ToSet(done') = ToSet(done) BY <2>1
  <2> QED BY <1>1, <1>3, <1>7, <1>8, <1>9, <2>1, <2>2, <2>3, JobsRest
<1>11. CASE Take(w)
  <2>1. /\ run # <<>> /\ run' = Tail(run) /\ UNCHANGED <<done, caller, carg>>
        /\ \A v \in Worker : IF v = w THEN wk'[v] = "work" /\ cur'[v] = Head(run)
                             ELSE wk'[v] = wk[v] /\ cur'[v] = cur[v]
    BY <1>2, <1>11 DEF Take
  <2>2. Head(run) \in ToSet(run) /\ ToSet(run') \subseteq ToSet(run)
    <3>1. /\ Head(run) = run[1] /\ DOMAIN run = 1 .. Len(run) /\ Len(run) \in Nat
          /\ 1 \in DOMAIN run /\ DOMAIN run' = 1 .. (Len(run) - 1)
          /\ \A j \in 1 .. (Len(run) - 1) : run'[j] = run[j + 1]
      BY <1>2, <2>1, HeadTailProperties, EmptySeq
    <3>2. \A j \in DOMAIN run' : j + 1 \in DOMAIN run /\ run'[j] = run[j + 1] BY <3>1
    <3> QED BY <3>1, <3>2 DEF ToSet
  <2>3. Running(Head(run))
    <3>1. Ready(Head(run)) BY <2>2 DEF JobsRun
    <3>2. Rows \in Nat \ {0} BY FramesAssumption
    <3> QED BY <3>1, <3>2 DEF Ready, Running
  <2>4. \A v \in Worker : /\ wk'[v] = "work" => Running(cur'[v])
                          /\ wk'[v] = "push" => Finished(cur'[v])
    BY <2>1, <2>3 DEF JobsRun
  <2>5. \A v \in Worker : /\ wk'[v] = "work" => Running(cur[v])'
                          /\ wk'[v] = "push" => Finished(cur[v])'
    BY <1>1, <2>4 DEF Running, Finished
  <2>6. \A u \in ToSet(run') : Ready(u)' BY <1>4, <2>2 DEF JobsRun
  <2>7. \A u \in ToSet(done') : Finished(u)' BY <1>6, <2>1 DEF JobsRun
  <2>8. caller' = "return" => Finished(carg)' BY <1>1, <2>1 DEF JobsRun, Finished
  <2> QED BY <1>1, <1>8, <2>5, <2>6, <2>7, <2>8 DEF JobsRun
<1>12. CASE PushDone(w)
  <2>1. /\ wk[w] = "push" /\ done' = Append(done, cur[w]) /\ UNCHANGED <<run, carg>>
        /\ caller' = "return" => caller = "return"
        /\ \A v \in Worker : IF v = w THEN wk'[v] = "top"
                             ELSE wk'[v] = wk[v] /\ cur'[v] = cur[v]
    BY <1>2, <1>12 DEF PushDone
  <2>2. ToSet(done') \subseteq ToSet(done) \cup {cur[w]}
    <3>1. cur[w] \in Arg BY <2>1 DEF IInv, PoolInv, BusyHasJob, Busy
    <3>2. /\ DOMAIN done = 1 .. Len(done) /\ DOMAIN done' = 1 .. (Len(done) + 1)
          /\ \A i \in 1 .. Len(done) : done'[i] = done[i]
          /\ done'[Len(done) + 1] = cur[w] /\ Len(done) \in Nat
      BY <1>2, <2>1, <3>1, AppendProperties
    <3>3. \A i \in DOMAIN done' : i \in DOMAIN done \/ i = Len(done) + 1 BY <3>2
    <3> QED BY <3>2, <3>3 DEF ToSet
  <2>3. \A u \in ToSet(done') : Finished(u)' BY <1>6, <2>1, <2>2 DEF JobsRun
  <2>4. \A v \in Worker : /\ wk'[v] = "work" => Running(cur'[v])
                          /\ wk'[v] = "push" => Finished(cur'[v])
    BY <2>1 DEF JobsRun
  <2>5. \A v \in Worker : /\ wk'[v] = "work" => Running(cur[v])'
                          /\ wk'[v] = "push" => Finished(cur[v])'
    BY <1>1, <2>4 DEF Running, Finished
  <2>6. \A u \in ToSet(run') : Ready(u)' BY <1>4, <2>1 DEF JobsRun
  <2>8. caller' = "return" => Finished(carg)' BY <1>1, <2>1 DEF JobsRun, Finished
  <2> QED BY <1>1, <1>8, <2>3, <2>5, <2>6, <2>8 DEF JobsRun
<1> QED BY <1>10, <1>11, <1>12 DEF Loop

\* Whatever the encoder does, a job is ready when it is put in the list run, has
\* rows left as long as it runs, and has failed or made a NAL when it is done.
LEMMA JobsRunKept ==
  ASSUME IInv, IInv', JobsRun, [Next]_vars
  PROVE  JobsRun'
<1>a. \A u \in Arg : ctx'[u].nal \in BOOLEAN BY DEF IInv, TypeOK
<1>b. /\ phase \in Arg /\ Oldest \in Arg /\ run \in Seq(Arg) /\ done \in Seq(Arg)
      /\ wk \in [Worker -> {"top", "look", "asleep", "work", "push", "gone"}]
      /\ cur \in [Worker -> Arg \cup {NoArg}]
      /\ \A v \in Worker : wk[v] \in {"work", "push"} => cur[v] \in Placed
      /\ ToSet(run) \subseteq Placed /\ ToSet(done) \subseteq Placed
      /\ Placed \subseteq Arg
  BY Ages, PlacedAreContexts DEF IInv, TypeOK, PoolInv, PoolTypeOK, Placed, Busy
<1>c. ASSUME \A u \in Placed : SameProgress(u), UNCHANGED <<run, done, cur>>,
             \A v \in Worker : wk'[v] \in {"work", "push"} => wk'[v] = wk[v],
             caller' # "return", call' = "run" => Ready(phase)',
             \A u \in Arg : InPipe(u)' => (InPipe(u) /\ SameProgress(u)) \/ Ready(u)',
             failures' = failures, \A u \in Arg : ctx'[u].failed => ctx[u].failed
      PROVE  JobsRun'
  <2>1. \A u \in ToSet(run') : u \in ToSet(run) /\ SameProgress(u) BY <1>b, <1>c
  <2>2. \A u \in ToSet(done') : u \in ToSet(done) /\ SameProgress(u) BY <1>b, <1>c
  <2>3. \A v \in Worker : wk'[v] \in {"work", "push"} =>
          wk'[v] = wk[v] /\ cur'[v] = cur[v] /\ SameProgress(cur[v])
    BY <1>b, <1>c
  <2> QED BY <1>a, <1>c, <2>1, <2>2, <2>3, JobsRest
<1>1. ASSUME NEW cut \in BOOLEAN, Encode(cut) PROVE JobsRun'
  <2>1. /\ \A u \in Arg : u # Oldest => SameProgress(u)
        /\ \A u \in Arg : ctx'[u].active = ctx[u].active
        /\ ctx'[Oldest].nal = FALSE /\ ctx'[Oldest].row = 0 /\ ctx'[Oldest].at = "await"
        /\ ctx'[Oldest].failed = FALSE
        /\ call = "none" /\ call' = "run" /\ PopUninit(Oldest)
        /\ phase' = Oldest /\ failures' = failures
    BY <1>1, EncodeMoves
  <2>2. UNCHANGED <<run, done, wk, cur>> /\ caller' = "push" BY <2>1 DEF PopUninit
  <2>3. Oldest \notin Placed BY <2>1 DEF IInv, InStep, OneJobEach
  <2>4. Ready(phase)' BY <2>1 DEF Ready
  <2>5. \A u \in Arg : u = Oldest => Ready(u)' BY <2>1 DEF Ready
  <2>6. \A u \in Arg : InPipe(u)' => InPipe(u) \/ u = Oldest BY <2>1 DEF InPipe
  <2>7. \A u \in Arg : ctx'[u].failed => ctx[u].failed BY <2>1 DEF SameProgress
  <2>8. \A u \in Placed : SameProgress(u) BY <1>b, <2>1, <2>3
  <2>9. \A u \in Arg : InPipe(u)' => (InPipe(u) /\ SameProgress(u)) \/ Ready(u)'
    BY <2>1, <2>5, <2>6
  <2> QED BY <1>c, <2>1, <2>2, <2>4, <2>7, <2>8, <2>9
<1>2. CASE Queue
  <2>1. /\ \A u \in Arg : SameProgress(u) /\ (InPipe(u)' <=> InPipe(u))
        /\ PushRun /\ call = "run" /\ call' = "end" /\ carg = phase
        /\ UNCHANGED <<phase, failures>>
    BY <1>2, QueueMoves
  <2>2. /\ run' = Append(run, phase) /\ UNCHANGED <<done, cur>> /\ caller' = "out"
        /\ \A v \in Worker : wk'[v] \in {"work", "push"} => wk'[v] = wk[v]
    BY <2>1, <1>b DEF PushRun, Awakened
  <2>3. Ready(phase) /\ SameProgress(phase) BY <1>b, <2>1 DEF JobsRun
  <2>4. \A u : u = phase => Ready(u)' BY <2>3 DEF Ready, SameProgress
  <2>5. \A u \in ToSet(run') : u \in ToSet(run) \/ u = phase
    <3>1. /\ DOMAIN run = 1 .. Len(run) /\ DOMAIN run' = 1 .. (Len(run) + 1)
          /\ \A i \in 1 .. Len(run) : run'[i] = run[i]
          /\ run'[Len(run) + 1] = phase /\ Len(run) \in Nat
      BY <1>b, <2>2, AppendProperties
    <3>2. \A i \in DOMAIN run' : i \in DOMAIN run \/ i = Len(run) + 1 BY <3>1
    <3> QED BY <3>1, <3>2 DEF ToSet
  <2>6. \A u \in ToSet(run') : (u \in ToSet(run) /\ SameProgress(u)) \/ Ready(u)'
    BY <1>b, <2>1, <2>4, <2>5
  <2>7. \A u \in ToSet(done') : u \in ToSet(done) /\ SameProgress(u) BY <1>b, <2>1, <2>2
  <2>8. \A v \in Worker : wk'[v] \in {"work", "push"} =>
          wk'[v] = wk[v] /\ cur'[v] = cur[v] /\ SameProgress(cur[v])
    BY <1>b, <2>1, <2>2
  <2>9. \A u \in Arg : ctx'[u].failed => ctx[u].failed BY <2>1 DEF SameProgress
  <2> QED BY <1>a, <2>1, <2>2, <2>6, <2>7, <2>8, <2>9, JobsRest
<1>3. CASE WaitOldest
  <2>1. /\ \A u \in Arg : SameProgress(u) /\ (InPipe(u)' <=> InPipe(u))
        /\ BeginWait(Oldest) /\ call' = "wait" /\ failures' = failures
    BY <1>3, WaitOldestMoves
  <2>2. UNCHANGED <<run, done, cur, wk>> /\ caller' = "look" BY <2>1 DEF BeginWait
  <2>3. \A u \in Arg : ctx'[u].failed => ctx[u].failed BY <2>1 DEF SameProgress
  <2> QED BY <1>b, <1>c, <2>1, <2>2, <2>3
<1>4. ASSUME UNCHANGED frameVars
      PROVE  /\ UNCHANGED <<phase, ctx, call, failures>>
             /\ \A u : SameProgress(u)
             /\ \A u \in Arg : InPipe(u)' => InPipe(u)
             /\ call' = "run" => Ready(phase)'
             /\ \A u \in Arg : ctx'[u].failed => ctx[u].failed
  <2>1. UNCHANGED <<phase, ctx, call, failures>> BY <1>4 DEF frameVars
  <2>2. \A u \in Arg : InPipe(u)' => InPipe(u) BY <2>1 DEF InPipe, Oldest
  <2>3. call' = "run" => Ready(phase)' BY <2>1 DEF JobsRun, Ready
  <2> QED BY <2>1, <2>2, <2>3 DEF SameProgress
<1>5. CASE Waiting
  <2>1. UNCHANGED frameVars BY <1>5 DEF Waiting
  <2>2. CASE SleepDone
    <3>1. UNCHANGED <<run, done, cur, wk>> /\ caller' = "asleep" BY <2>2 DEF SleepDone
    <3> QED BY <1>c, <1>4, <2>1, <3>1
  <2>3. CASE FindDone
    <3>1. PICK i \in DOMAIN done : done[i] = carg /\ done' = RemoveAt(done, i)
      BY <2>3 DEF FindDone
    <3>2. UNCHANGED <<run, cur, wk, carg>> BY <2>3 DEF FindDone
    <3>3. /\ DOMAIN done' = 1 .. (Len(done) - 1)
          /\ \A j \in 1 .. (Len(done) - 1) : done'[j] = done[IF j < i THEN j ELSE j + 1]
      BY <1>b, <3>1, Removed
    <3>4. DOMAIN done = 1 .. Len(done) /\ Len(done) \in Nat BY <1>b
    <3>5. \A j \in DOMAIN done' : (IF j < i THEN j ELSE j + 1) \in DOMAIN done
      BY <3>3, <3>4
    <3>6. \A u \in ToSet(done') : u \in ToSet(done) BY <3>3, <3>5 DEF ToSet
    <3>7. Finished(carg)
      <4>1. carg \in ToSet(done) BY <3>1 DEF ToSet
      <4> QED BY <4>1 DEF JobsRun
    <3>8. Finished(carg)' BY <1>4, <2>1, <3>2, <3>7 DEF Finished
    <3>9. UNCHANGED <<phase, ctx, call, failures>> /\ \A u : SameProgress(u) BY <1>4, <2>1
    <3>10. \A u \in ToSet(run') : u \in ToSet(run) BY <3>2
    <3> QED BY <1>a, <1>4, <2>1, <3>2, <3>6, <3>8, <3>9, <3>10, JobsRest
  <2> QED BY <1>5, <2>2, <2>3 DEF Waiting
<1>6. CASE FrameEnd
  <2>1. /\ \A u \in Arg : u # Oldest => SameProgress(u)
        /\ \A u \in Arg : InPipe(u)' <=> InPipe(u) /\ u # Oldest
        /\ \A u \in Arg : ctx'[u].failed = ctx[u].failed
        /\ failures' = failures
        /\ call' = "none" /\ caller' = "out" /\ UNCHANGED <<run, done, cur, wk>>
    BY <1>6, FrameEndMoves
  <2>2. \/ call = "end" /\ UNCHANGED <<ctx, encBufs, sent, dpb>>
        \/ call = "wait" /\ caller = "return" /\ carg = Oldest
    BY <1>6, FrameEndMoves
  <2>3. \A u \in Placed : SameProgress(u)
    <3>1. CASE UNCHANGED ctx BY <3>1 DEF SameProgress
    <3>2. CASE caller = "return" /\ carg = Oldest
      <4>1. Oldest \notin Placed BY <3>2 DEF IInv, OneJobEach, JobsApart
      <4> QED BY <1>b, <2>1, <4>1
    <3> QED BY <2>2, <3>1, <3>2
  <2> QED BY <1>c, <2>1, <2>3
<1>7. CASE BeginClose
  <2>1. UNCHANGED <<phase, ctx, call, failures, run, done, cur, wk, caller, carg>>
    BY <1>7 DEF BeginClose, poolVars
  <2>2. \A u \in Arg : InPipe(u)' => InPipe(u) BY <2>1 DEF InPipe, Oldest
  <2>3. \A u : SameProgress(u) BY <2>1 DEF SameProgress
  <2>4. call # "run" /\ caller # "return" BY <1>7 DEF BeginClose, IInv, InStep
  <2> QED BY <1>c, <2>1, <2>2, <2>3, <2>4
<1>8. CASE Flush
  <2>1. /\ \A u \in Arg : SameProgress(u) /\ (InPipe(u)' <=> InPipe(u))
        /\ call = "none" /\ call' = "end" /\ failures' = failures
        /\ UNCHANGED <<run, done, cur, wk, caller, carg>>
    BY <1>8, FlushMoves
  <2>2. caller # "return" BY <2>1 DEF IInv, InStep
  <2>3. \A u \in Arg : ctx'[u].failed => ctx[u].failed BY <2>1 DEF SameProgress
  <2> QED BY <1>b, <1>c, <2>1, <2>2, <2>3
<1>9. CASE DeletePool
  <2>1. /\ UNCHANGED <<phase, ctx, call, failures, run, done, cur>> /\ caller' = "join"
        /\ call = "none" /\ wk' = Awakened
    BY <1>9 DEF DeletePool, Delete
  <2>2. \A u \in Arg : InPipe(u)' => InPipe(u) BY <2>1 DEF InPipe, Oldest
  <2>3. \A u : SameProgress(u) BY <2>1 DEF SameProgress
  <2>4. \A v \in Worker : wk'[v] \in {"work", "push"} => wk'[v] = wk[v]
    BY <1>b, <2>1 DEF Awakened
  <2> QED BY <1>c, <2>1, <2>2, <2>3, <2>4
<1>10. CASE JoinPool
  <2>1. /\ UNCHANGED frameVars /\ UNCHANGED <<cur, wk>> /\ run' = <<>> /\ done' = <<>>
        /\ caller' = "freed"
    BY <1>10 DEF JoinPool, Joined
  <2>2. ToSet(run') = {} /\ ToSet(done') = {} BY <2>1 DEF ToSet
  <2> QED BY <1>a, <1>4, <2>1, <2>2, JobsRest
<1>11. CASE Reopen
  <2>1. /\ caller = "freed" /\ caller' = "out" /\ UNCHANGED <<run, done>>
        /\ \A v \in Worker : wk'[v] = "top"
        /\ ctx' = NewCtx /\ failures' = 0 /\ call' = call
    BY <1>11 DEF Reopen, Create
  <2>2. run' = <<>> /\ done' = <<>> BY <2>1 DEF IInv, PoolInv, FreedIsIdle
  <2>3. ToSet(run') = {} /\ ToSet(done') = {} BY <2>2 DEF ToSet
  <2>4. \A u \in Arg : ctx'[u].active = FALSE /\ ctx'[u].failed = FALSE
    BY <2>1 DEF NewCtx, Context
  <2>5. call' = "none" BY <2>1 DEF IInv, InStep, TypeOK
  <2>6. \A u \in Arg : ~InPipe(u)' BY <2>4, <2>5 DEF InPipe
  <2> QED BY <2>1, <2>3, <2>4, <2>5, <2>6 DEF JobsRun
<1>12. ASSUME NEW w \in Worker, PoolThread(w) PROVE JobsRun'
  BY <1>12, ThreadGoesOn DEF PoolThread
<1>13. ASSUME NEW w \in Worker, NEW t \in Arg,
              Await(w, t) \/ CodeRow(w, t) \/ Publish(w, t) \/ Fail(w, t)
       PROVE  JobsRun'
  BY <1>13, JobGoesOn
<1>14. CASE UNCHANGED vars
  <2>1. UNCHANGED frameVars /\ UNCHANGED <<run, done, cur, wk, caller, carg>>
    BY <1>14 DEF vars, poolVars
  <2>2. ToSet(run') = ToSet(run) /\ ToSet(done') = ToSet(done) BY <2>1
  <2> QED BY <1>a, <1>4, <2>1, <2>2, JobsRest
<1> QED BY <1>1, <1>2, <1>3, <1>5, <1>6, <1>7, <1>8, <1>9, <1>10, <1>11, <1>12, <1>13,
           <1>14 DEF Next

-----------------------------------------------------------------------------
(* Reconstructed pictures and who holds them.                              *)

\* Buffers with the same picture in them, and the same lines of it.
Alike(x, y) ==
  x.pic = y.pic /\ x.kept = y.kept /\ x.lines = y.lines /\ x.final = y.final

\* Reconstructed pictures are buffers with a count.
LEMMA DecBuffers ==
  /\ Counting(DecBuffer)
  /\ \A x \in DecBuffer, n \in Nat : Alike(With(x, n), x)
  /\ \A p \in Int, k \in BOOLEAN : NewDec(p, k) \in DecBuffer /\ NewDec(p, k).count = 1
<1>1. ASSUME NEW x \in DecBuffer, NEW n \in Nat
      PROVE  [x EXCEPT !.count = n] \in DecBuffer /\ Alike(With(x, n), x)
  BY DEF DecBuffer, With, Alike
<1>2. \A x \in DecBuffer : "count" \in DOMAIN x /\ x.count \in Nat BY DEF DecBuffer
<1>3. \A p \in Int, k \in BOOLEAN : NewDec(p, k) \in DecBuffer /\ NewDec(p, k).count = 1
  BY DEF NewDec, DecBuffer
<1> QED BY <1>1, <1>2, <1>3 DEF Counting

\* The contexts other than the oldest that use b.
Rest(b) == Cardinality({t \in Arg : t # Oldest /\ b \in Used(t)})

\* Lists whose counts are those of these contexts and of one that uses X.
Holds(l, X) ==
  /\ Listed(l, DecBuffer) /\ X \subseteq DOMAIN l.buf
  /\ \A b \in DOMAIN l.buf : l.buf[b].count = Rest(b) + (IF b \in X THEN 1 ELSE 0)

SameBufs(l, m) == DOMAIN l.buf = DOMAIN m.buf /\ \A b \in DOMAIN l.buf : Alike(l.buf[b], m.buf[b])

\* Those who hold a buffer, the oldest context aside, can be counted.
LEMMA RestIsNumber ==
  ASSUME NEW b
  PROVE  /\ Rest(b) \in Nat
         /\ Rest(b) = 0 => \A t \in Arg : t # Oldest => b \notin Used(t)
<1> DEFINE S == {t \in Arg : t # Oldest /\ b \in Used(t)}
<1>1. IsFiniteSet(S) /\ Cardinality(S) \in Nat
  <2>1. S \in SUBSET Arg OBVIOUS
  <2> HIDE DEF S
  <2> QED BY <2>1, Contexts, FS_Subset, FS_CardinalityType
<1>2. Cardinality(S) = 0 => S = {}
  <2> HIDE DEF S
  <2> QED BY <1>1, FS_EmptySet
<1> QED BY <1>1, <1>2 DEF Rest

\* A context fills a picture it does not refer to, so it is counted once.
LEMMA HoldersAre ==
  ASSUME NEW b, \A t \in Arg : ctx[t].fdec \notin ToSet(ctx[t].ref)
  PROVE  Holders(b) = Cardinality({t \in Arg : b \in Used(t)})
<1> DEFINE F == {t \in Arg : ctx[t].fdec = b}
           R == {t \in Arg : b \in ToSet(ctx[t].ref)}
           U == {t \in Arg : b \in Used(t)}
<1>1. F \in SUBSET Arg /\ R \in SUBSET Arg /\ F \cap R = {} /\ U = F \cup R BY DEF Used
<1>2. Holders(b) = Cardinality(F) + Cardinality(R) BY DEF Holders
<1> HIDE DEF F, R, U
<1>3. /\ IsFiniteSet(F) /\ IsFiniteSet(R) /\ Cardinality(F) \in Nat /\ Cardinality(R) \in Nat
  BY <1>1, Contexts, FS_Subset, FS_CardinalityType
<1>4. Cardinality(U) = Cardinality(F) + Cardinality(R) - Cardinality(F \cap R)
  BY <1>1, <1>3, FS_Union
<1>5. Cardinality(F \cap R) = 0 BY <1>1, FS_EmptySet
<1>6. Cardinality(U) = Cardinality(F) + Cardinality(R) BY <1>3, <1>4, <1>5
<1> QED BY <1>2, <1>6 DEF U

\* The users of b are the others and, maybe, the oldest.
LEMMA UsersAre ==
  ASSUME phase \in Arg, NEW b
  PROVE  Cardinality({t \in Arg : b \in Used(t)})
           = Rest(b) + (IF b \in Used(Oldest) THEN 1 ELSE 0)
<1> DEFINE U == {t \in Arg : b \in Used(t)}
           S == {t \in Arg : t # Oldest /\ b \in Used(t)}
<1>1. Oldest \in Arg BY Ages
<1>2. S \in SUBSET Arg /\ Oldest \notin S OBVIOUS
<1>3. Rest(b) = Cardinality(S) BY DEF Rest
<1>4. CASE b \in Used(Oldest)
  <2>1. U = S \cup {Oldest} BY <1>1, <1>4
  <2> HIDE DEF U, S
  <2>2. IsFiniteSet(S) BY <1>2, Contexts, FS_Subset
  <2>3. Cardinality(U) = Cardinality(S) + 1 BY <1>2, <2>1, <2>2, FS_AddElement
  <2> QED BY <1>3, <1>4, <2>3 DEF U
<1>5. CASE b \notin Used(Oldest)
  <2>1. U = S BY <1>5
  <2>2. Rest(b) \in Nat BY RestIsNumber
  <2> HIDE DEF U, S
  <2>3. Cardinality(U) = Rest(b) + 0 BY <1>3, <2>1, <2>2
  <2> QED BY <1>5, <2>3 DEF U
<1> QED BY <1>4, <1>5

\* Before a step the lists hold what the oldest context uses.
LEMMA HoldsAll ==
  ASSUME IInv, PicturesShared
  PROVE  Holds(decBufs, Used(Oldest))
<1>1. phase \in Arg /\ Oldest \in Arg BY Ages DEF IInv, TypeOK
<1>2. Listed(decBufs, DecBuffer) BY DEF PicturesShared, Listed
<1>3. Used(Oldest) \subseteq DOMAIN decBufs.buf BY <1>1 DEF PicturesShared
<1>4. \A b \in DOMAIN decBufs.buf :
        decBufs.buf[b].count = Rest(b) + (IF b \in Used(Oldest) THEN 1 ELSE 0)
  <2> TAKE b \in DOMAIN decBufs.buf
  <2>1. decBufs.buf[b].count = Holders(b) BY DEF PicturesShared
  <2>2. Holders(b) = Cardinality({t \in Arg : b \in Used(t)})
    BY HoldersAre DEF PicturesShared
  <2> QED BY <1>1, <2>1, <2>2, UsersAre
<1> QED BY <1>2, <1>3, <1>4 DEF Holds

\* A picture that is not used any more.
LEMMA HoldsReleased ==
  ASSUME NEW l, NEW X, Holds(l, X), NEW b \in X
  PROVE  /\ Holds(Release(l, b), X \ {b}) /\ SameBufs(Release(l, b), l)
         /\ Len(Release(l, b).buf) = Len(l.buf)
<1> DEFINE r == Release(l, b)
<1>1. Counting(DecBuffer) /\ Listed(l, DecBuffer) /\ b \in DOMAIN l.buf
  BY DecBuffers DEF Holds
<1>2. l.buf[b].count = Rest(b) + 1 /\ Rest(b) \in Nat BY <1>1, RestIsNumber DEF Holds
<1>3. l.buf[b].count >= 1 BY <1>2
<1>a. Counting(DecBuffer) BY <1>1
<1>b. Listed(l, DecBuffer) BY <1>1
<1>c. b \in DOMAIN l.buf BY <1>1
<1>4. /\ Listed(r, DecBuffer) /\ Len(r.buf) = Len(l.buf) /\ DOMAIN r.buf = DOMAIN l.buf
      /\ r.buf[b] = With(l.buf[b], l.buf[b].count - 1)
      /\ \A c \in DOMAIN l.buf : c # b => r.buf[c] = l.buf[c]
      /\ Len(r.free) = Len(l.free) + (IF l.buf[b].count = 1 THEN 1 ELSE 0)
  BY <1>a, <1>b, <1>c, <1>3, Released
<1> HIDE DEF r
<1>5. l.buf[b] \in DecBuffer BY <1>1, ListedMeans
<1>6. l.buf[b].count - 1 = Rest(b) BY <1>2
<1>7. r.buf[b].count = Rest(b) /\ Alike(r.buf[b], l.buf[b])
  <2>1. r.buf[b] = With(l.buf[b], Rest(b)) /\ Rest(b) \in Nat BY <1>2, <1>4, <1>6
  <2>2. With(l.buf[b], Rest(b)).count = Rest(b) BY <1>a, <1>5, <2>1, WithCount
  <2>3. Alike(With(l.buf[b], Rest(b)), l.buf[b]) BY <1>5, <2>1, DecBuffers
  <2> QED BY <2>1, <2>2, <2>3
<1>8. SameBufs(r, l) BY <1>4, <1>7 DEF SameBufs, Alike
<1>9. X \ {b} \subseteq DOMAIN r.buf BY <1>4 DEF Holds
<1>10. \A c \in DOMAIN r.buf : r.buf[c].count = Rest(c) + (IF c \in X \ {b} THEN 1 ELSE 0)
  <2> TAKE c \in DOMAIN r.buf
  <2>1. CASE c = b BY <1>2, <1>7, <2>1
  <2>2. CASE c # b BY <1>4, <2>2 DEF Holds
  <2> QED BY <2>1, <2>2
<1> QED BY <1>4, <1>8, <1>9, <1>10 DEF Holds, r

\* Giving back some of what is held.
LEMMA HoldsReleasedAll ==
  ASSUME NEW l, NEW X, Holds(l, X), NEW bs \in Seq(Nat), IsInjective(bs), ToSet(bs) \subseteq X
  PROVE  /\ Holds(ReleaseAll(l, bs), X \ ToSet(bs)) /\ SameBufs(ReleaseAll(l, bs), l)
         /\ Len(ReleaseAll(l, bs).buf) = Len(l.buf)
<1> DEFINE r == ReleaseAll(l, bs)
<1>1. Counting(DecBuffer) /\ Listed(l, DecBuffer) BY DecBuffers DEF Holds
<1>2. \A b \in DOMAIN l.buf : /\ l.buf[b].count = Rest(b) + (IF b \in X THEN 1 ELSE 0)
                              /\ Rest(b) \in Nat /\ l.buf[b] \in DecBuffer
  BY <1>1, ListedMeans, RestIsNumber DEF Holds
<1>3. \A b \in ToSet(bs) : b \in DOMAIN l.buf /\ l.buf[b].count >= 1 BY <1>2 DEF Holds
<1>4. /\ Listed(r, DecBuffer) /\ DOMAIN r.buf = DOMAIN l.buf /\ Len(r.buf) = Len(l.buf)
      /\ \A c \in DOMAIN l.buf :
           r.buf[c] = With(l.buf[c], l.buf[c].count - (IF c \in ToSet(bs) THEN 1 ELSE 0))
  BY <1>1, <1>3, ReleasedEach
<1> HIDE DEF r
<1> DEFINE m(c) == Rest(c) + (IF c \in X \ ToSet(bs) THEN 1 ELSE 0)
<1>5. \A c \in DOMAIN l.buf : /\ m(c) \in Nat
                              /\ m(c) = l.buf[c].count - (IF c \in ToSet(bs) THEN 1 ELSE 0)
  <2> TAKE c \in DOMAIN l.buf
  <2>1. c \in ToSet(bs) => c \in X OBVIOUS
  <2> QED BY <1>2, <2>1
<1> HIDE DEF m
<1>6. \A c \in DOMAIN l.buf : r.buf[c].count = m(c) /\ Alike(r.buf[c], l.buf[c])
  <2> TAKE c \in DOMAIN l.buf
  <2>1. r.buf[c] = With(l.buf[c], m(c)) /\ m(c) \in Nat /\ l.buf[c] \in DecBuffer
    BY <1>2, <1>4, <1>5
  <2> DEFINE x == l.buf[c]
             i == m(c)
  <2>2. Counting(DecBuffer) /\ x \in DecBuffer /\ i \in Nat BY <1>1, <2>1
  <2> HIDE DEF x, i
  <2>3. With(x, i).count = i BY <2>2, WithCount
  <2>4. Alike(With(x, i), x) BY <2>2, DecBuffers
  <2> QED BY <2>1, <2>3, <2>4 DEF x, i
<1>7. SameBufs(r, l) BY <1>4, <1>6 DEF SameBufs, Alike
<1>8. X \ ToSet(bs) \subseteq DOMAIN r.buf BY <1>4 DEF Holds
<1>9. \A c \in DOMAIN r.buf : r.buf[c].count = Rest(c) + (IF c \in X \ ToSet(bs) THEN 1 ELSE 0)
  BY <1>4, <1>6 DEF m
<1> QED BY <1>4, <1>7, <1>8, <1>9 DEF Holds, r

\* A buffer is filled that neither the other contexts nor X use.
LEMMA HoldsFilled ==
  ASSUME NEW l, NEW X, Holds(l, X), NEW new \in DecBuffer, new.count = 1,
         \A t \in Arg : Used(t) \subseteq DOMAIN l.buf
  PROVE  LET r == Pop(l, new)
             f == Popped(l)
         IN /\ Holds(r, X \cup {f}) /\ f \notin X /\ f \in Nat
            /\ \A t \in Arg : t # Oldest => f \notin Used(t)
            /\ f \in DOMAIN r.buf /\ r.buf[f] = new
            /\ DOMAIN l.buf \subseteq DOMAIN r.buf /\ DOMAIN r.buf \subseteq DOMAIN l.buf \cup {f}
            /\ \A c \in DOMAIN l.buf : c # f => r.buf[c] = l.buf[c]
<1> DEFINE r == Pop(l, new)
           f == Popped(l)
<1>a. Counting(DecBuffer) BY DecBuffers
<1>b. Listed(l, DecBuffer) BY DEF Holds
<1>c. new.count >= 1 OBVIOUS
<1>1. /\ Listed(r, DecBuffer) /\ f \in DOMAIN r.buf /\ r.buf[f] = new /\ f \in Nat \ {0}
      /\ f \in DOMAIN l.buf => l.buf[f].count = 0
      /\ \A c \in DOMAIN l.buf :
           c \in DOMAIN r.buf /\ (c # f => r.buf[c] = l.buf[c])
      /\ \A c \in DOMAIN r.buf : c = f \/ c \in DOMAIN l.buf
      /\ Len(r.free) = IF Len(l.free) = 0 THEN 0 ELSE Len(l.free) - 1
  BY <1>a, <1>b, <1>c, FilledAnew
<1> HIDE DEF r, f
<1>2. f \notin X /\ \A t \in Arg : t # Oldest => f \notin Used(t)
  <2>1. CASE f \in DOMAIN l.buf
    <3>1. Rest(f) + (IF f \in X THEN 1 ELSE 0) = 0 BY <1>1, <2>1 DEF Holds
    <3>2. Rest(f) = 0 /\ f \notin X BY <3>1, RestIsNumber
    <3> QED BY <3>2, RestIsNumber
  <2>2. CASE f \notin DOMAIN l.buf BY <2>2 DEF Holds
  <2> QED BY <2>1, <2>2
<1>3. Rest(f) = 0
  <2>1. {t \in Arg : t # Oldest /\ f \in Used(t)} = {} BY <1>2
  <2> QED BY <2>1, FS_EmptySet DEF Rest
<1>4. X \cup {f} \subseteq DOMAIN r.buf BY <1>1 DEF Holds
<1>5. \A c \in DOMAIN r.buf : r.buf[c].count = Rest(c) + (IF c \in X \cup {f} THEN 1 ELSE 0)
  <2> TAKE c \in DOMAIN r.buf
  <2>1. CASE c = f BY <1>1, <1>3, <2>1
  <2>2. CASE c # f BY <1>1, <2>2 DEF Holds
  <2> QED BY <2>1, <2>2
<1>6. Holds(r, X \cup {f}) BY <1>1, <1>4, <1>5 DEF Holds
<1> QED BY <1>1, <1>2, <1>6 DEF r, f

\* A sequence with one more element.
LEMMA Appended ==
  ASSUME NEW s \in Seq(Nat), NEW e \in Nat
  PROVE  LET r == Append(s, e)
         IN /\ r \in Seq(Nat) /\ Len(r) = Len(s) + 1 /\ DOMAIN r = 1 .. (Len(s) + 1)
            /\ \A i \in 1 .. Len(s) : r[i] = s[i]
            /\ r[Len(s) + 1] = e /\ DOMAIN s = 1 .. Len(s) /\ Len(s) \in Nat
            /\ \A i \in DOMAIN r : (i \in DOMAIN s /\ r[i] = s[i]) \/ (i = Len(s) + 1 /\ r[i] = e)
<1> DEFINE r == Append(s, e)
<1>1. DOMAIN s = 1 .. Len(s) /\ Len(s) \in Nat OBVIOUS
<1>2. r \in Seq(Nat) /\ Len(r) = Len(s) + 1 BY AppendProperties
<1>3. (\A i \in 1 .. Len(s) : r[i] = s[i]) /\ r[Len(s) + 1] = e BY AppendProperties
<1> HIDE DEF r
<1>4. DOMAIN r = 1 .. (Len(s) + 1) BY <1>2
<1>5. \A i \in DOMAIN r : i \in 1 .. Len(s) \/ i = Len(s) + 1 BY <1>1, <1>4
<1> QED BY <1>1, <1>2, <1>3, <1>4, <1>5 DEF r

\* The references of a context and the picture it fills.
Refs(t) == Append(ctx[t].ref, ctx[t].fdec)

\* The references of a context with the picture it has filled.
LEMMA RefsAppended ==
  ASSUME PicturesShared, NEW t \in Arg
  PROVE  /\ Refs(t) \in Seq(Nat) /\ IsInjective(Refs(t)) /\ ToSet(Refs(t)) = Used(t)
         /\ Len(Refs(t)) = Len(ctx[t].ref) + 1
         /\ DOMAIN ctx[t].ref = 1 .. Len(ctx[t].ref) /\ Len(ctx[t].ref) \in Nat
         /\ DOMAIN Refs(t) = 1 .. (Len(ctx[t].ref) + 1)
         /\ \A i \in 1 .. Len(ctx[t].ref) : Refs(t)[i] = ctx[t].ref[i]
         /\ Refs(t)[Len(ctx[t].ref) + 1] = ctx[t].fdec
<1>1. /\ ctx[t].ref \in Seq(Nat) /\ IsInjective(ctx[t].ref)
      /\ ctx[t].fdec \notin ToSet(ctx[t].ref) /\ Used(t) \subseteq DOMAIN decBufs.buf
      /\ decBufs.buf \in Seq(DecBuffer)
  BY DEF PicturesShared
<1>2. ctx[t].fdec \in Nat
  <2>1. ctx[t].fdec \in DOMAIN decBufs.buf BY <1>1 DEF Used
  <2> QED BY <1>1, <2>1
<1> DEFINE s == ctx[t].ref
           e == ctx[t].fdec
           r == Append(s, e)
<1>3. s \in Seq(Nat) /\ e \in Nat /\ r = Refs(t) BY <1>1, <1>2 DEF Refs
<1>4. \A i, j \in DOMAIN s : s[i] = s[j] => i = j BY <1>1 DEF IsInjective
<1>5. \A i \in DOMAIN s : s[i] # e BY <1>1 DEF ToSet
<1> HIDE DEF s, e
<1>6. /\ r \in Seq(Nat) /\ Len(r) = Len(s) + 1 /\ DOMAIN r = 1 .. (Len(s) + 1)
      /\ \A i \in 1 .. Len(s) : r[i] = s[i]
      /\ r[Len(s) + 1] = e /\ DOMAIN s = 1 .. Len(s) /\ Len(s) \in Nat
      /\ \A i \in DOMAIN r : (i \in DOMAIN s /\ r[i] = s[i]) \/ (i = Len(s) + 1 /\ r[i] = e)
  BY <1>3, Appended
<1> HIDE DEF r
<1>7. \A i \in DOMAIN r : (i \in DOMAIN s /\ r[i] = s[i]) \/ (i = Len(s) + 1 /\ r[i] = e)
  BY <1>6
<1>8. IsInjective(r)
  <2>1. \A i, j \in DOMAIN r : r[i] = r[j] => i = j BY <1>4, <1>5, <1>7
  <2> QED BY <2>1 DEF IsInjective
<1>9. ToSet(r) = ToSet(s) \cup {e}
  <2>1. \A x \in ToSet(r) : x \in ToSet(s) \cup {e} BY <1>7 DEF ToSet
  <2>2. e \in ToSet(r)
    <3>1. Len(s) + 1 \in DOMAIN r BY <1>6
    <3> QED BY <1>6, <3>1 DEF ToSet
  <2>3. \A x \in ToSet(s) : x \in ToSet(r)
    <3>1. \A i \in DOMAIN s : i \in DOMAIN r /\ r[i] = s[i] BY <1>6
    <3> QED BY <3>1 DEF ToSet
  <2> QED BY <2>1, <2>2, <2>3
<1> QED BY <1>3, <1>6, <1>8, <1>9 DEF s, e, Used

\* The lists when the oldest context has got the pictures of the latest.
LEMMA HoldsSynced ==
  ASSUME IInv, PicturesShared
  PROVE  LET r == SyncBufs(Oldest, phase)
         IN /\ Holds(r, Used(phase)) /\ SameBufs(r, decBufs) /\ Len(r.buf) = Len(decBufs.buf)
<1> DEFINE l == decBufs
           h == HoldAll(l, Refs(phase))
           r == ReleaseAll(h, Refs(Oldest))
           p(b) == IF b \in Used(phase) THEN 1 ELSE 0
           o(b) == IF b \in Used(Oldest) THEN 1 ELSE 0
<1>1. phase \in Arg /\ Oldest \in Arg /\ Oldest # phase BY Ages DEF IInv, TypeOK
<1>2. r = SyncBufs(Oldest, phase) BY DEF SyncBufs, Refs
<1>3. Holds(l, Used(Oldest)) BY HoldsAll
<1>4. Counting(DecBuffer) BY DecBuffers
<1>5. Listed(l, DecBuffer) BY <1>3 DEF Holds
<1>6. /\ Refs(phase) \in Seq(Nat) /\ IsInjective(Refs(phase)) /\ ToSet(Refs(phase)) = Used(phase)
      /\ Refs(Oldest) \in Seq(Nat) /\ IsInjective(Refs(Oldest)) /\ ToSet(Refs(Oldest)) = Used(Oldest)
  BY <1>1, RefsAppended
<1>7. \A b \in DOMAIN l.buf : /\ l.buf[b] \in DecBuffer /\ l.buf[b].count \in Nat
                              /\ l.buf[b].count = Rest(b) + o(b) /\ Rest(b) \in Nat
                              /\ b \in Used(phase) => Rest(b) > 0
  <2>1. \A b \in DOMAIN l.buf : /\ l.buf[b] \in DecBuffer /\ l.buf[b].count \in Nat
                                /\ l.buf[b].count = Rest(b) + o(b)
    BY <1>3, <1>4, <1>5, ListedMeans DEF Holds
  <2>2. \A b : Rest(b) \in Nat /\ (b \in Used(phase) => Rest(b) # 0) BY <1>1, RestIsNumber
  <2> HIDE DEF o, l
  <2> QED BY <2>1, <2>2
<1>8. Used(phase) \subseteq DOMAIN l.buf /\ Used(Oldest) \subseteq DOMAIN l.buf
  BY <1>1 DEF PicturesShared
<1>9. \A b \in ToSet(Refs(phase)) : b \in DOMAIN l.buf /\ l.buf[b].count >= 1
  <2> TAKE b \in ToSet(Refs(phase))
  <2>1. b \in Used(phase) /\ b \in DOMAIN l.buf BY <1>6, <1>8
  <2>2. o(b) \in {0, 1} OBVIOUS
  <2> HIDE DEF l, o
  <2> QED BY <1>7, <2>1, <2>2
<1>10. /\ Listed(h, DecBuffer) /\ Len(h.buf) = Len(l.buf) /\ DOMAIN h.buf = DOMAIN l.buf
       /\ \A c \in DOMAIN l.buf :
            h.buf[c] = With(l.buf[c], l.buf[c].count + (IF c \in ToSet(Refs(phase)) THEN 1 ELSE 0))
       /\ h.free = l.free
  BY <1>4, <1>5, <1>6, <1>9, HeldEach
<1> HIDE DEF h, l
<1>11. \A c \in DOMAIN l.buf : /\ h.buf[c].count = Rest(c) + o(c) + p(c)
                               /\ h.buf[c] \in DecBuffer /\ Alike(h.buf[c], l.buf[c])
  <2> TAKE c \in DOMAIN l.buf
  <2>1. p(c) \in {0, 1} /\ o(c) \in {0, 1} OBVIOUS
  <2>2. h.buf[c] = With(l.buf[c], l.buf[c].count + p(c)) BY <1>6, <1>10
  <2> HIDE DEF p, o
  <2>3. l.buf[c].count + p(c) \in Nat /\ l.buf[c].count + p(c) = Rest(c) + o(c) + p(c)
    BY <1>7, <2>1
  <2>4. l.buf[c] \in DecBuffer BY <1>7
  <2> DEFINE n == l.buf[c].count + p(c)
  <2>5. n \in Nat BY <2>3
  <2> HIDE DEF n
  <2>6. With(l.buf[c], n) \in DecBuffer /\ With(l.buf[c], n).count = n
        /\ Alike(With(l.buf[c], n), l.buf[c])
    BY <1>4, <2>4, <2>5, WithCount, DecBuffers
  <2> QED BY <2>2, <2>3, <2>6 DEF n
<1>12. \A b \in ToSet(Refs(Oldest)) : b \in DOMAIN h.buf /\ h.buf[b].count >= 1
  <2> TAKE b \in ToSet(Refs(Oldest))
  <2>1. b \in Used(Oldest) /\ b \in DOMAIN l.buf BY <1>6, <1>8
  <2>2. p(b) \in {0, 1} /\ o(b) = 1 BY <2>1
  <2> HIDE DEF p, o
  <2> QED BY <1>7, <1>10, <1>11, <2>1, <2>2
<1>13. /\ Listed(r, DecBuffer) /\ Len(r.buf) = Len(h.buf) /\ DOMAIN r.buf = DOMAIN h.buf
       /\ \A c \in DOMAIN h.buf :
            r.buf[c] = With(h.buf[c], h.buf[c].count - (IF c \in ToSet(Refs(Oldest)) THEN 1 ELSE 0))
  <2>1. Listed(h, DecBuffer) BY <1>10
  <2> QED BY <1>4, <1>6, <1>12, <2>1, ReleasedEach
<1> HIDE DEF r
<1>14. \A c \in DOMAIN r.buf : r.buf[c].count = Rest(c) + p(c) /\ Alike(r.buf[c], l.buf[c])
  <2> TAKE c \in DOMAIN r.buf
  <2>0. c \in DOMAIN l.buf BY <1>10, <1>13
  <2>1. p(c) \in {0, 1} /\ o(c) \in {0, 1} OBVIOUS
  <2>2. r.buf[c] = With(h.buf[c], h.buf[c].count - o(c)) BY <1>6, <1>13
  <2> HIDE DEF p, o
  <2> DEFINE n == Rest(c) + p(c)
  <2>3. n \in Nat /\ h.buf[c].count - o(c) = n BY <1>7, <1>11, <2>0, <2>1
  <2>4. h.buf[c] \in DecBuffer /\ Alike(h.buf[c], l.buf[c]) BY <1>11, <2>0
  <2> HIDE DEF n
  <2>5. With(h.buf[c], n).count = n /\ Alike(With(h.buf[c], n), h.buf[c])
    BY <1>4, <2>3, <2>4, WithCount, DecBuffers
  <2> QED BY <2>2, <2>3, <2>4, <2>5 DEF n, Alike
<1>15. /\ DOMAIN r.buf = DOMAIN l.buf /\ Len(r.buf) = Len(l.buf) BY <1>10, <1>13
<1>16. Holds(r, Used(phase)) BY <1>8, <1>13, <1>14, <1>15 DEF Holds
<1>17. SameBufs(r, l) BY <1>14, <1>15 DEF SameBufs
<1> QED BY <1>2, <1>15, <1>16, <1>17 DEF l

\* A sequence without repetitions without its first element.
LEMMA WithoutHead ==
  ASSUME NEW s \in Seq(Nat), IsInjective(s), Len(s) > 0
  PROVE  /\ Tail(s) \in Seq(Nat) /\ IsInjective(Tail(s)) /\ Len(Tail(s)) = Len(s) - 1
         /\ Head(s) \in ToSet(s) /\ ToSet(Tail(s)) = ToSet(s) \ {Head(s)}
         /\ \A i \in 1 .. (Len(s) - 1) : Tail(s)[i] = s[i + 1]
<1> DEFINE r == Tail(s)
           h == Head(s)
<1>1. DOMAIN s = 1 .. Len(s) /\ Len(s) \in Nat /\ s # <<>> OBVIOUS
<1>2. /\ r \in Seq(Nat) /\ Len(r) = Len(s) - 1 /\ h = s[1]
      /\ \A i \in 1 .. (Len(s) - 1) : r[i] = s[i + 1]
  BY <1>1, HeadTailProperties
<1>3. \A i, j \in DOMAIN s : s[i] = s[j] => i = j BY DEF IsInjective
<1> HIDE DEF r, h
<1>4. DOMAIN r = 1 .. (Len(s) - 1) BY <1>2
<1>5. 1 \in DOMAIN s /\ \A i \in DOMAIN r : i + 1 \in DOMAIN s /\ i + 1 # 1 /\ r[i] = s[i + 1]
  BY <1>1, <1>2, <1>4
<1>6. \A i \in DOMAIN s : i = 1 \/ (i - 1 \in DOMAIN r /\ r[i - 1] = s[i])
  <2> TAKE i \in DOMAIN s
  <2>1. CASE i # 1
    <3>1. i - 1 \in 1 .. (Len(s) - 1) /\ i - 1 + 1 = i BY <1>1, <2>1
    <3> QED BY <1>2, <1>4, <3>1
  <2>2. CASE i = 1 BY <2>2
  <2> QED BY <2>1, <2>2
<1>7. IsInjective(r)
  <2>1. \A i, j \in DOMAIN r : r[i] = r[j] => i = j
    <3> TAKE i, j \in DOMAIN r
    <3> HAVE r[i] = r[j]
    <3>1. i + 1 = j + 1 BY <1>3, <1>5
    <3>2. i \in Nat /\ j \in Nat BY <1>1, <1>4
    <3> QED BY <3>1, <3>2
  <2> QED BY <2>1 DEF IsInjective
<1>8. h \in ToSet(s) BY <1>2, <1>5 DEF ToSet
<1>9. ToSet(r) = ToSet(s) \ {h}
  <2>1. \A x \in ToSet(r) : x \in ToSet(s) /\ x # h
    <3> TAKE x \in ToSet(r)
    <3>1. PICK i \in DOMAIN r : r[i] = x BY DEF ToSet
    <3>2. s[i + 1] = x /\ i + 1 \in DOMAIN s /\ i + 1 # 1 BY <1>5, <3>1
    <3>3. x # s[1] BY <1>3, <1>5, <3>2
    <3> QED BY <1>2, <3>2, <3>3 DEF ToSet
  <2>2. \A x \in ToSet(s) : x # h => x \in ToSet(r)
    <3> TAKE x \in ToSet(s)
    <3> HAVE x # h
    <3>1. PICK i \in DOMAIN s : s[i] = x BY DEF ToSet
    <3>2. i # 1 BY <1>2, <3>1
    <3> QED BY <1>6, <3>1, <3>2 DEF ToSet
  <2> QED BY <2>1, <2>2
<1> QED BY <1>2, <1>7, <1>8, <1>9 DEF r, h

\* The references of the next picture, unless it is an IDR picture.
Kept    == decBufs.buf[ctx[phase].fdec].kept
NewRef1 ==
  IF ~Kept THEN ctx[phase].ref
  ELSE IF Len(Refs(phase)) <= NumRefs THEN Refs(phase) ELSE Tail(Refs(phase))

\* The references of the next picture: the last of those of the one before it.
LEMMA NewRefs ==
  ASSUME IInv, PicturesShared
  PROVE  /\ NewRef1 \in Seq(Nat) /\ IsInjective(NewRef1) /\ ToSet(NewRef1) \subseteq Used(phase)
         /\ Len(NewRef1) \in 0 .. NumRefs /\ DOMAIN NewRef1 = 1 .. Len(NewRef1)
         /\ Kept => /\ Len(NewRef1) = IF Len(ctx[phase].ref) + 1 <= NumRefs
                                      THEN Len(ctx[phase].ref) + 1 ELSE NumRefs
                    /\ \A i \in DOMAIN NewRef1 :
                         NewRef1[i] = Refs(phase)[i + (Len(ctx[phase].ref) + 1 - Len(NewRef1))]
<1> DEFINE s == ctx[phase].ref
           r == Refs(phase)
<1>1. phase \in Arg BY DEF IInv, TypeOK
<1>2. NumRefs \in Nat /\ NumRefs >= 1 BY FramesAssumption
<1>3. /\ s \in Seq(Nat) /\ IsInjective(s) /\ ToSet(s) \subseteq Used(phase) /\ Len(s) <= NumRefs
  BY <1>1 DEF PicturesShared, Used
<1>4. /\ r \in Seq(Nat) /\ IsInjective(r) /\ ToSet(r) = Used(phase)
      /\ Len(r) = Len(s) + 1 /\ DOMAIN r = 1 .. (Len(s) + 1)
  BY <1>1, RefsAppended
<1> HIDE DEF s, r
<1>5. Len(s) \in Nat /\ DOMAIN s = 1 .. Len(s) BY <1>3
<1>9. Len(s) <= NumRefs /\ Len(r) = Len(s) + 1 /\ Len(s) \in 0 .. NumRefs BY <1>2, <1>3, <1>4, <1>5
<1>6. CASE ~Kept
  <2>1. NewRef1 = s BY <1>6 DEF NewRef1, s
  <2>2. NewRef1 \in Seq(Nat) /\ IsInjective(NewRef1) /\ ToSet(NewRef1) \subseteq Used(phase)
    BY <1>3, <2>1
  <2>3. Len(NewRef1) \in 0 .. NumRefs /\ DOMAIN NewRef1 = 1 .. Len(NewRef1) BY <1>5, <1>9, <2>1
  <2> QED BY <1>6, <2>2, <2>3
<1>7. CASE Kept /\ Len(r) <= NumRefs
  <2>1. NewRef1 = r BY <1>7 DEF NewRef1, r
  <2>2. Len(s) + 1 - Len(r) = 0 /\ \A i \in DOMAIN r : i + 0 = i BY <1>4, <1>5
  <2>3. \A i \in DOMAIN r : r[i] = r[i + (Len(s) + 1 - Len(r))] BY <2>2
  <2>4. Len(r) \in 0 .. NumRefs /\ DOMAIN r = 1 .. Len(r) BY <1>2, <1>4, <1>5, <1>7
  <2> QED BY <1>4, <1>7, <2>1, <2>3, <2>4 DEF s, r
<1>8. CASE Kept /\ ~(Len(r) <= NumRefs)
  <2>1. NewRef1 = Tail(r) BY <1>8 DEF NewRef1, r
  <2>2. Len(s) = NumRefs 
    <3>1. ~(Len(r) <= NumRefs) BY <1>8
    <3>2. Len(s) \in Nat /\ Len(s) <= NumRefs /\ Len(r) = Len(s) + 1 BY <1>5, <1>9
    <3> QED BY <1>2, <3>1, <3>2
  <2>3. /\ Tail(r) \in Seq(Nat) /\ IsInjective(Tail(r)) /\ Len(Tail(r)) = Len(r) - 1
        /\ Head(r) \in ToSet(r) /\ ToSet(Tail(r)) = ToSet(r) \ {Head(r)}
        /\ \A i \in 1 .. (Len(r) - 1) : Tail(r)[i] = r[i + 1]
    <3>1. Len(r) > 0 BY <1>4, <1>5
    <3> QED BY <1>4, <3>1, WithoutHead
  <2> HIDE DEF r
  <2> DEFINE u == Tail(r)
  <2> HIDE DEF u
  <2>4. u \in Seq(Nat) /\ Len(u) = NumRefs BY <1>2, <1>4, <2>2, <2>3 DEF u
  <2>5. DOMAIN u = 1 .. NumRefs BY <2>4
  <2>6. \A i \in DOMAIN u : u[i] = r[i + (Len(s) + 1 - Len(u))]
    <3>1. Len(s) + 1 - Len(u) = 1 /\ Len(r) - 1 = NumRefs BY <1>2, <1>4, <2>2, <2>4
    <3> QED BY <2>3, <2>5, <3>1 DEF u
  <2>7. ToSet(u) \subseteq Used(phase) /\ IsInjective(u) BY <1>4, <2>3 DEF u
  <2>8. ~(Len(s) + 1 <= NumRefs) /\ Len(u) \in 0 .. NumRefs BY <1>2, <2>2, <2>4
  <2>9. NewRef1 = u BY <2>1 DEF u
  <2> QED BY <1>8, <2>4, <2>5, <2>6, <2>7, <2>8, <2>9 DEF s, r
<1> QED BY <1>6, <1>7, <1>8

\* The picture to be filled comes from lists that hold what the others and the
\* new references use.
LEMMA NewPicIs ==
  ASSUME IInv, PicturesShared
  PROVE  /\ NewPic.ref = NewRef1
         /\ \E l : /\ Holds(l, ToSet(NewRef1)) /\ SameBufs(l, decBufs)
                   /\ Len(l.buf) = Len(decBufs.buf)
                   /\ NewPic.bufs = Pop(l, NewDec(input, Keyint > 1)) /\ NewPic.fdec = Popped(l)
<1> DEFINE S == SyncBufs(Oldest, phase)
           c == Synced(Oldest, phase)
           e == ctx[phase].fdec
           l == IF ~Kept THEN Release(S, e)
                ELSE IF Len(Refs(phase)) <= NumRefs THEN S ELSE Release(S, Head(Refs(phase)))
<1>1. phase \in Arg /\ Oldest \in Arg BY Ages DEF IInv, TypeOK
<1>2. c.ref = ctx[phase].ref /\ c.fdec = e
  <2>1. DOMAIN ctx[Oldest] = Field BY <1>1 DEF IInv, TypeOK
  <2> QED BY <2>1 DEF Synced, Field
<1>3. Holds(S, Used(phase)) /\ SameBufs(S, decBufs) /\ Len(S.buf) = Len(decBufs.buf)
  BY HoldsSynced
<1>4. e \in Used(phase) /\ e \notin ToSet(ctx[phase].ref) BY <1>1 DEF Used, PicturesShared
<1>5. S.buf[e].kept = Kept
  <2>1. e \in DOMAIN S.buf BY <1>3, <1>4 DEF Holds
  <2> QED BY <1>3, <2>1 DEF SameBufs, Alike, Kept
<1>6. /\ NewPic.bufs = Pop(l, NewDec(input, Keyint > 1)) /\ NewPic.fdec = Popped(l)
      /\ NewPic.ref = NewRef1
  <2>1. NewPic = Updated(S, c, input) BY DEF NewPic
  <2> HIDE DEF S, c, e
  <2>2. Append(c.ref, c.fdec) = Refs(phase) BY <1>2 DEF Refs, e
  <2>3. NewPic = [bufs |-> Pop(l, NewDec(input, Keyint > 1)), fdec |-> Popped(l),
                  ref |-> NewRef1]
    BY <1>2, <1>5, <2>1, <2>2 DEF Updated, NewRef1
  <2> HIDE DEF l
  <2> QED BY <2>3
<1> HIDE DEF S, e, c
<1>7. Holds(l, ToSet(NewRef1)) /\ SameBufs(l, S) /\ Len(l.buf) = Len(S.buf)
  <2>1. CASE ~Kept
    <3>1. /\ Holds(Release(S, e), Used(phase) \ {e}) /\ SameBufs(Release(S, e), S)
          /\ Len(Release(S, e).buf) = Len(S.buf)
      BY <1>3, <1>4, HoldsReleased
    <3>2. ToSet(NewRef1) = Used(phase) \ {e} BY <1>4, <2>1 DEF NewRef1, Used, e
    <3> QED BY <2>1, <3>1, <3>2
  <2>2. /\ Refs(phase) \in Seq(Nat) /\ IsInjective(Refs(phase))
        /\ ToSet(Refs(phase)) = Used(phase) /\ Len(Refs(phase)) > 0
    BY <1>1, RefsAppended
  <2>3. CASE Kept /\ Len(Refs(phase)) <= NumRefs
    <3>1. NewRef1 = Refs(phase) /\ l = S BY <2>3 DEF NewRef1
    <3>2. SameBufs(S, S) BY DEF SameBufs, Alike
    <3> QED BY <1>3, <2>2, <3>1, <3>2
  <2>4. CASE Kept /\ ~(Len(Refs(phase)) <= NumRefs)
    <3> DEFINE h == Head(Refs(phase))
    <3>1. h \in Used(phase) /\ ToSet(Tail(Refs(phase))) = Used(phase) \ {h}
      BY <2>2, WithoutHead
    <3>2. NewRef1 = Tail(Refs(phase)) /\ l = Release(S, h) BY <2>4 DEF NewRef1
    <3> HIDE DEF h
    <3>3. /\ Holds(Release(S, h), Used(phase) \ {h}) /\ SameBufs(Release(S, h), S)
          /\ Len(Release(S, h).buf) = Len(S.buf)
      BY <1>3, <3>1, HoldsReleased
    <3> QED BY <3>1, <3>2, <3>3
  <2> QED BY <2>1, <2>3, <2>4
<1>8. SameBufs(l, decBufs) BY <1>3, <1>7 DEF SameBufs, Alike
<1>9. Len(l.buf) = Len(decBufs.buf) BY <1>3, <1>7
<1> QED BY <1>6, <1>7, <1>8, <1>9

\* When no buffer is free, every one is a reference of the second oldest context
\* or filled by one that is not the oldest.
LEMMA RoomForOne ==
  ASSUME IInv, PicturesShared, NEW l, NEW X, Holds(l, X), X \subseteq Used(phase), l.free = <<>>
  PROVE  Len(l.buf) + 1 <= Threads + NumRefs
<1> DEFINE s == Next1(Oldest)
           N == Arg \ {Oldest}
           F == {ctx[v].fdec : v \in N}
           f == [v \in N |-> ctx[v].fdec]
           R == ToSet(ctx[s].ref)
           D == DOMAIN l.buf
<1>1. /\ phase \in Arg /\ Oldest \in Arg /\ Oldest # phase
      /\ \A t \in Arg : Age(t) \in 0 .. (Threads - 1)
      /\ Threads \in Nat /\ Threads > 1 /\ Arg = 0 .. (Threads - 1)
      /\ IsFiniteSet(Arg) /\ Cardinality(Arg) = Threads
      /\ NumRefs \in Nat
  BY Ages, Contexts, FramesAssumption DEF IInv, TypeOK
<1>2. s \in Arg /\ s # Oldest /\ \A t \in Arg : t # Oldest => Age(t) <= Age(s)
  <2>1. s = IF Oldest = Threads - 1 THEN 0 ELSE Oldest + 1 BY <1>1, NextInTurn
  <2>2. Oldest = IF phase = Threads - 1 THEN 0 ELSE phase + 1 BY <1>1, NextInTurn DEF Oldest
  <2>3. s \in Arg /\ s # Oldest BY <1>1, <2>1, <2>2
  <2>4. Age(s) = Threads - 2 BY <1>1, <2>1, <2>2 DEF Age
  <2>5. \A t \in Arg : t # Oldest => Age(t) < Threads - 1 BY <1>1, Ages
  <2> QED BY <1>1, <2>3, <2>4, <2>5
<1>3. D = 1 .. Len(l.buf) /\ Len(l.buf) \in Nat
  <2>1. Listed(l, DecBuffer) BY DEF Holds
  <2> QED BY <2>1, DecBuffers, ListedMeans
<1>4. \A b \in D : \E t \in N : b \in Used(t)
  <2> TAKE b \in D
  <2>1. Listed(l, DecBuffer) BY DEF Holds
  <2>2. l.buf[b].count # 0
    <3>1. l.buf[b].count = 0 => \E i \in DOMAIN l.free : l.free[i] = b
      BY <2>1, DecBuffers, ListedMeans
    <3>2. DOMAIN l.free = {} OBVIOUS
    <3> QED BY <3>1, <3>2
  <2>3. CASE b \in X BY <1>1, <2>3
  <2>4. CASE b \notin X
    <3>1. Rest(b) # 0 BY <2>2, <2>4, RestIsNumber DEF Holds
    <3> DEFINE U == {t \in Arg : t # Oldest /\ b \in Used(t)}
    <3>2. U # {} BY <3>1, FS_EmptySet DEF Rest
    <3> QED BY <3>2
  <2> QED BY <2>3, <2>4
<1>5. D \subseteq R \cup F
  <2> SUFFICES ASSUME NEW b \in D PROVE b \in R \cup F OBVIOUS
  <2>1. PICK t \in N : b \in Used(t) BY <1>4
  <2>2. CASE b = ctx[t].fdec BY <2>1, <2>2
  <2>3. CASE b \in ToSet(ctx[t].ref)
    <3>1. Age(t) <= Age(s) BY <1>2, <2>1
    <3>2. b \in R \cup FilledSince(s) BY <1>2, <2>1, <2>3, <3>1 DEF PicturesShared
    <3>3. CASE b \in FilledSince(s)
      <4>1. PICK v \in Arg : Age(v) <= Age(s) /\ b = ctx[v].fdec BY <3>3 DEF FilledSince
      <4>2. v # Oldest
        <5>1. Age(s) < Age(Oldest) BY <1>1, <1>2, Ages
        <5>2. Age(s) \in Int /\ Age(Oldest) \in Int /\ Age(v) \in Int BY <1>1, <1>2, <4>1
        <5> QED BY <4>1, <5>1, <5>2
      <4> QED BY <4>1, <4>2
    <3> QED BY <3>2, <3>3
  <2> QED BY <2>1, <2>2, <2>3 DEF Used
<1>6. IsFiniteSet(N) /\ Cardinality(N) = Threads - 1
  <2>1. IsFiniteSet(Arg \ {Oldest}) /\ Cardinality(Arg \ {Oldest}) = Cardinality(Arg) - 1
    BY <1>1, FS_RemoveElement
  <2> QED BY <1>1, <2>1
<1>7. IsFiniteSet(F) /\ Cardinality(F) <= Threads - 1
  <2>1. f \in Surjection(N, F)
    <3>1. f \in [N -> F] OBVIOUS
    <3>2. \A y \in F : \E x \in N : f[x] = y OBVIOUS
    <3> QED BY <3>1, <3>2 DEF Surjection
  <2> HIDE DEF f, F, N
  <2> QED BY <1>6, <2>1, FS_Surjection
<1>8. IsFiniteSet(R) /\ Cardinality(R) <= NumRefs
  <2> DEFINE q == ctx[s].ref
  <2>1. q \in Seq(Nat) /\ Len(q) <= NumRefs BY <1>2 DEF PicturesShared
  <2>2. DOMAIN q = 1 .. Len(q) /\ Len(q) \in Nat BY <2>1
  <2>3. q \in Surjection(DOMAIN q, R)
    <3>1. q = [i \in DOMAIN q |-> q[i]] BY <2>1
    <3>2. \A i \in DOMAIN q : q[i] \in R BY DEF ToSet
    <3>3. q \in [DOMAIN q -> R] BY <3>1, <3>2
    <3>4. \A y \in R : \E i \in DOMAIN q : q[i] = y BY DEF ToSet
    <3> QED BY <3>3, <3>4 DEF Surjection
  <2> HIDE DEF q, R
  <2>4. IsFiniteSet(DOMAIN q) /\ Cardinality(DOMAIN q) = Len(q)
    <3> DEFINE h == Len(q)
    <3>1. h \in Int /\ 1 \in Int /\ h - 1 + 1 = h /\ (1 > h => h = 0) BY <2>2
    <3> HIDE DEF h
    <3>2. IsFiniteSet(1 .. h) /\ Cardinality(1 .. h) = h BY <3>1, FS_Interval
    <3> QED BY <2>2, <3>2 DEF h
  <2>5. IsFiniteSet(R) /\ Cardinality(R) <= Len(q) BY <2>3, <2>4, FS_Surjection
  <2>6. Cardinality(R) \in Nat BY <2>5, FS_CardinalityType
  <2> QED BY <1>1, <2>1, <2>2, <2>5, <2>6
<1> HIDE DEF R, F, D, s
<1>9. /\ IsFiniteSet(R \cup F) /\ Cardinality(R \cup F) <= NumRefs + (Threads - 1)
      /\ Cardinality(R \cup F) \in Nat
  <2>1. Cardinality(R \cup F) = Cardinality(R) + Cardinality(F) - Cardinality(R \cap F)
        /\ IsFiniteSet(R \cup F)
    BY <1>7, <1>8, FS_Union
  <2>2. IsFiniteSet(R \cap F) BY <1>8, FS_Intersection
  <2>3. /\ Cardinality(R) \in Nat /\ Cardinality(F) \in Nat /\ Cardinality(R \cap F) \in Nat
        /\ Cardinality(R \cup F) \in Nat
    BY <1>7, <1>8, <2>1, <2>2, FS_CardinalityType
  <2> QED BY <1>1, <1>7, <1>8, <2>1, <2>3
<1>10. Cardinality(D) = Len(l.buf) /\ Cardinality(D) <= Cardinality(R \cup F)
  <2> DEFINE n == Len(l.buf)
  <2>a. n \in Nat /\ D = 1 .. n BY <1>3
  <2> HIDE DEF n
  <2>b. Cardinality(1 .. n) = n BY <2>a, FS_Interval
  <2>1. Cardinality(D) = Len(l.buf) BY <2>a, <2>b DEF n
  <2> QED BY <1>5, <1>9, <2>1, FS_Subset
<1> QED BY <1>1, <1>3, <1>9, <1>10
\* The oldest context has become the youngest, with references R and a picture f.
LEMMA SharedAgain ==
  ASSUME IInv, PicturesShared, phase' = Oldest,
         \A u \in Arg : u # Oldest => SamePictures(u),
         NEW R \in Seq(Nat), IsInjective(R), ToSet(R) \subseteq Used(phase), Len(R) <= NumRefs,
         NEW f, f \notin ToSet(R), ctx'[Oldest].ref = R, ctx'[Oldest].fdec = f,
         Holds(decBufs', ToSet(R) \cup {f}), Len(decBufs'.buf) <= Threads + NumRefs,
         DOMAIN decBufs.buf \subseteq DOMAIN decBufs'.buf
  PROVE  PicturesShared'
<1>1. /\ phase \in Arg /\ Oldest \in Arg /\ Oldest # phase
      /\ \A t \in Arg : Age(t) \in 0 .. (Threads - 1) /\ (t # Oldest => Age(t) < Age(Oldest))
      /\ Threads \in Nat /\ phase' = Next1(phase)
      /\ Age(phase) = 0
  BY Ages, Contexts DEF IInv, TypeOK, Oldest, Age
<1>2. \A t \in Arg : (Age(t))' = IF t = Oldest THEN 0 ELSE Age(t) + 1 BY <1>1, Older
<1> DEFINE Ref1(t) == ToSet(ctx'[t].ref)
           Used1(t) == Ref1(t) \cup {ctx'[t].fdec}
           Old(t) == t # Oldest
<1>3. \A t \in Arg : Used(t)' = Used1(t) BY DEF Used
<1>4. \A t \in Arg : t # Oldest => Used1(t) = Used(t) /\ Ref1(t) = ToSet(ctx[t].ref)
  BY DEF SamePictures, Used
<1>5. \A t \in Arg : t = Oldest => Used1(t) = ToSet(R) \cup {f} OBVIOUS
<1>6. Listed(decBufs', DecBuffer) BY DEF Holds
<1>7. ASSUME NEW t \in Arg
      PROVE  /\ ctx'[t].ref \in Seq(Nat) /\ IsInjective(ctx'[t].ref)
             /\ ctx'[t].fdec \notin ToSet(ctx'[t].ref)
             /\ Used1(t) \subseteq DOMAIN decBufs'.buf
             /\ Len(ctx'[t].ref) <= NumRefs
  <2>1. CASE t = Oldest BY <1>5, <2>1 DEF Holds
  <2>2. CASE t # Oldest
    <3>1. SamePictures(t) BY <2>2
    <3>2. /\ ctx[t].ref \in Seq(Nat) /\ IsInjective(ctx[t].ref)
          /\ ctx[t].fdec \notin ToSet(ctx[t].ref)
          /\ Used(t) \subseteq DOMAIN decBufs.buf
          /\ Len(ctx[t].ref) <= NumRefs
      BY DEF PicturesShared
    <3> QED BY <1>4, <2>2, <3>1, <3>2 DEF SamePictures
  <2> QED BY <2>1, <2>2
<1>8. \A b \in DOMAIN decBufs'.buf : decBufs'.buf[b].count = Holders(b)'
  <2> TAKE b \in DOMAIN decBufs'.buf
  <2>1. decBufs'.buf[b].count = Rest(b) + (IF b \in ToSet(R) \cup {f} THEN 1 ELSE 0)
    BY DEF Holds
  <2> DEFINE F == {t \in Arg : ctx'[t].fdec = b}
             G == {t \in Arg : b \in Ref1(t)}
             S == {t \in Arg : t # Oldest /\ b \in Used(t)}
             o == IF b \in ToSet(R) \cup {f} THEN {Oldest} ELSE {}
  <2>2. Holders(b)' = Cardinality(F) + Cardinality(G) BY DEF Holders
  <2>3. F \in SUBSET Arg /\ G \in SUBSET Arg /\ F \cap G = {}
    BY <1>7
  <2>4. F \cup G = S \cup o
    <3>1. F \cup G = {t \in Arg : b \in Used1(t)} OBVIOUS
    <3>2. \A t \in Arg : b \in Used1(t) <=> t \in S \cup o BY <1>4, <1>5
    <3>3. S \cup o \subseteq Arg BY <1>1
    <3> HIDE DEF F, G, S, o, Used1
    <3> QED BY <3>1, <3>2, <3>3
  <2>5. S \in SUBSET Arg /\ Oldest \notin S /\ Rest(b) = Cardinality(S) BY DEF Rest
  <2>6. o = IF b \in ToSet(R) \cup {f} THEN {Oldest} ELSE {} OBVIOUS
  <2> HIDE DEF F, G, S, o
  <2>7. /\ IsFiniteSet(F) /\ IsFiniteSet(G) /\ IsFiniteSet(S)
        /\ Cardinality(F) \in Nat /\ Cardinality(G) \in Nat /\ Cardinality(S) \in Nat
    BY <2>3, <2>5, Contexts, FS_Subset, FS_CardinalityType
  <2>8. Cardinality(F \cup G) = Cardinality(F) + Cardinality(G)
    <3>1. Cardinality(F \cup G) = Cardinality(F) + Cardinality(G) - Cardinality(F \cap G)
      BY <2>7, FS_Union
    <3>2. Cardinality(F \cap G) = 0 BY <2>3, FS_EmptySet
    <3> QED BY <2>7, <3>1, <3>2
  <2>9. Cardinality(S \cup o) = Cardinality(S) + (IF b \in ToSet(R) \cup {f} THEN 1 ELSE 0)
    <3>1. CASE b \in ToSet(R) \cup {f}
      <4>1. o = {Oldest} BY <2>6, <3>1
      <4>2. Cardinality(S \cup {Oldest}) = Cardinality(S) + 1 BY <2>5, <2>7, FS_AddElement
      <4> QED BY <3>1, <4>1, <4>2
    <3>2. CASE b \notin ToSet(R) \cup {f}
      <4>1. S \cup o = S BY <2>6, <3>2
      <4>2. (IF b \in ToSet(R) \cup {f} THEN 1 ELSE 0) = 0 BY <3>2
      <4>3. Cardinality(S) + 0 = Cardinality(S) BY <2>7
      <4> QED BY <4>1, <4>2, <4>3
    <3> QED BY <3>1, <3>2
  <2> QED BY <2>1, <2>2, <2>4, <2>5, <2>8, <2>9
<1>9. ASSUME NEW t \in Arg, NEW u \in Arg, (Age(u) <= Age(t))'
      PROVE  Ref1(u) \subseteq Ref1(t) \cup FilledSince(t)'
  <2>1. CASE t = Oldest
    <3>1. u = Oldest
      <4>1. (Age(u))' <= 0 BY <1>2, <1>9, <2>1
      <4> QED BY <1>1, <1>2, <4>1
    <3> QED BY <2>1, <3>1
  <2>2. CASE t # Oldest
    <3>1. FilledSince(t) \subseteq FilledSince(t)'
      <4> SUFFICES ASSUME NEW v \in Arg, Age(v) <= Age(t)
                   PROVE  ctx[v].fdec \in FilledSince(t)'
        BY DEF FilledSince
      <4>1. v # Oldest BY <1>1, <2>2
      <4>2. (Age(v))' <= (Age(t))' BY <1>1, <1>2, <2>2, <4>1
      <4>3. ctx'[v].fdec = ctx[v].fdec BY <4>1 DEF SamePictures
      <4> QED BY <4>2, <4>3 DEF FilledSince
    <3>2. CASE u # Oldest
      <4>1. Age(u) <= Age(t) BY <1>1, <1>2, <1>9, <2>2, <3>2
      <4>2. ToSet(ctx[u].ref) \subseteq ToSet(ctx[t].ref) \cup FilledSince(t)
        BY <4>1 DEF PicturesShared
      <4> QED BY <1>4, <2>2, <3>1, <3>2, <4>2
    <3>3. CASE u = Oldest
      <4>1. Age(phase) <= Age(t) BY <1>1
      <4>2. ToSet(ctx[phase].ref) \subseteq ToSet(ctx[t].ref) \cup FilledSince(t)
        BY <1>1, <4>1 DEF PicturesShared
      <4>3. ctx[phase].fdec \in FilledSince(t) BY <1>1, <4>1 DEF FilledSince
      <4>4. Ref1(u) \subseteq ToSet(ctx[phase].ref) \cup {ctx[phase].fdec}
        BY <3>3 DEF Used
      <4> QED BY <1>4, <2>2, <3>1, <4>2, <4>3, <4>4
    <3> QED BY <3>2, <3>3
  <2> QED BY <2>1, <2>2
<1> QED
  <2>1. /\ decBufs' \in [buf : Seq(DecBuffer), free : Seq(Nat)]
        /\ IsInjective(decBufs'.free)
        /\ ToSet(decBufs'.free) = {b \in DOMAIN decBufs'.buf : decBufs'.buf[b].count = 0}
    BY <1>6 DEF Listed
  <2>2. \A t \in Arg : Used(t)' \subseteq DOMAIN decBufs'.buf BY <1>3, <1>7
  <2>3. \A t, u \in Arg : (Age(u) <= Age(t))' =>
          ToSet(ctx'[u].ref) \subseteq ToSet(ctx'[t].ref) \cup FilledSince(t)'
    BY <1>9
  <2> QED BY <1>7, <1>8, <2>1, <2>2, <2>3 DEF PicturesShared

\* A sequence without repetitions the other way round.
LEMMA Reversed ==
  ASSUME NEW s \in Seq(Nat), IsInjective(s)
  PROVE  /\ Reverse(s) \in Seq(Nat) /\ IsInjective(Reverse(s)) /\ ToSet(Reverse(s)) = ToSet(s)
         /\ DOMAIN Reverse(s) = DOMAIN s
         /\ \A i \in DOMAIN s : Reverse(s)[i] = s[Len(s) + 1 - i]
<1> DEFINE n == Len(s)
           r == Reverse(s)
<1>1. r = [i \in 1 .. n |-> s[(n - i) + 1]] BY DEF Reverse
<1>2. n \in Nat /\ DOMAIN s = 1 .. n /\ \A i \in DOMAIN s : s[i] \in Nat OBVIOUS
<1>3. \A i, j \in DOMAIN s : s[i] = s[j] => i = j BY DEF IsInjective
<1>4. \A i \in 1 .. n : /\ (n - i) + 1 \in 1 .. n /\ (n - i) + 1 = n + 1 - i
                        /\ (n - ((n - i) + 1)) + 1 = i
  BY <1>2
<1> HIDE DEF n, r
<1>5. DOMAIN r = 1 .. n /\ \A i \in 1 .. n : r[i] = s[(n - i) + 1] BY <1>1
<1>6. r \in Seq(Nat)
  <2>1. \A i \in 1 .. n : r[i] \in Nat BY <1>2, <1>4, <1>5
  <2>2. r \in [1 .. n -> Nat] BY <1>1, <1>5, <2>1
  <2> QED BY <1>2, <2>2
<1>7. IsInjective(r)
  <2>1. \A i, j \in DOMAIN r : r[i] = r[j] => i = j
    <3> TAKE i, j \in DOMAIN r
    <3> HAVE r[i] = r[j]
    <3>a. (n - i) + 1 \in DOMAIN s /\ (n - j) + 1 \in DOMAIN s BY <1>2, <1>4, <1>5
    <3>b. s[(n - i) + 1] = s[(n - j) + 1] BY <1>5
    <3>1. (n - i) + 1 = (n - j) + 1 BY <1>3, <3>a, <3>b
    <3>2. i \in Nat /\ j \in Nat BY <1>5
    <3> QED BY <1>2, <3>1, <3>2
  <2> QED BY <2>1 DEF IsInjective
<1>8. ToSet(r) = ToSet(s)
  <2>1. \A x \in ToSet(r) : x \in ToSet(s)
    <3> TAKE x \in ToSet(r)
    <3>1. PICK i \in DOMAIN r : r[i] = x BY DEF ToSet
    <3>2. (n - i) + 1 \in DOMAIN s /\ r[i] = s[(n - i) + 1] BY <1>2, <1>4, <1>5
    <3> QED BY <3>1, <3>2 DEF ToSet
  <2>2. \A x \in ToSet(s) : x \in ToSet(r)
    <3> TAKE x \in ToSet(s)
    <3>1. PICK i \in 1 .. n : s[i] = x BY <1>2 DEF ToSet
    <3>2. (n - i) + 1 \in DOMAIN r /\ r[(n - i) + 1] = s[i] BY <1>4, <1>5
    <3> QED BY <3>1, <3>2 DEF ToSet
  <2> QED BY <2>1, <2>2
<1>9. \A i \in DOMAIN s : r[i] = s[n + 1 - i] BY <1>2, <1>4, <1>5
<1> QED BY <1>2, <1>5, <1>6, <1>7, <1>8, <1>9 DEF n, r

\* What putting in a picture does to the buffers.
LEMMA EncodeBuffers ==
  ASSUME IInv, PicturesShared, NEW cut, Encode(cut)
  PROVE  LET R == ctx'[Oldest].ref
             f == ctx'[Oldest].fdec
         IN /\ R = (IF NewType(cut) = "IDR" THEN <<>> ELSE NewRef1)
            /\ R \in Seq(Nat) /\ IsInjective(R) /\ ToSet(R) \subseteq Used(phase)
            /\ Len(R) <= NumRefs
            /\ f \notin ToSet(R) /\ f \notin ToSet(NewRef1) /\ f \in DOMAIN decBufs'.buf
            /\ \A t \in Arg : t # Oldest => f \notin Used(t)
            /\ Holds(decBufs', ToSet(R) \cup {f}) /\ Len(decBufs'.buf) <= Threads + NumRefs
            /\ DOMAIN decBufs.buf \subseteq DOMAIN decBufs'.buf
            /\ DOMAIN decBufs'.buf \subseteq DOMAIN decBufs.buf \cup {f}
            /\ \A b \in DOMAIN decBufs.buf :
                 b # f => Alike(decBufs'.buf[b], decBufs.buf[b])
            /\ Alike(decBufs'.buf[f], NewDec(input, Keyint > 1))
            /\ ctx'[Oldest].fref = RefList(NewType(cut), R, decBufs')
<1> DEFINE new == NewDec(input, Keyint > 1)
<1>1. /\ phase \in Arg /\ Oldest \in Arg /\ input \in Nat /\ Threads \in Nat /\ NumRefs \in Nat
  <2>1. phase \in Arg /\ input \in Nat BY DEF IInv, TypeOK
  <2>2. Threads \in Nat /\ NumRefs \in Nat BY Contexts, FramesAssumption
  <2> QED BY <2>1, <2>2, Ages
<1>2. /\ ctx'[Oldest].fdec = NewPic.fdec
      /\ ctx'[Oldest].ref = NewRef(cut)
      /\ ctx'[Oldest].fref = RefList(NewType(cut), NewRef(cut), NewPic.bufs)
      /\ decBufs' = IF NewType(cut) = "IDR" THEN ReleaseAll(NewPic.bufs, Reverse(NewPic.ref))
                    ELSE NewPic.bufs
  BY EncodeMoves
<1>3. PICK l : /\ Holds(l, ToSet(NewRef1)) /\ SameBufs(l, decBufs)
               /\ Len(l.buf) = Len(decBufs.buf)
               /\ NewPic.bufs = Pop(l, new) /\ NewPic.fdec = Popped(l)
  BY NewPicIs
<1>4. NewPic.ref = NewRef1 BY NewPicIs
<1>5. /\ NewRef1 \in Seq(Nat) /\ IsInjective(NewRef1) /\ ToSet(NewRef1) \subseteq Used(phase)
      /\ Len(NewRef1) \in 0 .. NumRefs
  BY NewRefs
<1>6. new \in DecBuffer /\ new.count = 1
  <2>1. input \in Int /\ (Keyint > 1) \in BOOLEAN BY <1>1
  <2> QED BY <2>1, DecBuffers
<1> HIDE DEF new
<1> DEFINE r == Pop(l, new)
           f == Popped(l)
           X == ToSet(NewRef1)
<1>7. \A t \in Arg : Used(t) \subseteq DOMAIN l.buf BY <1>3 DEF PicturesShared, SameBufs
<1>8. /\ Holds(r, X \cup {f}) /\ f \notin X /\ f \in Nat
      /\ \A t \in Arg : t # Oldest => f \notin Used(t)
      /\ f \in DOMAIN r.buf /\ r.buf[f] = new
      /\ DOMAIN l.buf \subseteq DOMAIN r.buf /\ DOMAIN r.buf \subseteq DOMAIN l.buf \cup {f}
      /\ \A c \in DOMAIN l.buf : c # f => r.buf[c] = l.buf[c]
  BY <1>3, <1>6, <1>7, HoldsFilled
<1>9. Len(r.buf) <= Threads + NumRefs
  <2>1. Listed(l, DecBuffer) BY <1>3 DEF Holds
  <2>2. l.buf \in Seq(DecBuffer) /\ l.free \in Seq(Nat) /\ Len(l.buf) \in Nat
    BY <2>1, DecBuffers, ListedMeans
  <2>3. CASE l.free = <<>>
    <3>1. r.buf = Append(l.buf, new)
      <4>1. l = [buf |-> l.buf, free |-> l.free] BY <2>1, DecBuffers, ListedMeans
      <4>2. r = [l EXCEPT !.buf = Append(@, new)] BY <2>3 DEF Pop
      <4> QED BY <4>1, <4>2
    <3>2. Len(r.buf) = Len(l.buf) + 1 BY <1>6, <2>2, <3>1, AppendProperties
    <3> QED BY <1>3, <1>5, <2>3, <3>2, RoomForOne
  <2>4. CASE l.free # <<>>
    <3>1. r.buf = [l.buf EXCEPT ![Last(l.free)] = new] BY <2>4 DEF Pop
    <3>2. DOMAIN r.buf = DOMAIN l.buf BY <3>1
    <3>3. Listed(r, DecBuffer) BY <1>8 DEF Holds
    <3>4. DOMAIN r.buf = 1 .. Len(r.buf) /\ Len(r.buf) \in Nat BY <3>3, DecBuffers, ListedMeans
    <3>5. DOMAIN l.buf = 1 .. Len(l.buf) BY <2>1, DecBuffers, ListedMeans
    <3>6. Len(r.buf) = Len(l.buf)
      <4> DEFINE m == Len(r.buf)
                 n == Len(l.buf)
      <4>1. m \in Nat /\ n \in Nat /\ 1 .. m = 1 .. n BY <2>2, <3>2, <3>4, <3>5
      <4> HIDE DEF m, n
      <4>2. m <= n /\ n <= m
        <5>1. CASE m = 0 BY <4>1, <5>1
        <5>2. CASE n = 0 BY <4>1, <5>2
        <5>3. CASE m > 0 /\ n > 0
          <6>1. m \in 1 .. m /\ n \in 1 .. n BY <4>1, <5>3
          <6>2. m \in 1 .. n /\ n \in 1 .. m BY <4>1, <6>1
          <6> QED BY <4>1, <6>2
        <5> QED BY <4>1, <5>1, <5>2, <5>3
      <4> QED BY <4>1, <4>2 DEF m, n
    <3> QED BY <1>3, <3>6 DEF PicturesShared
  <2> QED BY <2>3, <2>4
<1>10. /\ NewPic.bufs = r /\ NewPic.fdec = f BY <1>3
<1> HIDE DEF r, f
<1>11. \A b \in DOMAIN decBufs.buf : b \in DOMAIN r.buf /\ (b # f => Alike(r.buf[b], decBufs.buf[b]))
  <2>1. \A b \in DOMAIN decBufs.buf : b \in DOMAIN l.buf /\ Alike(l.buf[b], decBufs.buf[b])
    BY <1>3 DEF SameBufs
  <2> QED BY <1>8, <2>1
<1>12. DOMAIN decBufs.buf = DOMAIN l.buf BY <1>3 DEF SameBufs
<1>13. Alike(r.buf[f], new) BY <1>8 DEF Alike
<1>14. CASE NewType(cut) # "IDR"
  <2>1. decBufs' = r /\ NewRef(cut) = NewRef1 BY <1>2, <1>4, <1>10, <1>14 DEF NewRef
  <2>2. Len(NewRef1) <= NumRefs BY <1>1, <1>5
  <2>3. /\ ctx'[Oldest].fdec = f /\ ctx'[Oldest].ref = NewRef1
        /\ ctx'[Oldest].fref = RefList(NewType(cut), NewRef1, decBufs')
    BY <1>2, <1>10, <2>1
  <2>4. DOMAIN decBufs.buf \subseteq DOMAIN decBufs'.buf
        /\ DOMAIN decBufs'.buf \subseteq DOMAIN decBufs.buf \cup {f}
    BY <1>8, <1>12, <2>1
  <2>5. /\ Holds(decBufs', ToSet(NewRef1) \cup {f}) /\ Len(decBufs'.buf) <= Threads + NumRefs
        /\ f \notin ToSet(NewRef1) /\ f \in DOMAIN decBufs'.buf
        /\ \A t \in Arg : t # Oldest => f \notin Used(t)
    BY <1>8, <1>9, <2>1
  <2>6. /\ \A b \in DOMAIN decBufs.buf : b # f => Alike(decBufs'.buf[b], decBufs.buf[b])
        /\ Alike(decBufs'.buf[f], new)
    BY <1>11, <1>13, <2>1
  <2> QED BY <1>5, <1>14, <2>2, <2>3, <2>4, <2>5, <2>6 DEF new
<1>15. CASE NewType(cut) = "IDR"
  <2> DEFINE q == ReleaseAll(r, Reverse(NewRef1))
  <2>1. decBufs' = q /\ NewRef(cut) = <<>> BY <1>2, <1>4, <1>10, <1>15 DEF NewRef
  <2>2. /\ Reverse(NewRef1) \in Seq(Nat) /\ IsInjective(Reverse(NewRef1))
        /\ ToSet(Reverse(NewRef1)) = X
    BY <1>5, Reversed
  <2>3. /\ Holds(q, (X \cup {f}) \ X) /\ SameBufs(q, r) /\ Len(q.buf) = Len(r.buf)
    <3> DEFINE bs == Reverse(NewRef1)
               Y == X \cup {f}
    <3>1. bs \in Seq(Nat) /\ IsInjective(bs) /\ ToSet(bs) = X BY <2>2
    <3>2. Holds(r, Y) /\ ToSet(bs) \subseteq Y BY <1>8, <3>1
    <3>3. q = ReleaseAll(r, bs) OBVIOUS
    <3> HIDE DEF bs, Y, q
    <3>4. /\ Holds(ReleaseAll(r, bs), Y \ ToSet(bs)) /\ SameBufs(ReleaseAll(r, bs), r)
          /\ Len(ReleaseAll(r, bs).buf) = Len(r.buf)
      BY <3>1, <3>2, HoldsReleasedAll
    <3> QED BY <3>1, <3>3, <3>4 DEF Y
  <2>4. (X \cup {f}) \ X = ToSet(<<>>) \cup {f} BY <1>8 DEF ToSet
  <2> HIDE DEF q, X
  <2>5. Holds(decBufs', ToSet(<<>>) \cup {f}) /\ SameBufs(decBufs', r)
        /\ Len(decBufs'.buf) <= Threads + NumRefs
    BY <1>9, <2>1, <2>3, <2>4
  <2>6. /\ ctx'[Oldest].fdec = f /\ ctx'[Oldest].ref = <<>> /\ <<>> \in Seq(Nat)
        /\ IsInjective(<<>>) /\ ToSet(<<>>) = {} /\ Len(<<>>) <= NumRefs
    BY <1>1, <1>2, <1>10, <2>1 DEF IsInjective, ToSet
  <2>7. ctx'[Oldest].fref = RefList(NewType(cut), <<>>, decBufs')
    BY <1>2, <1>15, <2>1 DEF RefList
  <2>8. DOMAIN decBufs.buf \subseteq DOMAIN decBufs'.buf
        /\ DOMAIN decBufs'.buf \subseteq DOMAIN decBufs.buf \cup {f}
    BY <1>8, <1>12, <2>5 DEF SameBufs
  <2>9. /\ \A b \in DOMAIN decBufs.buf : b # f => Alike(decBufs'.buf[b], decBufs.buf[b])
        /\ Alike(decBufs'.buf[f], new) /\ f \in DOMAIN decBufs'.buf
    BY <1>8, <1>11, <1>13, <2>5 DEF SameBufs, Alike
  <2>10. f \notin ToSet(NewRef1) /\ \A t \in Arg : t # Oldest => f \notin Used(t)
    BY <1>8 DEF X
  <2> QED BY <1>15, <2>5, <2>6, <2>7, <2>8, <2>9, <2>10 DEF new
<1> QED BY <1>14, <1>15

\* What the steps of a job do to the picture it fills.
SameButLines(x, y) == x.count = y.count /\ x.pic = y.pic /\ x.kept = y.kept

AwaitedRows(t) ==
  /\ Awaited(t) /\ decBufs' = decBufs
  /\ \A i \in DOMAIN ctx[t].fref :
       decBufs.buf[ctx[t].fref[i].buf].lines >= 16 * ctx[t].row + MvRangeThread
CodedRow(t) ==
  LET b == ctx[t].fdec
  IN /\ Coded(t)
     /\ decBufs'.buf[b].final = FinalLines(ctx[t].row + 1)
     /\ decBufs'.buf[b].lines = decBufs.buf[b].lines
PublishedRow(w, t) ==
  LET b == ctx[t].fdec
      k == ctx[t].row
  IN /\ Published(w, t)
     /\ decBufs'.buf[b].final = decBufs.buf[b].final
     /\ \/ decBufs'.buf[b].lines = decBufs.buf[b].lines
        \/ decBufs'.buf[b].lines = 16 * k + IF k = Rows THEN 10000 ELSE -THREAD_HEIGHT
FailedRow(w, t) == Failed(w, t) /\ decBufs' = decBufs

\* Lines are counted.
LEMMA LinesAreNumbers ==
  /\ Rows \in Nat \ {0} /\ AllLines \in Nat
  /\ \A k \in 0 .. Rows : FinalLines(k) \in Nat
<1>1. Rows \in Nat \ {0} BY FramesAssumption
<1>2. AllLines \in Nat BY <1>1 DEF AllLines
<1>3. \A k \in 0 .. Rows : FinalLines(k) \in Nat
  <2> TAKE k \in 0 .. Rows
  <2>1. CASE k = Rows BY <1>2, <2>1 DEF FinalLines
  <2>2. CASE k # Rows /\ k = 0 BY <2>2 DEF FinalLines
  <2>3. CASE k # Rows /\ k # 0 BY <1>1, <2>3 DEF FinalLines
  <2> QED BY <2>1, <2>2, <2>3
<1> QED BY <1>1, <1>2, <1>3

\* A job writes to the picture its context fills and to no other.
LEMMA JobBuffers ==
  ASSUME IInv, PicturesShared, JobsRun, NEW w \in Worker, NEW t \in Arg,
         Await(w, t) \/ CodeRow(w, t) \/ Publish(w, t) \/ Fail(w, t)
  PROVE  /\ AwaitedRows(t) \/ CodedRow(t) \/ PublishedRow(w, t) \/ FailedRow(w, t)
         /\ decBufs' \in [buf : Seq(DecBuffer), free : Seq(Nat)]
         /\ DOMAIN decBufs'.buf = DOMAIN decBufs.buf /\ Len(decBufs'.buf) = Len(decBufs.buf)
         /\ decBufs'.free = decBufs.free
         /\ \A b \in DOMAIN decBufs.buf : SameButLines(decBufs'.buf[b], decBufs.buf[b])
         /\ \A b \in DOMAIN decBufs.buf : b # ctx[t].fdec => decBufs'.buf[b] = decBufs.buf[b]
<1> DEFINE b == ctx[t].fdec
           k == ctx[t].row
           Rest1 == /\ decBufs' \in [buf : Seq(DecBuffer), free : Seq(Nat)]
                    /\ DOMAIN decBufs'.buf = DOMAIN decBufs.buf
                    /\ Len(decBufs'.buf) = Len(decBufs.buf)
                    /\ decBufs'.free = decBufs.free
                    /\ \A c \in DOMAIN decBufs.buf : SameButLines(decBufs'.buf[c], decBufs.buf[c])
                    /\ \A c \in DOMAIN decBufs.buf : c # b => decBufs'.buf[c] = decBufs.buf[c]
<1>1. /\ Awaited(t) \/ Coded(t) \/ Published(w, t) \/ Failed(w, t)
      /\ wk[w] = "work" /\ cur[w] = t /\ InPipe(t)
  BY JobMoves
<1>2. DOMAIN ctx = Arg /\ DOMAIN ctx[t] = Field BY DEF IInv, TypeOK
<1>3. b \in DOMAIN decBufs.buf BY DEF PicturesShared, Used
<1>4. /\ decBufs.buf \in Seq(DecBuffer) /\ decBufs.free \in Seq(Nat)
      /\ decBufs = [buf |-> decBufs.buf, free |-> decBufs.free]
  BY DEF PicturesShared
<1>5. k \in 0 .. Rows /\ (ctx[t].at # "publish" => k + 1 \in 0 .. Rows)
  <2>1. Running(t) BY <1>1 DEF JobsRun
  <2>2. k \in 0 .. Rows BY <1>1 DEF JobsRun
  <2> QED BY <2>1, <2>2, LinesAreNumbers DEF Running
<1>6. ASSUME decBufs' = decBufs PROVE Rest1
  BY <1>4, <1>6 DEF SameButLines, PicturesShared
<1>7. ASSUME NEW new \in DecBuffer, SameButLines(new, decBufs.buf[b]),
             decBufs' = [buf |-> [decBufs.buf EXCEPT ![b] = new], free |-> decBufs.free]
      PROVE  Rest1 /\ decBufs'.buf[b] = new
  <2> DEFINE n == [decBufs.buf EXCEPT ![b] = new]
  <2>1. /\ DOMAIN n = DOMAIN decBufs.buf
        /\ \A c \in DOMAIN decBufs.buf : n[c] = IF c = b THEN new ELSE decBufs.buf[c]
    OBVIOUS
  <2>2. n \in [DOMAIN decBufs.buf -> DecBuffer]
    <3>1. \A c \in DOMAIN decBufs.buf : decBufs.buf[c] \in DecBuffer BY <1>4
    <3> QED BY <3>1
  <2> HIDE DEF n
  <2>3. n \in Seq(DecBuffer) /\ Len(n) = Len(decBufs.buf) BY <1>4, <2>2, SameLength
  <2>4. decBufs' = [buf |-> n, free |-> decBufs.free] BY <1>7 DEF n
  <2>5. decBufs'.buf = n /\ decBufs'.free = decBufs.free BY <2>4
  <2>6. decBufs' \in [buf : Seq(DecBuffer), free : Seq(Nat)] BY <1>4, <2>3, <2>4
  <2>7. \A c \in DOMAIN decBufs.buf : SameButLines(n[c], decBufs.buf[c])
    BY <1>7, <2>1 DEF SameButLines
  <2> QED BY <1>3, <2>1, <2>3, <2>5, <2>6, <2>7
<1> HIDE DEF Rest1
<1>8. ASSUME Await(w, t) PROVE AwaitedRows(t) /\ Rest1
  <2>1. /\ ctx[t].at = "await" /\ decBufs' = decBufs
        /\ ctx' = [ctx EXCEPT ![t].at = "code"]
        /\ \A i \in DOMAIN ctx[t].fref :
             decBufs.buf[ctx[t].fref[i].buf].lines >= 16 * ctx[t].row + MvRangeThread
    BY <1>8 DEF Await, At
  <2>2. ctx'[t].at = "code" BY <1>2, <2>1 DEF Field
  <2>3. Awaited(t) BY <1>1, <2>1, <2>2 DEF Coded, Published, Failed
  <2> QED BY <1>6, <2>1, <2>3 DEF AwaitedRows
<1>9. ASSUME Fail(w, t) PROVE FailedRow(w, t) /\ Rest1
  <2>1. /\ ctx[t].at \in {"await", "code"} /\ decBufs' = decBufs
        /\ ctx' = [ctx EXCEPT ![t].failed = TRUE]
    BY <1>9 DEF Fail, At
  <2>2. ctx'[t].at = ctx[t].at BY <1>2, <2>1 DEF Field
  <2>3. Failed(w, t) BY <1>1, <2>1, <2>2 DEF Coded, Published, Awaited
  <2> QED BY <1>6, <2>1, <2>3 DEF FailedRow
<1>10. ASSUME CodeRow(w, t) PROVE CodedRow(t) /\ Rest1
  <2> DEFINE j == k + 1
             x == decBufs.buf[b]
             new == [x EXCEPT !.final = FinalLines(j)]
  <2>1. /\ ctx[t].at = "code"
        /\ decBufs' = [decBufs EXCEPT !.buf[b].final = FinalLines(j)]
    BY <1>10 DEF CodeRow, At
  <2>2. ctx'[t].at = "publish"
    <3>1. ctx' = [ctx EXCEPT ![t] = [ctx[t] EXCEPT !.at = "publish", !.row = j, !.nal = (j = Rows)]]
      BY <1>10 DEF CodeRow
    <3> DEFINE nal == (j = Rows)
    <3> HIDE DEF j, nal
    <3>2. ctx' = [ctx EXCEPT ![t] = [ctx[t] EXCEPT !.at = "publish", !.row = j, !.nal = nal]]
      BY <3>1 DEF nal
    <3> QED BY <1>2, <3>2 DEF Field
  <2>3. Coded(t) BY <1>1, <2>1, <2>2 DEF Awaited, Published, Failed
  <2>4. FinalLines(j) \in Nat
    <3>1. j \in 0 .. Rows BY <1>5, <2>1
    <3> QED BY <3>1, LinesAreNumbers
  <2>5. x \in DecBuffer BY <1>3, <1>4
  <2>6. /\ new \in DecBuffer /\ new.final = FinalLines(j) /\ new.lines = x.lines
        /\ new.count = x.count /\ new.pic = x.pic /\ new.kept = x.kept
    <3> HIDE DEF x, j
    <3> QED BY <2>4, <2>5 DEF DecBuffer
  <2>7. decBufs' = [buf |-> [decBufs.buf EXCEPT ![b] = new], free |-> decBufs.free]
    <3> HIDE DEF j
    <3>1. [decBufs EXCEPT !.buf[b].final = FinalLines(j)]
            = [decBufs EXCEPT !.buf = [decBufs.buf EXCEPT ![b] = new]]
      OBVIOUS
    <3> DEFINE n == [decBufs.buf EXCEPT ![b] = new]
    <3> HIDE DEF n
    <3>2. decBufs' = [decBufs EXCEPT !.buf = n] BY <2>1, <3>1 DEF n
    <3>3. decBufs' = [buf |-> n, free |-> decBufs.free] BY <1>4, <3>2
    <3> QED BY <3>3 DEF n
  <2> HIDE DEF new
  <2>8. Rest1 /\ decBufs'.buf[b] = new BY <1>7, <2>6, <2>7 DEF SameButLines
  <2> QED BY <2>3, <2>6, <2>8 DEF CodedRow
<1>11. ASSUME Publish(w, t) PROVE PublishedRow(w, t) /\ Rest1
  <2> DEFINE m == 16 * k + IF k = Rows THEN 10000 ELSE -THREAD_HEIGHT
             x == decBufs.buf[b]
             new == [x EXCEPT !.lines = m]
  <2>1. /\ ctx[t].at = "publish"
        /\ decBufs' = IF ~decBufs.buf[b].kept THEN decBufs
                      ELSE [decBufs EXCEPT !.buf[b].lines = m]
        /\ ctx' = [ctx EXCEPT ![t].at = "await"]
    BY <1>11 DEF Publish, At
  <2>2. ctx'[t].at = "await" BY <1>2, <2>1 DEF Field
  <2>3. Published(w, t) BY <1>1, <2>1, <2>2 DEF Coded, Awaited, Failed
  <2>4. CASE decBufs' = decBufs BY <1>6, <2>3, <2>4 DEF PublishedRow
  <2>5. CASE decBufs' = [decBufs EXCEPT !.buf[b].lines = m]
    <3>1. m \in Int
      <4>1. k \in Int BY <1>5, LinesAreNumbers
      <4> QED BY <4>1 DEF THREAD_HEIGHT
    <3>2. x \in DecBuffer BY <1>3, <1>4
    <3>3. /\ new \in DecBuffer /\ new.lines = m /\ new.final = x.final
          /\ new.count = x.count /\ new.pic = x.pic /\ new.kept = x.kept
      <4> HIDE DEF x, m
      <4> QED BY <3>1, <3>2 DEF DecBuffer
    <3>4. decBufs' = [buf |-> [decBufs.buf EXCEPT ![b] = new], free |-> decBufs.free]
      <4> HIDE DEF m
      <4>1. [decBufs EXCEPT !.buf[b].lines = m]
              = [decBufs EXCEPT !.buf = [decBufs.buf EXCEPT ![b] = new]]
        OBVIOUS
      <4> DEFINE n == [decBufs.buf EXCEPT ![b] = new]
      <4> HIDE DEF n
      <4>2. decBufs' = [decBufs EXCEPT !.buf = n] BY <2>5, <4>1 DEF n
      <4>3. decBufs' = [buf |-> n, free |-> decBufs.free] BY <1>4, <4>2
      <4> QED BY <4>3 DEF n
    <3> HIDE DEF new
    <3>5. Rest1 /\ decBufs'.buf[b] = new BY <1>7, <3>3, <3>4 DEF SameButLines
    <3>6. decBufs'.buf[b].lines = m /\ decBufs'.buf[b].final = decBufs.buf[b].final
      BY <3>3, <3>5
    <3> QED BY <2>3, <3>5, <3>6 DEF PublishedRow
  <2> QED BY <2>1, <2>4, <2>5
<1> QED BY <1>8, <1>9, <1>10, <1>11 DEF Rest1

\* A step that moves no context and changes no count.
LEMMA SharedRests ==
  ASSUME PicturesShared, phase' = phase,
         \A u \in Arg : ctx'[u].ref = ctx[u].ref /\ ctx'[u].fdec = ctx[u].fdec,
         decBufs' \in [buf : Seq(DecBuffer), free : Seq(Nat)],
         DOMAIN decBufs'.buf = DOMAIN decBufs.buf, Len(decBufs'.buf) = Len(decBufs.buf),
         decBufs'.free = decBufs.free,
         \A b \in DOMAIN decBufs.buf : decBufs'.buf[b].count = decBufs.buf[b].count
  PROVE  PicturesShared'
<1>1. \A t \in Arg : Age(t)' = Age(t) BY DEF Age
<1>2. \A t \in Arg : FilledSince(t)' = FilledSince(t)
  <2> TAKE t \in Arg
  <2> DEFINE V == {v \in Arg : Age(v) <= Age(t)}
  <2>1. V' = V BY <1>1
  <2>2. V \subseteq Arg OBVIOUS
  <2> HIDE DEF V
  <2>3. {ctx'[v].fdec : v \in V'} = {ctx[v].fdec : v \in V} BY <2>1, <2>2
  <2> QED BY <2>3 DEF FilledSince, V
<1>3. \A t \in Arg : Used(t)' = Used(t) BY DEF Used
<1>4. \A b : Holders(b)' = Holders(b)
  <2> TAKE b
  <2>1. {t \in Arg : ctx'[t].fdec = b} = {t \in Arg : ctx[t].fdec = b} OBVIOUS
  <2>2. {t \in Arg : b \in ToSet(ctx'[t].ref)} = {t \in Arg : b \in ToSet(ctx[t].ref)} OBVIOUS
  <2> QED BY <2>1, <2>2 DEF Holders
<1>5. \A b \in DOMAIN decBufs'.buf : decBufs'.buf[b].count = Holders(b)'
  BY <1>4 DEF PicturesShared
<1>6. IsInjective(decBufs'.free) BY DEF PicturesShared
<1>7. ToSet(decBufs'.free) = {b \in DOMAIN decBufs'.buf : decBufs'.buf[b].count = 0}
  BY DEF PicturesShared
<1>8. \A t \in Arg :
        /\ ctx'[t].ref \in Seq(Nat) /\ IsInjective(ctx'[t].ref)
        /\ ctx'[t].fdec \notin ToSet(ctx'[t].ref)
        /\ Used(t)' \subseteq DOMAIN decBufs'.buf
        /\ Len(ctx'[t].ref) <= NumRefs
  BY <1>3 DEF PicturesShared
<1>9. \A t, u \in Arg : (Age(u) <= Age(t))' =>
        ToSet(ctx'[u].ref) \subseteq ToSet(ctx'[t].ref) \cup FilledSince(t)'
  BY <1>1, <1>2 DEF PicturesShared
<1>10. Len(decBufs'.buf) <= Threads + NumRefs BY DEF PicturesShared
<1> QED BY <1>5, <1>6, <1>7, <1>8, <1>9, <1>10 DEF PicturesShared

\* In an encoder that has just been opened every context fills a picture of its own.
OpenedPictures == phase = 0 /\ ctx = NewCtx /\ decBufs = NewDecBufs

\* In a new encoder each context has a buffer of its own.
LEMMA OpenedShares == OpenedPictures => PicturesShared
<1> SUFFICES ASSUME OpenedPictures PROVE PicturesShared
  OBVIOUS
<1>1. /\ Threads \in Nat /\ Threads > 1 /\ Arg = 0 .. (Threads - 1) /\ NumRefs \in Nat
  BY Contexts, FramesAssumption
<1>2. /\ \A t \in Arg : ctx[t].fdec = t + 1 /\ ctx[t].ref = <<>>
      /\ decBufs.free = <<>>
  BY DEF OpenedPictures, NewCtx, Context, NewDecBufs
<1>3. /\ decBufs.buf = [b \in 1 .. Threads |-> NewDec(-1, FALSE)]
      /\ decBufs = [buf |-> decBufs.buf, free |-> decBufs.free]
  BY DEF OpenedPictures, NewDecBufs
<1>4. NewDec(-1, FALSE) \in DecBuffer /\ NewDec(-1, FALSE).count = 1 BY DEF NewDec, DecBuffer
<1>5. /\ decBufs.buf \in Seq(DecBuffer) /\ Len(decBufs.buf) = Threads
      /\ DOMAIN decBufs.buf = 1 .. Threads
      /\ \A b \in 1 .. Threads : decBufs.buf[b].count = 1
  <2> DEFINE new == NewDec(-1, FALSE)
             n == [b \in 1 .. Threads |-> new]
  <2>1. new \in DecBuffer /\ new.count = 1 /\ decBufs.buf = n BY <1>3, <1>4
  <2> HIDE DEF new
  <2>2. n \in [1 .. Threads -> DecBuffer] /\ DOMAIN n = 1 .. Threads
        /\ \A b \in 1 .. Threads : n[b].count = 1
    BY <2>1
  <2> HIDE DEF n
  <2>3. n \in Seq(DecBuffer) /\ Len(n) = Threads BY <1>1, <2>2
  <2> QED BY <2>1, <2>2, <2>3
<1>6. \A t \in Arg : Used(t) = {t + 1} /\ ToSet(ctx[t].ref) = {} BY <1>2 DEF Used, ToSet
<1>7. \A b \in 1 .. Threads : Holders(b) = 1
  <2> TAKE b \in 1 .. Threads
  <2>1. Holders(b) = Cardinality({t \in Arg : b \in Used(t)})
    <3>1. \A t \in Arg : ctx[t].fdec \notin ToSet(ctx[t].ref) BY <1>6
    <3> QED BY <3>1, HoldersAre
  <2>2. {t \in Arg : b \in Used(t)} = {b - 1} BY <1>1, <1>6
  <2> QED BY <2>1, <2>2, FS_Singleton
<1>8. IsInjective(decBufs.free) /\ ToSet(decBufs.free) = {} /\ decBufs.free \in Seq(Nat)
  BY <1>2 DEF IsInjective, ToSet
<1>9. {b \in DOMAIN decBufs.buf : decBufs.buf[b].count = 0} = {} BY <1>5
<1>10. \A t \in Arg : /\ ctx[t].ref \in Seq(Nat) /\ IsInjective(ctx[t].ref)
                      /\ ctx[t].fdec \notin ToSet(ctx[t].ref)
                      /\ Used(t) \subseteq DOMAIN decBufs.buf
                      /\ Len(ctx[t].ref) <= NumRefs
  <2> TAKE t \in Arg
  <2>1. IsInjective(ctx[t].ref) /\ Len(ctx[t].ref) <= NumRefs /\ ctx[t].ref \in Seq(Nat)
    <3>1. ctx[t].ref = <<>> BY <1>2
    <3>2. IsInjective(<<>>) BY DEF IsInjective
    <3>3. Len(<<>>) = 0 /\ <<>> \in Seq(Nat) OBVIOUS
    <3> QED BY <1>1, <3>1, <3>2, <3>3
  <2>2. t + 1 \in 1 .. Threads BY <1>1
  <2> QED BY <1>5, <1>6, <2>1, <2>2
<1>11. decBufs \in [buf : Seq(DecBuffer), free : Seq(Nat)] BY <1>3, <1>5, <1>8
<1>12. Len(decBufs.buf) <= Threads + NumRefs BY <1>1, <1>5
<1> QED BY <1>5, <1>6, <1>7, <1>8, <1>9, <1>10, <1>11, <1>12 DEF PicturesShared

\* The same after x264_encoder_open.
LEMMA OpenedSharesAgain == OpenedPictures' => PicturesShared'
BY OpenedShares, PTL

\* What is counted stays counted.
LEMMA PicturesSharedKept ==
  ASSUME IInv, IInv', JobsRun, PicturesShared, [Next]_vars
  PROVE  PicturesShared'
<1>1. ASSUME NEW cut \in BOOLEAN, Encode(cut) PROVE PicturesShared'
  <2> DEFINE R == ctx'[Oldest].ref
             f == ctx'[Oldest].fdec
  <2>1. /\ phase' = Oldest
        /\ \A u \in Arg : u # Oldest => SamePictures(u)
    BY <1>1, EncodeMoves
  <2>2. /\ R \in Seq(Nat) /\ IsInjective(R) /\ ToSet(R) \subseteq Used(phase)
        /\ Len(R) <= NumRefs /\ f \notin ToSet(R)
        /\ Holds(decBufs', ToSet(R) \cup {f}) /\ Len(decBufs'.buf) <= Threads + NumRefs
        /\ DOMAIN decBufs.buf \subseteq DOMAIN decBufs'.buf
    BY <1>1, EncodeBuffers
  <2> QED BY <2>1, <2>2, SharedAgain
<1>2. CASE Flush
  <2> DEFINE R == ctx[phase].ref
             f == ctx[phase].fdec
  <2>1. /\ phase' = Oldest /\ decBufs' = SyncBufs(Oldest, phase)
        /\ \A u \in Arg : u # Oldest => SamePictures(u)
        /\ ctx'[Oldest].fdec = f /\ ctx'[Oldest].ref = R
    BY <1>2, FlushMoves
  <2>2. phase \in Arg BY DEF IInv, TypeOK
  <2>3. /\ Holds(decBufs', Used(phase)) /\ SameBufs(decBufs', decBufs)
        /\ Len(decBufs'.buf) = Len(decBufs.buf)
    BY <2>1, HoldsSynced
  <2>4. /\ R \in Seq(Nat) /\ IsInjective(R) /\ ToSet(R) \subseteq Used(phase)
        /\ Len(R) <= NumRefs /\ f \notin ToSet(R) /\ Used(phase) = ToSet(R) \cup {f}
    BY <2>2 DEF PicturesShared, Used
  <2>5. Len(decBufs'.buf) <= Threads + NumRefs BY <2>3 DEF PicturesShared
  <2>6. DOMAIN decBufs.buf \subseteq DOMAIN decBufs'.buf BY <2>3 DEF SameBufs
  <2>7. Holds(decBufs', ToSet(R) \cup {f}) BY <2>3, <2>4
  <2> HIDE DEF R, f
  <2> QED BY <2>1, <2>4, <2>5, <2>6, <2>7, SharedAgain
<1>3. ASSUME phase' = phase, decBufs' = decBufs,
             \A u \in Arg : ctx'[u].ref = ctx[u].ref /\ ctx'[u].fdec = ctx[u].fdec
      PROVE  PicturesShared'
  BY <1>3, SharedRests DEF PicturesShared
<1>4. ASSUME NEW w \in Worker, NEW t \in Arg,
             Await(w, t) \/ CodeRow(w, t) \/ Publish(w, t) \/ Fail(w, t)
      PROVE  PicturesShared'
  <2>1. phase' = phase /\ \A u \in Arg : SamePictures(u) BY <1>4, JobMoves
  <2>2. /\ decBufs' \in [buf : Seq(DecBuffer), free : Seq(Nat)]
        /\ DOMAIN decBufs'.buf = DOMAIN decBufs.buf /\ Len(decBufs'.buf) = Len(decBufs.buf)
        /\ decBufs'.free = decBufs.free
        /\ \A b \in DOMAIN decBufs.buf : SameButLines(decBufs'.buf[b], decBufs.buf[b])
    BY <1>4, JobBuffers
  <2>3. \A u \in Arg : ctx'[u].ref = ctx[u].ref /\ ctx'[u].fdec = ctx[u].fdec
    BY <2>1 DEF SamePictures
  <2>4. \A b \in DOMAIN decBufs.buf : decBufs'.buf[b].count = decBufs.buf[b].count
    BY <2>2 DEF SameButLines
  <2> QED BY <2>1, <2>2, <2>3, <2>4, SharedRests
<1>5. CASE Queue
  <2>1. /\ phase' = phase /\ decBufs' = decBufs /\ \A u \in Arg : SamePictures(u)
    BY <1>5, QueueMoves
  <2> QED BY <1>3, <2>1 DEF SamePictures
<1>6. CASE WaitOldest
  <2>1. /\ phase' = phase /\ decBufs' = decBufs /\ \A u \in Arg : SamePictures(u)
    BY <1>6, WaitOldestMoves
  <2> QED BY <1>3, <2>1 DEF SamePictures
<1>7. CASE FrameEnd
  <2>1. /\ phase' = phase /\ decBufs' = decBufs /\ \A u \in Arg : SamePictures(u)
    BY <1>7, FrameEndMoves
  <2> QED BY <1>3, <2>1 DEF SamePictures
<1>8. CASE UNCHANGED <<phase, ctx, decBufs>> BY <1>3, <1>8
<1>9. Waiting \/ BeginClose \/ DeletePool \/ JoinPool \/ (\E w \in Worker : PoolThread(w))
        \/ UNCHANGED vars
      => UNCHANGED <<phase, ctx, decBufs>>
  BY DEF Waiting, BeginClose, DeletePool, JoinPool, PoolThread, vars, frameVars
<1>10. CASE Reopen
  <2>1. OpenedPictures' BY <1>10 DEF Reopen, OpenedPictures, NewCtx, NewDecBufs
  <2> QED BY <2>1, OpenedSharesAgain
<1> QED BY <1>1, <1>2, <1>4, <1>5, <1>6, <1>7, <1>8, <1>9, <1>10 DEF Next

-----------------------------------------------------------------------------
(* Source pictures and who holds them.                                     *)

\* The contexts that code the source picture in b.
Coding(b) == {t \in Arg : InPipe(t) /\ ctx[t].fenc = b}

\* There are as many as contexts at most.
LEMMA CodingIsFinite ==
  ASSUME NEW b
  PROVE  IsFiniteSet(Coding(b)) /\ Cardinality(Coding(b)) \in Nat
BY Contexts, FS_Subset, FS_CardinalityType DEF Coding

\* A source picture is held by the contexts that code it and as lastNonb.
LEMMA SourceHoldersAre ==
  ASSUME NEW b
  PROVE  SourceHolders(b) = Cardinality(Coding(b)) + (IF lastNonb = b THEN 1 ELSE 0)
BY DEF SourceHolders, Coding

\* What most steps do to source pictures: nothing.
LEMMA SourcesRest ==
  ASSUME SourcesCounted, UNCHANGED <<encBufs, input, lastNonb>>,
         \A t \in Arg : InPipe(t)' <=> InPipe(t),
         \A t \in Arg : InPipe(t) => ctx'[t].fenc = ctx[t].fenc,
         phase' = phase \/ closing', closing => closing', phase \in Arg,
         caller \in {"join", "freed"} => caller' \in {"join", "freed"},
         failures' = 0 => failures = 0
  PROVE  SourcesCounted'
<1>1. Depth' = Depth
  <2>1. {t \in Arg : InPipe(t)'} = {t \in Arg : InPipe(t)} OBVIOUS
  <2> QED BY <2>1 DEF Depth
<1>2. input' = 0 => lastNonb' = 0 BY DEF SourcesCounted
<1>3. ASSUME input' > 0, ~closing'
      PROVE  InPipe(phase)' /\ lastNonb' = ctx'[phase'].fenc
  <2>1. InPipe(phase) /\ lastNonb = ctx[phase].fenc BY <1>3 DEF SourcesCounted
  <2>2. phase' = phase BY <1>3
  <2>3. \A t \in Arg : t = phase => (t = phase' /\ InPipe(t)') BY <2>1, <2>2
  <2>4. \A t \in Arg : t = phase' /\ InPipe(t)' => InPipe(phase)' BY <2>2 DEF InPipe, Oldest, Next1
  <2> QED BY <2>1, <2>2, <2>3, <2>4
<1>4. Len(encBufs'.free) + Depth'
        <= Threads + IF caller' \in {"join", "freed"} THEN 1 ELSE 0
  <2>1. Len(encBufs.free) + Depth
          <= Threads + IF caller \in {"join", "freed"} THEN 1 ELSE 0
    BY DEF SourcesCounted
  <2>2. CASE caller \in {"join", "freed"} BY <1>1, <2>1, <2>2
  <2>3. CASE caller \notin {"join", "freed"} /\ caller' \notin {"join", "freed"}
    BY <1>1, <2>1, <2>3
  <2>4. CASE caller \notin {"join", "freed"} /\ caller' \in {"join", "freed"}
    <3>1. encBufs' = encBufs OBVIOUS
    <3> DEFINE n == Len(encBufs.free) + Depth
    <3>2. n <= Threads + 0 BY <2>1, <2>4
    <3>3. n \in Int /\ Threads \in Nat
      <4>1. Depth \in Nat /\ Threads \in Nat BY PipedFinite, Contexts
      <4> QED BY <4>1
    <3> HIDE DEF n
    <3>4. n <= Threads + 1 BY <3>2, <3>3
    <3> QED BY <1>1, <2>4, <3>1, <3>4 DEF n
  <2> QED BY <2>2, <2>3, <2>4
<1>5. ASSUME failures' = 0, NEW b \in DOMAIN encBufs'.buf
      PROVE  encBufs'.buf[b].count = SourceHolders(b)'
  <2>1. {t \in Arg : InPipe(t)' /\ ctx'[t].fenc = b} = {t \in Arg : InPipe(t) /\ ctx[t].fenc = b}
    OBVIOUS
  <2>2. SourceHolders(b)' = SourceHolders(b) BY <2>1 DEF SourceHolders
  <2> QED BY <1>5, <2>2 DEF SourcesCounted
<1> QED BY <1>2, <1>3, <1>4, <1>5 DEF SourcesCounted

\* The caller gives back the source of the picture that comes out.
LEMMA OutputGivesBack ==
  ASSUME IInv, JobsRun, SourcesCounted, FrameEnd, call = "wait"
  PROVE  SourcesCounted'
<1> DEFINE c == ctx[Oldest]
           out == ~(c.failed \/ ~c.nal)
<1>1. phase \in Arg /\ Oldest \in Arg /\ Oldest # phase BY Ages DEF IInv, TypeOK
<1>2. /\ \A u \in Arg : SamePictures(u)
      /\ \A u \in Arg : InPipe(u)' <=> InPipe(u) /\ u # Oldest
      /\ UNCHANGED <<phase, input, lastNonb, closing, failures>>
      /\ caller' = "out" /\ caller = "return" /\ carg = Oldest
  BY FrameEndMoves
<1>3. InPipe(Oldest) BY DEF InPipe
<1>4. /\ ~out => encBufs' = encBufs
      /\ out => encBufs' = Release(encBufs, c.fenc)
  BY DEF FrameEnd, Output
<1>5. c.fenc \in DOMAIN encBufs.buf /\ encBufs.buf[c.fenc].count >= 1
  <2>1. /\ c.fenc \in DOMAIN encBufs.buf
        /\ encBufs.buf[c.fenc].count >= IF c.fenc = lastNonb THEN 2 ELSE 1
    BY <1>1, <1>3 DEF IInv, SourcesHeld
  <2>2. encBufs.buf[c.fenc].count \in Nat BY <2>1, Counts
  <2> QED BY <2>1, <2>2
<1> DEFINE r == Release(encBufs, c.fenc)
<1>6. /\ Sound(encBufs) /\ Sound(r) /\ DOMAIN r.buf = DOMAIN encBufs.buf
      /\ \A b \in DOMAIN encBufs.buf :
           r.buf[b].count = IF b = c.fenc THEN encBufs.buf[b].count - 1
                            ELSE encBufs.buf[b].count
      /\ Len(r.free) = Len(encBufs.free) + (IF encBufs.buf[c.fenc].count = 1 THEN 1 ELSE 0)
  BY <1>5, Sources, SourceReleased
<1>7. Depth' = Depth - 1 BY <1>1, <1>2, <1>3, OneFewer
<1>8. Depth \in Nat /\ Threads \in Nat BY PipedFinite, Contexts
<1>9. Len(encBufs.free) \in Nat BY <1>6 DEF Sound, Listed
<1>10. failures = 0 => out
  <2>1. Finished(Oldest) BY <1>2 DEF JobsRun
  <2>2. failures = 0 => ~c.failed BY <1>1 DEF JobsRun
  <2> QED BY <2>1, <2>2 DEF Finished
<1> HIDE DEF r
<1>11. Len(encBufs'.free) + Depth' <= Threads
  <2>1. Len(encBufs.free) + Depth <= Threads BY <1>2, <1>8, <1>9 DEF SourcesCounted
  <2>2. CASE out
    <3>1. encBufs' = r BY <1>4, <2>2 DEF r
    <3> DEFINE more == IF encBufs.buf[c.fenc].count = 1 THEN 1 ELSE 0
    <3>2. more \in 0 .. 1 OBVIOUS
    <3>3. Len(encBufs'.free) = Len(encBufs.free) + more BY <1>6, <3>1
    <3> HIDE DEF c, out, more
    <3> QED BY <1>7, <1>8, <1>9, <2>1, <3>2, <3>3
  <2>3. CASE ~out
    <3>1. encBufs' = encBufs BY <1>4, <2>3
    <3> HIDE DEF c, out
    <3> QED BY <1>7, <1>8, <1>9, <2>1, <3>1
  <2> QED BY <2>2, <2>3
<1>12. ASSUME input' > 0, ~closing'
       PROVE  InPipe(phase)' /\ lastNonb' = ctx'[phase'].fenc
  <2>1. InPipe(phase) /\ lastNonb = ctx[phase].fenc BY <1>2, <1>12 DEF SourcesCounted
  <2>2. ctx'[phase].fenc = ctx[phase].fenc BY <1>1, <1>2 DEF SamePictures
  <2>3. \A t \in Arg : t = phase => InPipe(t)' BY <1>1, <1>2, <2>1
  <2>4. \A t \in Arg : t = phase' /\ InPipe(t)' => InPipe(phase)' BY DEF InPipe, Oldest, Next1
  <2> QED BY <1>1, <1>2, <2>1, <2>2, <2>3, <2>4
<1>13. ASSUME failures' = 0, NEW b \in DOMAIN encBufs'.buf
       PROVE  encBufs'.buf[b].count = SourceHolders(b)'
  <2>1. out BY <1>2, <1>10, <1>13
  <2>2. encBufs' = r BY <1>4, <2>1 DEF r
  <2>3. encBufs.buf[b].count = SourceHolders(b) /\ b \in DOMAIN encBufs.buf
    BY <1>2, <1>6, <1>13, <2>2 DEF SourcesCounted
  <2>4. encBufs.buf[b].count \in Nat BY <2>3, Counts
  <2>5. Coding(b)' = Coding(b) \ {Oldest} BY <1>2 DEF Coding, SamePictures
  <2>6. Oldest \in Coding(b) <=> b = c.fenc BY <1>1, <1>3 DEF Coding
  <2>7. Cardinality(Coding(b)') = Cardinality(Coding(b)) - IF b = c.fenc THEN 1 ELSE 0
    <3>1. IsFiniteSet(Coding(b)) /\ Cardinality(Coding(b)) \in Nat BY CodingIsFinite
    <3>2. CASE b = c.fenc
      <4>1. Oldest \in Coding(b) BY <2>6, <3>2
      <4> HIDE DEF c
      <4> QED BY <2>5, <3>1, <3>2, <4>1, FS_RemoveElement
    <3>3. CASE b # c.fenc
      <4>1. Oldest \notin Coding(b) BY <2>6, <3>3
      <4>2. Coding(b)' = Coding(b) BY <2>5, <4>1
      <4> HIDE DEF c
      <4> QED BY <3>1, <3>3, <4>2
    <3> QED BY <3>2, <3>3
  <2>8. SourceHolders(b) = Cardinality(Coding(b)) + (IF lastNonb = b THEN 1 ELSE 0)
    BY SourceHoldersAre
  <2>9. SourceHolders(b)' = Cardinality(Coding(b)') + (IF lastNonb = b THEN 1 ELSE 0)
    BY <1>2 DEF SourceHolders, Coding
  <2>10. encBufs'.buf[b].count = encBufs.buf[b].count - IF b = c.fenc THEN 1 ELSE 0
    BY <1>6, <2>2, <2>3, <2>4
  <2>11. Cardinality(Coding(b)) \in Nat BY CodingIsFinite
  <2> HIDE DEF c, out
  <2> QED BY <2>3, <2>4, <2>7, <2>8, <2>9, <2>10, <2>11
<1>14. input' = 0 => lastNonb' = 0 BY <1>2 DEF SourcesCounted
<1>15. Len(encBufs'.free) + Depth'
         <= Threads + IF caller' \in {"join", "freed"} THEN 1 ELSE 0
  BY <1>2, <1>8, <1>11
<1> QED BY <1>12, <1>13, <1>14, <1>15 DEF SourcesCounted

\* At the end the last source picture is given back.
LEMMA LastGivenBack ==
  ASSUME IInv, SourcesCounted, DeletePool
  PROVE  SourcesCounted'
<1>1. phase \in Arg /\ Oldest \in Arg BY Ages DEF IInv, TypeOK
<1>2. /\ call = "none" /\ call' = "none" /\ closing /\ lastNonb' = 0
      /\ UNCHANGED <<phase, ctx, input, closing, failures>>
      /\ caller = "out" /\ caller' = "join"
      /\ encBufs' = IF lastNonb = 0 THEN encBufs ELSE Release(encBufs, lastNonb)
  BY DEF DeletePool, Delete
<1>3. \A t \in Arg : ~ctx[t].active
  <2> DEFINE S == {t \in Arg : ctx[t].active}
  <2>1. S \subseteq Arg /\ Cardinality(S) = 0 BY DEF DeletePool, DelayedFrames
  <2>2. S = {} BY <2>1, Contexts, FS_Subset, FS_EmptySet
  <2> QED BY <2>2
<1>4. \A t \in Arg : ~InPipe(t) /\ ~InPipe(t)' BY <1>2, <1>3 DEF InPipe
<1>5. Depth = 0 /\ Depth' = 0
  <2>1. Piped' = {} BY <1>4 DEF Piped
  <2>2. Depth' = Cardinality(Piped') BY DEF Depth, Piped
  <2> QED BY <1>4, <2>1, <2>2, NobodyInside, FS_EmptySet
<1>6. Sound(encBufs) BY Sources
<1>7. Len(encBufs.free) \in Nat /\ Threads \in Nat BY <1>6, Contexts DEF Sound, Listed
<1>8. Len(encBufs.free) <= Threads
  <2>1. Len(encBufs.free) + Depth <= Threads + 0 BY <1>2 DEF SourcesCounted
  <2> QED BY <1>5, <1>7, <2>1
<1> DEFINE r == Release(encBufs, lastNonb)
<1>9. lastNonb # 0 =>
        /\ DOMAIN r.buf = DOMAIN encBufs.buf /\ lastNonb \in DOMAIN encBufs.buf
        /\ \A b \in DOMAIN encBufs.buf :
             r.buf[b].count = IF b = lastNonb THEN encBufs.buf[b].count - 1
                              ELSE encBufs.buf[b].count
        /\ Len(r.free) = Len(encBufs.free) + (IF encBufs.buf[lastNonb].count = 1 THEN 1 ELSE 0)
  <2>1. lastNonb # 0 => lastNonb \in DOMAIN encBufs.buf /\ encBufs.buf[lastNonb].count >= 1
    BY DEF IInv, SourcesHeld
  <2> QED BY <1>6, <2>1, SourceReleased
<1> HIDE DEF r
<1>10. encBufs' = IF lastNonb = 0 THEN encBufs ELSE r BY <1>2 DEF r
<1>11. Len(encBufs'.free) \in Nat /\ Len(encBufs'.free) <= Threads + 1
  <2>1. CASE lastNonb = 0 BY <1>7, <1>8, <1>10, <2>1
  <2>2. CASE lastNonb # 0
    <3> DEFINE more == IF encBufs.buf[lastNonb].count = 1 THEN 1 ELSE 0
    <3>1. more \in 0 .. 1 OBVIOUS
    <3>2. Len(encBufs'.free) = Len(encBufs.free) + more BY <1>9, <1>10, <2>2
    <3> HIDE DEF more
    <3> QED BY <1>7, <1>8, <3>1, <3>2
  <2> QED BY <2>1, <2>2
<1>12. Len(encBufs'.free) + Depth'
         <= Threads + IF caller' \in {"join", "freed"} THEN 1 ELSE 0
  BY <1>2, <1>5, <1>7, <1>11
<1>13. ASSUME failures' = 0, NEW b \in DOMAIN encBufs'.buf
       PROVE  encBufs'.buf[b].count = SourceHolders(b)'
  <2>1. Coding(b) = {} /\ Coding(b)' = {} BY <1>4 DEF Coding
  <2>2. b \in DOMAIN encBufs.buf BY <1>9, <1>10, <1>13
  <2>3. encBufs.buf[b].count = SourceHolders(b) BY <1>2, <1>13, <2>2 DEF SourcesCounted
  <2>4. SourceHolders(b) = 0 + IF lastNonb = b THEN 1 ELSE 0
    BY <2>1, SourceHoldersAre, FS_EmptySet
  <2>5. SourceHolders(b)' = 0 + IF lastNonb' = b THEN 1 ELSE 0
    <3>1. SourceHolders(b)' = Cardinality(Coding(b)') + IF lastNonb' = b THEN 1 ELSE 0
      BY DEF SourceHolders, Coding
    <3> QED BY <2>1, <3>1, FS_EmptySet
  <2>6. b # 0 BY <1>6, <2>2 DEF Sound, Listed
  <2>7. encBufs.buf[b].count \in Nat BY <2>2, Counts
  <2>8. CASE b = lastNonb
    <3>1. encBufs'.buf[b].count = encBufs.buf[b].count - 1 BY <1>9, <1>10, <2>2, <2>6, <2>8
    <3> QED BY <1>2, <2>3, <2>4, <2>5, <2>6, <2>8, <3>1
  <2>9. CASE b # lastNonb
    <3>1. encBufs'.buf[b].count = encBufs.buf[b].count BY <1>9, <1>10, <2>2, <2>9
    <3> QED BY <1>2, <2>3, <2>4, <2>5, <2>6, <2>9, <3>1
  <2> QED BY <2>8, <2>9
<1>14. input' = 0 => lastNonb' = 0 BY <1>2
<1>15. closing' BY <1>2
<1> QED BY <1>12, <1>13, <1>14, <1>15 DEF SourcesCounted

\* The pipe after a picture was put in: the oldest context is the youngest.
LEMMA EncodePipe ==
  ASSUME IInv, NEW cut, Encode(cut)
  PROVE  /\ \A t \in Arg : InPipe(t)' <=> InPipe(t) \/ t = Oldest
         /\ ~InPipe(Oldest) /\ Depth' = Depth + 1 /\ Depth < Threads
         /\ \A t \in Arg : InPipe(t) => /\ t # Oldest /\ ctx'[t].fenc = ctx[t].fenc
                                        /\ ctx'[t].fenc # lastNonb' /\ Num(t)' = Num(t)
         /\ \A t \in Arg : t = Oldest => Num(t)' = input
         /\ \A t \in Arg : (Age(t))' = IF t = Oldest THEN 0 ELSE Age(t) + 1
<1>1. phase \in Arg /\ Oldest \in Arg /\ Oldest # phase BY Ages DEF IInv, TypeOK
<1>2. /\ \A u \in Arg : u # Oldest => SamePictures(u)
      /\ \A u \in Arg : ctx'[u].active = ctx[u].active
      /\ ctx'[Oldest].fenc = lastNonb'
      /\ call = "none" /\ call' = "run" /\ phase' = Oldest
  BY EncodeMoves
<1>3. ~ctx[Oldest].active /\ ~InPipe(Oldest) BY <1>1, <1>2 DEF IInv, InStep, InPipe
<1>4. \A t \in Arg : InPipe(t)' <=> InPipe(t) \/ t = Oldest BY <1>1, <1>2 DEF InPipe
<1>5. Depth' = Depth + 1 /\ Depth < Threads BY <1>1, <1>3, <1>4, OneMore
<1>6. /\ lastNonb' \in DOMAIN encBufs'.buf /\ encBufs'.buf[lastNonb'].pic = input
      /\ \A b \in DOMAIN encBufs.buf : encBufs.buf[b].count >= 1 =>
           b # lastNonb' /\ encBufs'.buf[b].pic = encBufs.buf[b].pic
  BY PutInBuffer
<1>7. \A t \in Arg : InPipe(t) =>
        ctx[t].fenc \in DOMAIN encBufs.buf /\ encBufs.buf[ctx[t].fenc].count >= 1
  <2> SUFFICES ASSUME NEW t \in Arg, InPipe(t)
               PROVE  ctx[t].fenc \in DOMAIN encBufs.buf /\ encBufs.buf[ctx[t].fenc].count >= 1
    OBVIOUS
  <2>1. /\ ctx[t].fenc \in DOMAIN encBufs.buf
        /\ encBufs.buf[ctx[t].fenc].count >= IF ctx[t].fenc = lastNonb THEN 2 ELSE 1
    BY DEF IInv, SourcesHeld
  <2>2. encBufs.buf[ctx[t].fenc].count \in Nat BY <2>1, Counts
  <2> QED BY <2>1, <2>2
<1>8. \A t \in Arg : InPipe(t) => /\ t # Oldest /\ ctx'[t].fenc = ctx[t].fenc
                                  /\ ctx'[t].fenc # lastNonb' /\ Num(t)' = Num(t)
  BY <1>2, <1>3, <1>6, <1>7 DEF SamePictures, Num
<1>9. \A t \in Arg : t = Oldest => Num(t)' = input BY <1>2, <1>6 DEF Num
<1>10. phase' = Next1(phase) BY <1>2 DEF Oldest
<1>11. \A t \in Arg : (Age(t))' = IF t = Oldest THEN 0 ELSE Age(t) + 1 BY <1>1, <1>10, Older
<1> QED BY <1>3, <1>4, <1>5, <1>8, <1>9, <1>11

\* A new source picture is held twice, and the one before it once less.
LEMMA PutInCounted ==
  ASSUME IInv, IInv', SourcesCounted, NEW cut, Encode(cut)
  PROVE  SourcesCounted'
<1> DEFINE f   == lastNonb'
           old == encBufs.buf
           len == Len(encBufs.free)
<1>1. phase \in Arg /\ Oldest \in Arg /\ Oldest # phase /\ input \in Nat
  BY Ages DEF IInv, TypeOK
<1>2. /\ caller = "out" /\ caller' = "push" /\ phase' = Oldest /\ input' = input + 1
      /\ ctx'[Oldest].fenc = f /\ ~closing /\ failures' = failures
  <2>1. PopUninit(Oldest) /\ phase' = Oldest /\ input' = input + 1 /\ ctx'[Oldest].fenc = lastNonb'
        /\ ~closing /\ failures' = failures
    BY EncodeMoves
  <2> QED BY <2>1 DEF PopUninit
<1>3. /\ \A t \in Arg : InPipe(t)' <=> InPipe(t) \/ t = Oldest
      /\ Depth' = Depth + 1 /\ Depth < Threads /\ ~InPipe(Oldest)
      /\ \A t \in Arg : InPipe(t) => /\ t # Oldest /\ ctx'[t].fenc = ctx[t].fenc
                                     /\ ctx'[t].fenc # f
  BY EncodePipe
<1>4. Sound(encBufs) /\ len \in Nat
  <2>1. Sound(encBufs) BY Sources
  <2> QED BY <2>1 DEF Sound, Listed
<1>5. /\ encBufs'.buf[f].count = 2 /\ f \in Nat \ {0}
      /\ \A b \in DOMAIN old : old[b].count >= 1 =>
           encBufs'.buf[b].count = IF b = lastNonb /\ lastNonb # 0 THEN old[b].count - 1
                                   ELSE old[b].count
      /\ \A b \in DOMAIN encBufs'.buf : b # f =>
           b \in DOMAIN old /\ (old[b].count = 0 => encBufs'.buf[b].count = 0)
      /\ Len(encBufs'.free) =
           (IF len = 0 THEN 0 ELSE len - 1)
           + (IF lastNonb # 0 /\ old[lastNonb].count = 1 THEN 1 ELSE 0)
  BY PutInBuffer
<1>6. ~(lastNonb # 0 /\ old[lastNonb].count = 1)
  <2> SUFFICES ASSUME lastNonb # 0 PROVE old[lastNonb].count # 1 OBVIOUS
  <2>1. input > 0 BY <1>1 DEF SourcesCounted
  <2>2. InPipe(phase) /\ lastNonb = ctx[phase].fenc BY <1>2, <2>1 DEF SourcesCounted
  <2>3. old[lastNonb].count >= 2 BY <1>1, <2>2 DEF IInv, SourcesHeld
  <2> QED BY <2>3
<1>7. Len(encBufs'.free) = IF len = 0 THEN 0 ELSE len - 1
  <2> DEFINE n == IF len = 0 THEN 0 ELSE len - 1
  <2>1. n \in Nat BY <1>4
  <2>2. Len(encBufs'.free) = n + 0 BY <1>5, <1>6
  <2> HIDE DEF n
  <2>3. Len(encBufs'.free) = n BY <2>1, <2>2
  <2> QED BY <2>3 DEF n
<1>8. Depth \in Nat /\ Threads \in Nat BY PipedFinite, Contexts
<1>9. Len(encBufs'.free) + Depth'
        <= Threads + IF caller' \in {"join", "freed"} THEN 1 ELSE 0
  <2>1. len + Depth <= Threads + 0 BY <1>2 DEF SourcesCounted
  <2> HIDE DEF len
  <2>2. Len(encBufs'.free) + Depth' <= Threads BY <1>3, <1>4, <1>7, <1>8, <2>1
  <2> QED BY <1>2, <1>8, <2>2
<1>10. InPipe(phase)' /\ lastNonb' = ctx'[phase'].fenc
  <2>1. \A t \in Arg : t = phase' /\ InPipe(t)' => InPipe(phase)' BY DEF InPipe, Oldest, Next1
  <2> QED BY <1>1, <1>2, <1>3, <2>1
<1>11. ASSUME failures' = 0, NEW b \in DOMAIN encBufs'.buf
       PROVE  encBufs'.buf[b].count = SourceHolders(b)'
  <2>1. SourceHolders(b)' = Cardinality(Coding(b)') + IF f = b THEN 1 ELSE 0
    BY DEF SourceHolders, Coding
  <2>2. CASE b = f
    <3>1. Coding(b)' = {Oldest} BY <1>1, <1>2, <1>3, <2>2 DEF Coding
    <3>2. Cardinality({Oldest}) = 1 BY FS_Singleton
    <3>3. SourceHolders(b)' = 1 + 1 BY <2>1, <2>2, <3>1, <3>2
    <3>4. encBufs'.buf[b].count = 2 BY <1>5, <2>2
    <3> QED BY <3>3, <3>4
  <2>3. CASE b # f
    <3>1. Coding(b)' = Coding(b) BY <1>2, <1>3, <2>3 DEF Coding
    <3>2. b \in DOMAIN old BY <1>5, <2>3
    <3>3. old[b].count = SourceHolders(b) BY <1>2, <1>11, <3>2 DEF SourcesCounted
    <3>4. old[b].count \in Nat BY <3>2, Counts
    <3>5. Cardinality(Coding(b)) \in Nat BY CodingIsFinite
    <3>6. SourceHolders(b) = Cardinality(Coding(b)) + (IF lastNonb = b THEN 1 ELSE 0)
      BY SourceHoldersAre
    <3>7. b # 0 BY <1>4, <3>2 DEF Sound, Listed
    <3>8. SourceHolders(b)' = Cardinality(Coding(b)) BY <2>1, <2>3, <3>1, <3>5
    <3>9. CASE lastNonb = b
      <4>1. old[b].count >= 1 BY <3>3, <3>5, <3>6, <3>9
      <4>2. encBufs'.buf[b].count = old[b].count - 1 BY <1>5, <3>2, <3>7, <3>9, <4>1
      <4> QED BY <3>3, <3>5, <3>6, <3>8, <3>9, <4>2
    <3>10. CASE lastNonb # b
      <4>1. old[b].count = Cardinality(Coding(b)) BY <3>3, <3>5, <3>6, <3>10
      <4>2. encBufs'.buf[b].count = old[b].count BY <1>5, <2>3, <3>2, <3>4, <3>10
      <4> QED BY <3>8, <4>1, <4>2
    <3> QED BY <3>9, <3>10
  <2> QED BY <2>2, <2>3
<1>12. input' # 0 BY <1>1, <1>2
<1> QED BY <1>9, <1>10, <1>11, <1>12 DEF SourcesCounted

OpenedSources ==
  /\ encBufs = NewEncBufs /\ input = 0 /\ lastNonb = 0 /\ call = "none"
  /\ caller = "out" /\ ctx = NewCtx

\* A new encoder holds no source picture.
LEMMA OpenedCounts == OpenedSources => SourcesCounted
<1> SUFFICES ASSUME OpenedSources PROVE SourcesCounted OBVIOUS
<1>1. \A t \in Arg : ~InPipe(t) BY DEF InPipe, OpenedSources, NewCtx, Context
<1>2. Depth = 0 BY <1>1, NobodyInside
<1>3. Len(encBufs.free) = 0 /\ DOMAIN encBufs.buf = {} BY DEF OpenedSources, NewEncBufs
<1>4. Threads \in Nat BY Contexts
<1>5. Len(encBufs.free) + Depth <= Threads + IF caller \in {"join", "freed"} THEN 1 ELSE 0
  BY <1>2, <1>3, <1>4 DEF OpenedSources
<1> QED BY <1>3, <1>5 DEF SourcesCounted, OpenedSources

\* The same after x264_encoder_open.
LEMMA OpenedCountsAgain == OpenedSources' => SourcesCounted'
BY OpenedCounts, PTL

\* Source pictures come back.
LEMMA SourcesCountedKept ==
  ASSUME IInv, IInv', JobsRun, SourcesCounted, [Next]_vars
  PROVE  SourcesCounted'
<1>0. phase \in Arg BY DEF IInv, TypeOK
<1>1. ASSUME NEW cut \in BOOLEAN, Encode(cut) PROVE SourcesCounted'
  BY <1>1, PutInCounted
<1>2. CASE Flush
  <2>1. /\ \A t \in Arg : InPipe(t)' <=> InPipe(t)
        /\ \A u \in Arg : u # Oldest => SamePictures(u)
        /\ ~InPipe(Oldest) /\ closing
        /\ UNCHANGED <<encBufs, input, lastNonb, closing, failures, caller>>
    BY <1>2, FlushMoves
  <2>2. \A t \in Arg : InPipe(t) => ctx'[t].fenc = ctx[t].fenc BY <2>1 DEF SamePictures
  <2> QED BY <1>0, <2>1, <2>2, SourcesRest
<1>3. CASE FrameEnd
  <2>1. CASE call = "wait" BY <1>3, <2>1, OutputGivesBack
  <2>2. CASE call # "wait"
    <3>1. /\ \A t \in Arg : InPipe(t)' <=> InPipe(t) /\ t # Oldest
          /\ \A u \in Arg : SamePictures(u)
          /\ UNCHANGED <<phase, input, lastNonb, closing, failures>> /\ caller' = "out"
      BY <1>3, FrameEndMoves
    <3>2. call = "end" /\ ~ctx[Oldest].active /\ encBufs' = encBufs
      <4>1. /\ call = "end"
            /\ ~ctx[Oldest].active
        BY <1>3, <2>2 DEF FrameEnd
      <4>2. \/ call = "end" /\ UNCHANGED <<ctx, encBufs, sent, dpb>>
            \/ call = "wait" /\ caller = "return" /\ carg = Oldest
        BY <1>3, FrameEndMoves
      <4> QED BY <2>2, <4>1, <4>2
    <3>3. ~InPipe(Oldest) BY <3>2 DEF InPipe
    <3>4. \A t \in Arg : InPipe(t)' <=> InPipe(t) BY <3>1, <3>3
    <3>5. \A t \in Arg : InPipe(t) => ctx'[t].fenc = ctx[t].fenc BY <3>1 DEF SamePictures
    <3>6. caller = "out" BY <3>2 DEF IInv, InStep
    <3> QED BY <1>0, <3>1, <3>2, <3>4, <3>5, <3>6, SourcesRest
  <2> QED BY <2>1, <2>2
<1>4. ASSUME NEW w \in Worker, NEW t \in Arg,
             Await(w, t) \/ CodeRow(w, t) \/ Publish(w, t) \/ Fail(w, t)
      PROVE  SourcesCounted'
  <2>1. /\ \A u \in Arg : SamePictures(u)
        /\ \A u \in Arg : InPipe(u)' <=> InPipe(u)
        /\ UNCHANGED <<phase, encBufs, input, lastNonb, closing, caller>>
    BY <1>4, JobMoves
  <2>2. failures' = failures \/ failures' = failures + 1
    BY <1>4, JobMoves DEF Awaited, Coded, Published, Failed
  <2>3. failures' = 0 => failures = 0 BY <2>2 DEF JobsRun
  <2>4. \A u \in Arg : InPipe(u) => ctx'[u].fenc = ctx[u].fenc BY <2>1 DEF SamePictures
  <2> QED BY <1>0, <2>1, <2>3, <2>4, SourcesRest
<1>5. CASE Queue
  <2>1. /\ \A u \in Arg : SamePictures(u)
        /\ \A u \in Arg : InPipe(u)' <=> InPipe(u)
        /\ UNCHANGED <<phase, encBufs, input, lastNonb, closing, failures>> /\ PushRun
    BY <1>5, QueueMoves
  <2>2. \A u \in Arg : InPipe(u) => ctx'[u].fenc = ctx[u].fenc BY <2>1 DEF SamePictures
  <2>3. caller = "push" BY <2>1 DEF PushRun
  <2> QED BY <1>0, <2>1, <2>2, <2>3, SourcesRest
<1>6. CASE WaitOldest
  <2>1. /\ \A u \in Arg : SamePictures(u)
        /\ \A u \in Arg : InPipe(u)' <=> InPipe(u)
        /\ UNCHANGED <<phase, encBufs, input, lastNonb, closing, failures>> /\ BeginWait(Oldest)
    BY <1>6, WaitOldestMoves
  <2>2. \A u \in Arg : InPipe(u) => ctx'[u].fenc = ctx[u].fenc BY <2>1 DEF SamePictures
  <2>3. caller = "out" BY <2>1 DEF BeginWait
  <2> QED BY <1>0, <2>1, <2>2, <2>3, SourcesRest
<1>7. ASSUME UNCHANGED <<phase, ctx, encBufs, input, lastNonb, call, failures>>,
             closing => closing',
             caller \in {"join", "freed"} => caller' \in {"join", "freed"}
      PROVE  SourcesCounted'
  <2>1. \A t \in Arg : InPipe(t)' <=> InPipe(t) BY <1>7 DEF InPipe, Oldest, Next1
  <2> QED BY <1>0, <1>7, <2>1, SourcesRest
<1>8. CASE Waiting
  <2>1. UNCHANGED frameVars /\ caller \in {"look"} BY <1>8 DEF Waiting, SleepDone, FindDone
  <2> QED BY <1>7, <2>1 DEF frameVars
<1>9. CASE BeginClose BY <1>7, <1>9 DEF BeginClose, poolVars
<1>10. CASE DeletePool BY <1>10, LastGivenBack
<1>11. CASE JoinPool
  <2>1. UNCHANGED frameVars /\ caller' = "freed" BY <1>11 DEF JoinPool, Joined
  <2> QED BY <1>7, <2>1 DEF frameVars
<1>12. CASE Reopen
  <2>1. caller = "freed" BY <1>12 DEF Reopen, Create
  <2>2. lastNonb = 0 /\ call = "none" BY <2>1 DEF IInv, InStep, TypeOK
  <2>3. OpenedSources'
    BY <1>12, <2>2 DEF Reopen, Create, OpenedSources, NewCtx, NewEncBufs
  <2> QED BY <2>3, OpenedCountsAgain
<1>13. ASSUME NEW w \in Worker, PoolThread(w) PROVE SourcesCounted'
  <2>1. UNCHANGED frameVars BY <1>13 DEF PoolThread
  <2>2. caller \in {"join", "freed"} => caller' = caller
    BY <1>13 DEF PoolThread, Loop, Top, Sleep, Take, NoJob, PushDone
  <2> QED BY <1>7, <2>1, <2>2 DEF frameVars
<1>14. CASE UNCHANGED vars BY <1>7, <1>14 DEF vars, frameVars, poolVars
<1> QED
  BY <1>1, <1>2, <1>3, <1>4, <1>5, <1>6, <1>8, <1>9, <1>10, <1>11, <1>12, <1>13, <1>14
  DEF Next

\* n numbers fill a sequence without repetitions of length n at most.
LEMMA InjectiveIsShort ==
  ASSUME NEW s \in Seq(Nat), \A i, j \in DOMAIN s : s[i] = s[j] => i = j,
         NEW n \in Nat, \A i \in DOMAIN s : s[i] \in 1 .. n
  PROVE  Len(s) <= n
<1>1. s \in [1 .. Len(s) -> 1 .. n] /\ Len(s) \in Nat OBVIOUS
<1>2. s \in Injection(1 .. Len(s), 1 .. n) BY <1>1 DEF Injection, IsInjective
<1>3. IsFiniteSet(1 .. n) /\ Cardinality(1 .. n) = n BY FS_Interval
<1>4. IsFiniteSet(1 .. Len(s)) /\ Cardinality(1 .. Len(s)) = Len(s)
  <2> DEFINE m == Len(s)
  <2>1. m \in Nat BY <1>1
  <2> HIDE DEF m
  <2>2. IsFiniteSet(1 .. m) /\ Cardinality(1 .. m) = m BY <2>1, FS_Interval
  <2> QED BY <2>2 DEF m
<1> QED BY <1>2, <1>3, <1>4, FS_Injection

\* The lists of x264_encoder_open are long enough, and their counts right.
LEMMA CountsAreHeld ==
  ASSUME IInv, PicturesShared, SourcesCounted
  PROVE  CountsHold
<1>1. Threads \in Nat /\ Depth \in Nat /\ NumRefs \in 1 .. 16
  BY Contexts, PipedFinite, FramesAssumption
<1>2. Sound(encBufs) BY Sources
<1>3. Len(encBufs.free) \in Nat BY <1>2 DEF Sound, Listed
<1>4. Len(encBufs.free) < Threads - 1 + 3
  <2> DEFINE n == IF caller \in {"join", "freed"} THEN 1 ELSE 0
  <2>1. Len(encBufs.free) + Depth <= Threads + n BY DEF SourcesCounted
  <2>2. n \in 0 .. 1 OBVIOUS
  <2> HIDE DEF n
  <2> QED BY <1>1, <1>3, <2>1, <2>2
<1>5. Listed(decBufs, DecBuffer) BY DEF PicturesShared, Listed
<1>6. Len(decBufs.free) < Threads + 16 + 4
  <2> DEFINE n == Len(decBufs.buf)
  <2>1. /\ decBufs.free \in Seq(Nat) /\ DOMAIN decBufs.buf = 1 .. n /\ n \in Nat
        /\ \A i, j \in DOMAIN decBufs.free : decBufs.free[i] = decBufs.free[j] => i = j
        /\ \A i \in DOMAIN decBufs.free : decBufs.free[i] \in DOMAIN decBufs.buf
        /\ Len(decBufs.free) \in Nat
    BY <1>5, DecBuffers, ListedMeans
  <2>2. n <= Threads + NumRefs BY DEF PicturesShared
  <2> HIDE DEF n
  <2>3. Len(decBufs.free) <= n BY <2>1, InjectiveIsShort
  <2> QED BY <1>1, <2>1, <2>2, <2>3
<1>7. \A t \in Arg : Len(ctx[t].ref) <= NumRefs BY DEF PicturesShared
<1>8. \A b \in DOMAIN decBufs.buf : decBufs.buf[b].count = Holders(b) BY DEF PicturesShared
<1>9. failures = 0 => \A b \in DOMAIN encBufs.buf : encBufs.buf[b].count = SourceHolders(b)
  BY DEF SourcesCounted
<1>10. ASSUME NEW l \in {decBufs, encBufs}
       PROVE  /\ IsInjective(l.free)
              /\ ToSet(l.free) = {b \in DOMAIN l.buf : l.buf[b].count = 0}
  BY <1>2, <1>5, <1>10 DEF Sound, Listed
<1> QED BY <1>4, <1>6, <1>7, <1>8, <1>9, <1>10 DEF CountsHold, ListsFit

-----------------------------------------------------------------------------
(* Pictures are numbered in the order they went in.                        *)

\* What most steps leave alone: the pictures, and how far their jobs are.
Calm ==
  /\ input' = input /\ lastKey' = lastKey
  /\ DOMAIN decBufs'.buf = DOMAIN decBufs.buf
  /\ \A b \in DOMAIN decBufs.buf : Alike(decBufs'.buf[b], decBufs.buf[b])
  /\ \A t \in Arg : InPipe(t)' =>
       InPipe(t) /\ SamePictures(t) /\ SameProgress(t) /\ Num(t)' = Num(t)
  /\ \A t \in Arg : \E u \in Arg : ctx'[t].ref = ctx[u].ref /\ ctx'[t].fdec = ctx[u].fdec

\* ... and the pictures inside.
CalmInside == Calm /\ dpb' = dpb /\ \A t \in Arg : InPipe(t)' <=> InPipe(t)

\* A step of a job.
JobStep(w, t) == Await(w, t) \/ CodeRow(w, t) \/ Publish(w, t) \/ Fail(w, t)

\* A step that touches none of the pictures is calm.
LEMMA NothingIsCalm ==
  ASSUME UNCHANGED <<input, lastKey, decBufs, dpb>>,
         \A t \in Arg : InPipe(t)' <=> InPipe(t),
         \A t \in Arg : SamePictures(t) /\ SameProgress(t),
         \A t \in Arg : InPipe(t)' => encBufs' = encBufs
  PROVE  CalmInside
<1>1. \A b \in DOMAIN decBufs.buf : Alike(decBufs'.buf[b], decBufs.buf[b]) BY DEF Alike
<1>2. \A t \in Arg : InPipe(t)' => Num(t)' = Num(t) BY DEF Num, SamePictures
<1>3. \A t \in Arg : \E u \in Arg : ctx'[t].ref = ctx[u].ref /\ ctx'[t].fdec = ctx[u].fdec
  BY DEF SamePictures
<1> QED BY <1>1, <1>2, <1>3 DEF CalmInside, Calm

\* The source pictures of the other contexts when the oldest is given back.
LEMMA SourcesStay ==
  ASSUME IInv, FrameEnd, call = "wait"
  PROVE  \A t \in Arg : InPipe(t) => Num(t)' = Num(t)
<1> DEFINE c == ctx[Oldest]
           r == Release(encBufs, c.fenc)
<1>1. phase \in Arg /\ Oldest \in Arg BY Ages DEF IInv, TypeOK
<1>2. InPipe(Oldest) BY DEF InPipe
<1>3. encBufs' = encBufs \/ encBufs' = r BY DEF FrameEnd, Output
<1>4. \A t \in Arg : InPipe(t) =>
        ctx[t].fenc \in DOMAIN encBufs.buf /\ encBufs.buf[ctx[t].fenc].count >= 1
  <2> SUFFICES ASSUME NEW t \in Arg, InPipe(t)
               PROVE  ctx[t].fenc \in DOMAIN encBufs.buf /\ encBufs.buf[ctx[t].fenc].count >= 1
    OBVIOUS
  <2>1. /\ ctx[t].fenc \in DOMAIN encBufs.buf
        /\ encBufs.buf[ctx[t].fenc].count >= IF ctx[t].fenc = lastNonb THEN 2 ELSE 1
    BY DEF IInv, SourcesHeld
  <2>2. encBufs.buf[ctx[t].fenc].count \in Nat BY <2>1, Counts
  <2> QED BY <2>1, <2>2
<1>5. c.fenc \in DOMAIN encBufs.buf /\ encBufs.buf[c.fenc].count >= 1 BY <1>1, <1>2, <1>4
<1>6. \A b \in DOMAIN encBufs.buf : r.buf[b].pic = encBufs.buf[b].pic
  BY <1>5, Sources, SourceReleased
<1>7. \A t \in Arg : ctx'[t].fenc = ctx[t].fenc BY FrameEndMoves DEF SamePictures
<1> HIDE DEF r, c
<1> QED BY <1>3, <1>4, <1>6, <1>7 DEF Num

\* Every step is calm but that of a job, of the caller who puts in a picture,
\* and of the one who opens the encoder; when one comes out there is one less.
LEMMA CalmSteps ==
  ASSUME IInv, IInv', PicturesShared, [Next]_vars
  PROVE  \/ \E cut \in BOOLEAN : Encode(cut)
         \/ Reopen
         \/ \E w \in Worker, t \in Arg : JobStep(w, t)
         \/ CalmInside
         \/ Calm /\ FrameEnd /\ call = "wait"
<1>0. phase \in Arg /\ Oldest \in Arg BY Ages DEF IInv, TypeOK
<1>2. CASE Flush
  <2>1. /\ \A t \in Arg : InPipe(t)' <=> InPipe(t)
        /\ \A u \in Arg : SameProgress(u) /\ (u # Oldest => SamePictures(u))
        /\ ctx'[Oldest].fdec = ctx[phase].fdec /\ ctx'[Oldest].ref = ctx[phase].ref
        /\ ~InPipe(Oldest) /\ decBufs' = SyncBufs(Oldest, phase)
        /\ UNCHANGED <<encBufs, input, lastKey, dpb>>
    BY <1>2, FlushMoves
  <2>2. SameBufs(decBufs', decBufs) BY <2>1, HoldsSynced
  <2>3. /\ DOMAIN decBufs'.buf = DOMAIN decBufs.buf
        /\ \A b \in DOMAIN decBufs.buf : Alike(decBufs'.buf[b], decBufs.buf[b])
    BY <2>2 DEF SameBufs
  <2>4. \A t \in Arg : InPipe(t)' => t # Oldest /\ SamePictures(t) /\ Num(t)' = Num(t)
    BY <2>1 DEF SamePictures, Num
  <2>5. \A t \in Arg : \E u \in Arg : ctx'[t].ref = ctx[u].ref /\ ctx'[t].fdec = ctx[u].fdec
    BY <1>0, <2>1 DEF SamePictures
  <2> QED BY <2>1, <2>3, <2>4, <2>5 DEF Calm, CalmInside
<1>3. CASE FrameEnd
  <2>1. /\ \A t \in Arg : InPipe(t)' <=> InPipe(t) /\ t # Oldest
        /\ \A u \in Arg : SamePictures(u) /\ (u # Oldest => SameProgress(u))
        /\ UNCHANGED <<decBufs, input, lastKey>>
    BY <1>3, FrameEndMoves
  <2>2. CASE call = "wait"
    <3>1. \A t \in Arg : InPipe(t) => Num(t)' = Num(t) BY <1>3, <2>2, SourcesStay
    <3>2. \A b \in DOMAIN decBufs.buf : Alike(decBufs'.buf[b], decBufs.buf[b])
      BY <2>1 DEF Alike
    <3>3. \A t \in Arg : \E u \in Arg : ctx'[t].ref = ctx[u].ref /\ ctx'[t].fdec = ctx[u].fdec
      BY <2>1 DEF SamePictures
    <3> QED BY <1>3, <2>1, <2>2, <3>1, <3>2, <3>3 DEF Calm
  <2>3. CASE call # "wait"
    <3>1. call = "end" /\ ~ctx[Oldest].active BY <1>3, <2>3 DEF FrameEnd
    <3>2. UNCHANGED <<ctx, encBufs, sent, dpb>>
      <4>1. \/ call = "end" /\ UNCHANGED <<ctx, encBufs, sent, dpb>>
            \/ call = "wait" /\ caller = "return" /\ carg = Oldest
        BY <1>3, FrameEndMoves
      <4> QED BY <2>3, <4>1
    <3>3. ~InPipe(Oldest) BY <3>1 DEF InPipe
    <3>4. \A t \in Arg : InPipe(t)' <=> InPipe(t) BY <2>1, <3>3
    <3>5. \A t \in Arg : SamePictures(t) /\ SameProgress(t)
      BY <3>2 DEF SamePictures, SameProgress
    <3> QED BY <2>1, <3>2, <3>4, <3>5, NothingIsCalm
  <2> QED BY <2>2, <2>3
<1>5. CASE Queue
  <2>1. /\ \A u \in Arg : SamePictures(u) /\ SameProgress(u)
        /\ \A u \in Arg : InPipe(u)' <=> InPipe(u)
        /\ UNCHANGED <<encBufs, decBufs, input, lastKey, dpb>>
    BY <1>5, QueueMoves
  <2> QED BY <2>1, NothingIsCalm
<1>6. CASE WaitOldest
  <2>1. /\ \A u \in Arg : SamePictures(u) /\ SameProgress(u)
        /\ \A u \in Arg : InPipe(u)' <=> InPipe(u)
        /\ UNCHANGED <<encBufs, decBufs, input, lastKey, dpb>>
    BY <1>6, WaitOldestMoves
  <2> QED BY <2>1, NothingIsCalm
<1>7. ASSUME UNCHANGED <<phase, ctx, call, input, lastKey, decBufs, dpb>>,
             \A t \in Arg : InPipe(t) => encBufs' = encBufs
      PROVE  CalmInside
  <2>1. \A t \in Arg : InPipe(t)' <=> InPipe(t) BY <1>7 DEF InPipe, Oldest, Next1
  <2>2. \A t \in Arg : SamePictures(t) /\ SameProgress(t)
    BY <1>7 DEF SamePictures, SameProgress
  <2> QED BY <1>7, <2>1, <2>2, NothingIsCalm
<1>8. CASE UNCHANGED frameVars BY <1>7, <1>8 DEF frameVars
<1>9. CASE BeginClose BY <1>7, <1>9 DEF BeginClose
<1>10. CASE DeletePool
  <2>1. \A t \in Arg : ~ctx[t].active
    <3> DEFINE S == {t \in Arg : ctx[t].active}
    <3>1. S \subseteq Arg /\ Cardinality(S) = 0 BY <1>10 DEF DeletePool, DelayedFrames
    <3>2. S = {} BY <3>1, Contexts, FS_Subset, FS_EmptySet
    <3> QED BY <3>2
  <2>2. call = "none" BY <1>10 DEF DeletePool
  <2>3. \A t \in Arg : ~InPipe(t) BY <2>1, <2>2 DEF InPipe
  <2> QED BY <1>7, <1>10, <2>3 DEF DeletePool
<1>11. Waiting \/ JoinPool \/ (\E w \in Worker : PoolThread(w)) \/ UNCHANGED vars
         => UNCHANGED frameVars
  BY DEF Waiting, JoinPool, PoolThread, vars
<1> QED BY <1>2, <1>3, <1>5, <1>6, <1>8, <1>9, <1>10, <1>11 DEF Next, JobStep

\* The pictures in the buffers of a context are there, and are numbers.
LEMMA PicturesAre ==
  ASSUME PicturesShared
  PROVE  /\ \A b \in DOMAIN decBufs.buf : /\ decBufs.buf[b] \in DecBuffer
                                          /\ decBufs.buf[b].pic \in Int
                                          /\ decBufs.buf[b].lines \in Int
                                          /\ decBufs.buf[b].final \in Int
                                          /\ decBufs.buf[b].kept \in BOOLEAN
         /\ \A t \in Arg : /\ ctx[t].fdec \in DOMAIN decBufs.buf
                           /\ ctx[t].ref \in Seq(Nat) /\ Len(ctx[t].ref) \in 0 .. NumRefs
                           /\ DOMAIN ctx[t].ref = 1 .. Len(ctx[t].ref)
                           /\ \A i \in DOMAIN ctx[t].ref : /\ ctx[t].ref[i] \in DOMAIN decBufs.buf
                                                           /\ ctx[t].ref[i] # ctx[t].fdec
                                                           /\ ctx[t].ref[i] \in Used(t)
                           /\ \A b \in ToSet(ctx[t].ref) : b \in DOMAIN decBufs.buf /\ b # ctx[t].fdec
<1>1. \A b \in DOMAIN decBufs.buf : decBufs.buf[b] \in DecBuffer BY DEF PicturesShared
<1>2. ASSUME NEW t \in Arg
      PROVE  /\ ctx[t].fdec \in DOMAIN decBufs.buf
             /\ ctx[t].ref \in Seq(Nat) /\ Len(ctx[t].ref) \in 0 .. NumRefs
             /\ DOMAIN ctx[t].ref = 1 .. Len(ctx[t].ref)
             /\ \A i \in DOMAIN ctx[t].ref : /\ ctx[t].ref[i] \in DOMAIN decBufs.buf
                                             /\ ctx[t].ref[i] # ctx[t].fdec
                                             /\ ctx[t].ref[i] \in Used(t)
             /\ \A b \in ToSet(ctx[t].ref) : b \in DOMAIN decBufs.buf /\ b # ctx[t].fdec
  <2>1. ctx[t].ref \in Seq(Nat) /\ Len(ctx[t].ref) <= NumRefs
        /\ Used(t) \subseteq DOMAIN decBufs.buf /\ ctx[t].fdec \notin ToSet(ctx[t].ref)
    BY DEF PicturesShared
  <2>2. Len(ctx[t].ref) \in Nat /\ DOMAIN ctx[t].ref = 1 .. Len(ctx[t].ref) BY <2>1
  <2>3. NumRefs \in Nat BY FramesAssumption
  <2>4. \A i \in DOMAIN ctx[t].ref : ctx[t].ref[i] \in ToSet(ctx[t].ref) BY DEF ToSet
  <2> QED BY <2>1, <2>2, <2>3, <2>4 DEF Used
<1>3. \A x \in DecBuffer : /\ x.pic \in Int /\ x.lines \in Int /\ x.final \in Int
                           /\ x.kept \in BOOLEAN
  BY DEF DecBuffer
<1> QED BY <1>1, <1>2, <1>3

\* The numbers stay when the pictures do.
LEMMA NumberedRests ==
  ASSUME PicturesShared, PicturesNumbered, UNCHANGED <<input, lastKey>>,
         DOMAIN decBufs'.buf = DOMAIN decBufs.buf,
         \A b \in DOMAIN decBufs.buf : /\ decBufs'.buf[b].pic = decBufs.buf[b].pic
                                       /\ decBufs'.buf[b].kept = decBufs.buf[b].kept,
         \A t \in Arg : InPipe(t)' => InPipe(t) /\ SamePictures(t) /\ Num(t)' = Num(t),
         \A t \in Arg : \E u \in Arg : ctx'[t].ref = ctx[u].ref /\ ctx'[t].fdec = ctx[u].fdec
  PROVE  PicturesNumbered'
<1> DEFINE pic(b) == decBufs.buf[b].pic
           D == DOMAIN decBufs.buf
<1>1. \A b \in D : decBufs'.buf[b].pic = pic(b) OBVIOUS
<1>2. \A t \in Arg : InPipe(t)' =>
        /\ InPipe(t) /\ Num(t)' = Num(t) /\ ctx'[t].fdec = ctx[t].fdec
        /\ ctx'[t].ref = ctx[t].ref /\ ctx'[t].type = ctx[t].type
  BY DEF SamePictures
<1>3. \A t \in Arg : /\ ctx[t].fdec \in D
                     /\ \A i \in DOMAIN ctx[t].ref : ctx[t].ref[i] \in D
                     /\ \A b \in ToSet(ctx[t].ref) : b \in D
  BY PicturesAre
<1>4. \A b, c \in D : /\ pic(b) < input
                      /\ pic(b) = pic(c) /\ pic(b) >= 0 => b = c
  BY DEF PicturesNumbered
<1>5. \A t \in Arg : InPipe(t) =>
        /\ pic(ctx[t].fdec) = Num(t) /\ decBufs.buf[ctx[t].fdec].kept = (Keyint > 1)
        /\ \A i \in DOMAIN ctx[t].ref :
             pic(ctx[t].ref[i]) = Num(t) - Len(ctx[t].ref) + i - 1
  BY DEF PicturesNumbered
<1>6. \A t, u \in Arg :
       InPipe(t) /\ InPipe(u) /\ ctx[t].type = "IDR" /\ Num(t) < Num(u) =>
         \A b \in ToSet(ctx[u].ref) : pic(b) >= Num(t)
  BY DEF PicturesNumbered
<1>7. /\ input = 0 => \A t \in Arg : ctx[t].ref = <<>> /\ ~decBufs.buf[ctx[t].fdec].kept
      /\ lastKey \in Int /\ lastKey <= input + Keyint - 1 /\ (input = 0 => lastKey = 0)
  BY DEF PicturesNumbered
<1> HIDE DEF pic
<1>8. \A b, c \in DOMAIN decBufs'.buf :
        /\ decBufs'.buf[b].pic < input'
        /\ decBufs'.buf[b].pic = decBufs'.buf[c].pic /\ decBufs'.buf[b].pic >= 0 => b = c
  BY <1>1, <1>4
<1>9. \A t \in Arg : InPipe(t)' =>
        /\ decBufs'.buf[ctx'[t].fdec].pic = Num(t)'
        /\ decBufs'.buf[ctx'[t].fdec].kept = (Keyint > 1)
        /\ \A i \in DOMAIN ctx'[t].ref :
             decBufs'.buf[ctx'[t].ref[i]].pic = Num(t)' - Len(ctx'[t].ref) + i - 1
  <2> SUFFICES ASSUME NEW t \in Arg, InPipe(t)'
               PROVE  /\ decBufs'.buf[ctx'[t].fdec].pic = Num(t)'
                      /\ decBufs'.buf[ctx'[t].fdec].kept = (Keyint > 1)
                      /\ \A i \in DOMAIN ctx'[t].ref :
                           decBufs'.buf[ctx'[t].ref[i]].pic = Num(t)' - Len(ctx'[t].ref) + i - 1
    OBVIOUS
  <2>1. /\ decBufs'.buf[ctx'[t].fdec].pic = Num(t)'
        /\ decBufs'.buf[ctx'[t].fdec].kept = (Keyint > 1)
    BY <1>1, <1>2, <1>3, <1>5
  <2>2. \A i \in DOMAIN ctx[t].ref :
          decBufs'.buf[ctx[t].ref[i]].pic = Num(t) - Len(ctx[t].ref) + i - 1
    BY <1>1, <1>2, <1>3, <1>5
  <2> QED BY <1>2, <2>1, <2>2
<1>10. \A t, u \in Arg :
         InPipe(t)' /\ InPipe(u)' /\ ctx'[t].type = "IDR" /\ Num(t)' < Num(u)' =>
           \A b \in ToSet(ctx'[u].ref) : decBufs'.buf[b].pic >= Num(t)'
  BY <1>1, <1>2, <1>3, <1>6
<1>11. input' = 0 => \A t \in Arg : ctx'[t].ref = <<>> /\ ~decBufs'.buf[ctx'[t].fdec].kept
  BY <1>3, <1>7
<1> QED BY <1>7, <1>8, <1>9, <1>10, <1>11 DEF PicturesNumbered

\* Each context inside codes a picture of its own.
LEMMA NumsDiffer ==
  ASSUME IInv
  PROVE  /\ \A t \in Arg : InPipe(t) => Num(t) \in Nat /\ Num(t) \in (input - Depth) .. (input - 1)
         /\ \A t, u \in Arg : InPipe(t) /\ InPipe(u) /\ Num(t) = Num(u) => t = u
         /\ input \in Nat /\ Depth \in 0 .. Threads /\ Threads \in Nat
<1>1. \A t \in Arg : InPipe(t) => Num(t) \in (input - Depth) .. (input - 1)
  BY DEF IInv, PicturesInOrder
<1>2. \A t \in Arg : InPipe(t) => Num(t) \in Nat
  <2>1. \A t \in Arg : InPipe(t) => ctx[t].fenc \in DOMAIN encBufs.buf
    BY DEF IInv, SourcesHeld
  <2> QED BY <2>1, Counts DEF Num
<1>3. \A t, u \in Arg : InPipe(t) /\ InPipe(u) /\ Age(u) < Age(t) => Num(t) < Num(u)
  BY DEF IInv, PicturesInOrder
<1>4. phase \in Arg BY DEF IInv, TypeOK
<1>5. /\ \A t \in Arg : Age(t) \in 0 .. (Threads - 1)
      /\ \A t, u \in Arg : Age(t) = Age(u) => t = u
  BY <1>4, Ages
<1>6. input \in Nat /\ Depth \in 0 .. Threads /\ Threads \in Nat
  BY PipedFinite, Contexts DEF IInv, TypeOK
<1>7. ASSUME NEW t \in Arg, NEW u \in Arg, InPipe(t), InPipe(u), Num(t) = Num(u), t # u
      PROVE  FALSE
  <2>1. Age(t) # Age(u) /\ Age(t) \in Int /\ Age(u) \in Int BY <1>5, <1>6, <1>7
  <2>2. Age(t) < Age(u) \/ Age(u) < Age(t) BY <2>1
  <2>3. Num(u) < Num(t) \/ Num(t) < Num(u) BY <1>3, <1>7, <2>2
  <2> QED BY <1>2, <1>7, <2>3
<1> QED BY <1>1, <1>2, <1>6, <1>7

\* The context of the last picture put in.
LEMMA Youngest ==
  ASSUME IInv, SourcesCounted, input > 0, ~closing
  PROVE  phase \in Arg /\ InPipe(phase) /\ Num(phase) = input - 1 /\ Depth >= 1
<1>1. phase \in Arg BY DEF IInv, TypeOK
<1>2. InPipe(phase) BY DEF SourcesCounted
<1>3. /\ \A t \in Arg : InPipe(t) => Num(t) \in Nat /\ Num(t) \in (input - Depth) .. (input - 1)
      /\ input \in Nat /\ Depth \in 0 .. Threads /\ Threads \in Nat
  BY NumsDiffer
<1>4. Depth >= 1
  <2>1. Num(phase) \in (input - Depth) .. (input - 1) BY <1>1, <1>2, <1>3
  <2> QED BY <1>3, <2>1
<1>5. input - 1 \in (input - Depth) .. (input - 1) BY <1>3, <1>4
<1>6. PICK t \in Arg : InPipe(t) /\ Num(t) = input - 1
  BY <1>5 DEF IInv, PicturesInOrder
<1>7. t = phase
  <2> SUFFICES ASSUME t # phase PROVE FALSE OBVIOUS
  <2>1. /\ \A u \in Arg : Age(u) \in 0 .. (Threads - 1)
        /\ \A u, v \in Arg : Age(u) = Age(v) => u = v
    BY <1>1, Ages
  <2>2. Age(phase) = 0
    <3>1. phase \in 0 .. (Threads - 1) BY <1>1, Contexts
    <3> QED BY <1>3, <3>1 DEF Age
  <2>3. Age(phase) < Age(t)
    <3>1. Age(t) # Age(phase) /\ Age(t) \in 0 .. (Threads - 1) BY <1>1, <2>1
    <3> QED BY <1>3, <2>2, <3>1
  <2>4. Num(t) < Num(phase) BY <1>1, <1>2, <1>6, <2>3 DEF IInv, PicturesInOrder
  <2>5. Num(phase) \in Nat /\ Num(phase) \in (input - Depth) .. (input - 1) BY <1>1, <1>2, <1>3
  <2> QED BY <1>3, <1>6, <2>4, <2>5
<1> QED BY <1>1, <1>2, <1>4, <1>6, <1>7

\* The references of a new picture are those before it, if it has any.
LEMMA NewRefsNumbered ==
  ASSUME IInv, PicturesShared, SourcesCounted, PicturesNumbered, NEW cut, Encode(cut),
         NEW i \in DOMAIN ctx'[Oldest].ref
  PROVE  LET R == ctx'[Oldest].ref
             p == ctx[phase].ref
             j == i + (Len(p) + 1 - Len(R))
         IN /\ Kept /\ R = NewRef1 /\ input > 0 /\ R[i] \in DOMAIN decBufs.buf
            /\ decBufs.buf[R[i]].pic = input - Len(R) + i - 1
            /\ Len(R) <= Len(p) + 1 /\ Len(R) \in Nat /\ i \in 1 .. Len(R)
            /\ j <= Len(p) => j \in DOMAIN p /\ R[i] = p[j]
            /\ j > Len(p) => R[i] = ctx[phase].fdec
<1> DEFINE R == ctx'[Oldest].ref
           p == ctx[phase].ref
           L == Len(p)
           d == L + 1 - Len(R)
           j == i + d
<1>1. R = (IF NewType(cut) = "IDR" THEN <<>> ELSE NewRef1) BY EncodeBuffers
<1>2. R = NewRef1 /\ NewType(cut) # "IDR" BY <1>1
<1>3. input \in Nat /\ phase \in Arg /\ ~closing /\ NumRefs \in Nat /\ Keyint \in Nat \ {0}
  <2>1. ~closing BY EncodeMoves
  <2> QED BY <2>1, FramesAssumption DEF IInv, TypeOK
<1>4. /\ Len(R) \in 0 .. NumRefs /\ DOMAIN R = 1 .. Len(R)
      /\ Kept => /\ Len(R) = IF L + 1 <= NumRefs THEN L + 1 ELSE NumRefs
                 /\ \A k \in DOMAIN R : R[k] = Refs(phase)[k + d]
  BY <1>2, NewRefs
<1>5. ~Kept => R = p BY <1>2 DEF NewRef1
<1>6. input > 0
  <2> SUFFICES ASSUME input = 0 PROVE FALSE BY <1>3
  <2>1. p = <<>> /\ ~Kept BY <1>3 DEF PicturesNumbered, Kept
  <2>2. R = <<>> BY <1>5, <2>1
  <2> QED BY <2>2
<1>7. InPipe(phase) /\ Num(phase) = input - 1 BY <1>3, <1>6, Youngest
<1>8. Kept
  <2> SUFFICES ASSUME ~Kept PROVE FALSE OBVIOUS
  <2>1. Kept = (Keyint > 1) BY <1>3, <1>7 DEF PicturesNumbered, Kept
  <2>a. ~(Keyint > 1) BY <2>1, Zenon
  <2>2. Keyint = 1 BY <1>3, <2>a
  <2>3. lastKey \in Int /\ lastKey <= input + Keyint - 1 BY DEF PicturesNumbered
  <2>4. input + Keyint - lastKey >= Keyint BY <1>3, <2>2, <2>3
  <2>5. Decided(input, cut) = "IDR" BY <2>4 DEF Decided
  <2>6. NewType(cut) = "IDR" BY <2>5 DEF NewType
  <2> QED BY <1>2, <2>6
<1>9. L \in 0 .. NumRefs /\ DOMAIN p = 1 .. L /\ \A k \in DOMAIN p : p[k] \in DOMAIN decBufs.buf
  BY <1>3, PicturesAre
<1>10. /\ \A k \in 1 .. L : Refs(phase)[k] = p[k]
       /\ Refs(phase)[L + 1] = ctx[phase].fdec
  BY <1>3, RefsAppended
<1>11. R[i] = Refs(phase)[j] BY <1>4, <1>8
<1>12. /\ decBufs.buf[ctx[phase].fdec].pic = input - 1
       /\ \A k \in DOMAIN p : decBufs.buf[p[k]].pic = input - 1 - L + k - 1
  BY <1>3, <1>7 DEF PicturesNumbered
<1>13. i \in 1 .. Len(R) BY <1>4
<1>14. ctx[phase].fdec \in DOMAIN decBufs.buf BY <1>3, PicturesAre
<1> DEFINE n == Len(R)
<1>15. n \in 0 .. NumRefs /\ n <= L + 1 /\ i \in 1 .. n
  BY <1>3, <1>4, <1>8, <1>9, <1>13
<1>16. /\ j <= L => j \in 1 .. L
       /\ j > L => j = L + 1 /\ i = n
       /\ j = i + (L + 1 - n) /\ d = L + 1 - n
  <2> HIDE DEF L, n
  <2> USE <1>3, <1>9, <1>15
  <2>1. d = L + 1 - n BY DEF n
  <2>2. j = i + (L + 1 - n) BY <2>1
  <2> HIDE DEF j, d
  <2> QED BY <2>1, <2>2
<1> HIDE DEF j, d, n, R, p, L
<1>17. CASE j <= L
  <2>1. j \in DOMAIN p /\ R[i] = p[j] BY <1>9, <1>10, <1>11, <1>16, <1>17
  <2>2. decBufs.buf[R[i]].pic = input - 1 - L + j - 1 BY <1>12, <2>1
  <2>3. decBufs.buf[R[i]].pic = input - n + i - 1 BY <1>3, <1>9, <1>15, <1>16, <2>2
  <2>4. R[i] \in DOMAIN decBufs.buf BY <1>9, <2>1
  <2>5. ~(j > L) BY <1>9, <1>15, <1>16, <1>17
  <2> QED BY <1>2, <1>6, <1>8, <1>15, <2>1, <2>3, <2>4, <2>5 DEF j, d, n, R, p, L
<1>18. CASE j > L
  <2>1. R[i] = ctx[phase].fdec BY <1>10, <1>11, <1>16, <1>18
  <2>2. decBufs.buf[R[i]].pic = input - n + i - 1 BY <1>3, <1>12, <1>15, <1>16, <1>18, <2>1
  <2>3. ~(j <= L) BY <1>9, <1>15, <1>16, <1>18
  <2> QED BY <1>2, <1>6, <1>8, <1>14, <1>15, <1>18, <2>1, <2>2, <2>3 DEF j, d, n, R, p, L
<1>19. j <= L \/ j > L BY <1>9, <1>15, <1>16, <1>3
<1> QED BY <1>17, <1>18, <1>19

\* The buffers after a picture was put in, but for the new one as before.
LEMMA EncodeLeaves ==
  ASSUME IInv, PicturesShared, NEW cut, Encode(cut)
  PROVE  LET f == ctx'[Oldest].fdec
         IN /\ f \in DOMAIN decBufs'.buf
            /\ decBufs'.buf[f].pic = input /\ decBufs'.buf[f].kept = (Keyint > 1)
            /\ decBufs'.buf[f].lines = -1 /\ decBufs'.buf[f].final = 0
            /\ \A b \in DOMAIN decBufs.buf : b # f =>
                 /\ b \in DOMAIN decBufs'.buf
                 /\ decBufs'.buf[b].pic = decBufs.buf[b].pic
                 /\ decBufs'.buf[b].kept = decBufs.buf[b].kept
                 /\ decBufs'.buf[b].lines = decBufs.buf[b].lines
                 /\ decBufs'.buf[b].final = decBufs.buf[b].final
            /\ \A b \in DOMAIN decBufs'.buf : b # f => b \in DOMAIN decBufs.buf
            /\ \A t \in Arg : t # Oldest =>
                 /\ ctx'[t].fdec = ctx[t].fdec /\ ctx'[t].ref = ctx[t].ref
                 /\ ctx'[t].type = ctx[t].type
                 /\ f \notin Used(t)
<1> DEFINE f == ctx'[Oldest].fdec
<1>1. /\ f \in DOMAIN decBufs'.buf
      /\ \A t \in Arg : t # Oldest => f \notin Used(t)
      /\ DOMAIN decBufs.buf \subseteq DOMAIN decBufs'.buf
      /\ DOMAIN decBufs'.buf \subseteq DOMAIN decBufs.buf \cup {f}
      /\ \A b \in DOMAIN decBufs.buf :
           b # f => Alike(decBufs'.buf[b], decBufs.buf[b])
      /\ Alike(decBufs'.buf[f], NewDec(input, Keyint > 1))
  BY EncodeBuffers
<1>2. \A u \in Arg : u # Oldest => SamePictures(u) BY EncodeMoves
<1>3. /\ NewDec(input, Keyint > 1).pic = input /\ NewDec(input, Keyint > 1).kept = (Keyint > 1)
      /\ NewDec(input, Keyint > 1).lines = -1 /\ NewDec(input, Keyint > 1).final = 0
  BY DEF NewDec
<1> HIDE DEF f
<1>4. /\ decBufs'.buf[f].pic = input /\ decBufs'.buf[f].kept = (Keyint > 1)
      /\ decBufs'.buf[f].lines = -1 /\ decBufs'.buf[f].final = 0
  BY <1>1, <1>3, Zenon DEF Alike
<1>5. \A b \in DOMAIN decBufs.buf : b # f =>
        /\ b \in DOMAIN decBufs'.buf
        /\ decBufs'.buf[b].pic = decBufs.buf[b].pic
        /\ decBufs'.buf[b].kept = decBufs.buf[b].kept
        /\ decBufs'.buf[b].lines = decBufs.buf[b].lines
        /\ decBufs'.buf[b].final = decBufs.buf[b].final
  BY <1>1 DEF Alike
<1>6. \A b \in DOMAIN decBufs'.buf : b # f => b \in DOMAIN decBufs.buf BY <1>1
<1>7. \A t \in Arg : t # Oldest =>
        /\ ctx'[t].fdec = ctx[t].fdec /\ ctx'[t].ref = ctx[t].ref
        /\ ctx'[t].type = ctx[t].type
        /\ f \notin Used(t)
  BY <1>1, <1>2 DEF SamePictures
<1> QED BY <1>1, <1>4, <1>5, <1>6, <1>7 DEF f

\* The new picture has the next number, and its references those before it.
LEMMA NumberedAnew ==
  ASSUME IInv, PicturesShared, SourcesCounted, PicturesNumbered, LinesFinal,
         NEW cut, Encode(cut)
  PROVE  PicturesNumbered'
<1> DEFINE f == ctx'[Oldest].fdec
           R == ctx'[Oldest].ref
           D == DOMAIN decBufs.buf
           pic(b) == decBufs.buf[b].pic
           new(b) == decBufs'.buf[b].pic
<1>0. phase \in Arg /\ Oldest \in Arg /\ input \in Nat /\ input' = input + 1 /\ ~closing
      /\ Keyint \in Nat \ {0} /\ Oldest # phase
  <2>1. input' = input + 1 /\ ~closing BY EncodeMoves
  <2> QED BY <2>1, Ages, FramesAssumption DEF IInv, TypeOK
<1>1. /\ f \in DOMAIN decBufs'.buf /\ new(f) = input /\ decBufs'.buf[f].kept = (Keyint > 1)
      /\ \A b \in D : b # f => /\ b \in DOMAIN decBufs'.buf /\ new(b) = pic(b)
                               /\ decBufs'.buf[b].kept = decBufs.buf[b].kept
      /\ \A b \in DOMAIN decBufs'.buf : b # f => b \in D
      /\ \A t \in Arg : t # Oldest =>
           /\ ctx'[t].fdec = ctx[t].fdec /\ ctx'[t].ref = ctx[t].ref
           /\ ctx'[t].type = ctx[t].type
           /\ f \notin Used(t)
  BY EncodeLeaves
<1>2. /\ \A t \in Arg : InPipe(t)' <=> InPipe(t) \/ t = Oldest
      /\ ~InPipe(Oldest)
      /\ \A t \in Arg : InPipe(t) => t # Oldest /\ Num(t)' = Num(t)
      /\ \A t \in Arg : t = Oldest => Num(t)' = input
  BY EncodePipe
<1>3. \A t \in Arg : /\ ctx[t].fdec \in D /\ ctx[t].fdec \in Used(t)
                     /\ \A i \in DOMAIN ctx[t].ref : ctx[t].ref[i] \in D /\ ctx[t].ref[i] \in Used(t)
                     /\ \A b \in ToSet(ctx[t].ref) : b \in D /\ b \in Used(t)
  BY PicturesAre DEF Used
<1>4. \A b \in D : pic(b) \in Int BY PicturesAre
<1>5. \A b, c \in D : /\ pic(b) < input
                      /\ pic(b) = pic(c) /\ pic(b) >= 0 => b = c
  BY DEF PicturesNumbered
<1>6. \A t \in Arg : InPipe(t) =>
        /\ pic(ctx[t].fdec) = Num(t) /\ decBufs.buf[ctx[t].fdec].kept = (Keyint > 1)
        /\ \A i \in DOMAIN ctx[t].ref :
             pic(ctx[t].ref[i]) = Num(t) - Len(ctx[t].ref) + i - 1
  BY DEF PicturesNumbered
<1>7. \A t, u \in Arg :
       InPipe(t) /\ InPipe(u) /\ ctx[t].type = "IDR" /\ Num(t) < Num(u) =>
         \A b \in ToSet(ctx[u].ref) : pic(b) >= Num(t)
  BY DEF PicturesNumbered
<1>8. /\ \A t \in Arg : InPipe(t) => Num(t) \in Nat /\ Num(t) <= input - 1
      /\ \A t, u \in Arg : InPipe(t) /\ InPipe(u) /\ Num(t) = Num(u) => t = u
  <2>1. /\ \A t \in Arg : InPipe(t) => Num(t) \in Nat /\ Num(t) \in (input - Depth) .. (input - 1)
        /\ Depth \in 0 .. Threads /\ Threads \in Nat
        /\ \A t, u \in Arg : InPipe(t) /\ InPipe(u) /\ Num(t) = Num(u) => t = u
    BY NumsDiffer
  <2> QED BY <1>0, <2>1
<1>a. \A i \in DOMAIN R : /\ R[i] \in D /\ pic(R[i]) = input - Len(R) + i - 1
  BY NewRefsNumbered
<1>b. f \notin ToSet(R) /\ ToSet(R) \subseteq Used(phase) BY EncodeBuffers
<1>c. \A i \in DOMAIN R : R[i] # f BY <1>b DEF ToSet
<1> HIDE DEF pic, new, f, R
<1>9. \A b, c \in DOMAIN decBufs'.buf :
        /\ new(b) < input'
        /\ new(b) = new(c) /\ new(b) >= 0 => b = c
  <2> SUFFICES ASSUME NEW b \in DOMAIN decBufs'.buf, NEW c \in DOMAIN decBufs'.buf
               PROVE  /\ new(b) < input'
                      /\ new(b) = new(c) /\ new(b) >= 0 => b = c
    OBVIOUS
  <2>1. new(b) < input' BY <1>0, <1>1, <1>4, <1>5
  <2>2. b # f /\ c # f => b \in D /\ c \in D /\ new(b) = pic(b) /\ new(c) = pic(c) BY <1>1
  <2>3. b # f => new(b) # new(f)
    <3> SUFFICES ASSUME b # f PROVE new(b) # new(f) OBVIOUS
    <3>1. new(b) = pic(b) /\ pic(b) < input /\ pic(b) \in Int BY <1>1, <1>4, <1>5
    <3> QED BY <1>0, <1>1, <3>1
  <2>4. c # f => new(c) # new(f)
    <3> SUFFICES ASSUME c # f PROVE new(c) # new(f) OBVIOUS
    <3>1. new(c) = pic(c) /\ pic(c) < input /\ pic(c) \in Int BY <1>1, <1>4, <1>5
    <3> QED BY <1>0, <1>1, <3>1
  <2> QED BY <1>5, <2>1, <2>2, <2>3, <2>4
<1>10. ASSUME NEW t \in Arg, InPipe(t)'
       PROVE  /\ new(ctx'[t].fdec) = Num(t)'
              /\ decBufs'.buf[ctx'[t].fdec].kept = (Keyint > 1)
              /\ \A i \in DOMAIN ctx'[t].ref :
                   new(ctx'[t].ref[i]) = Num(t)' - Len(ctx'[t].ref) + i - 1
  <2>1. CASE t # Oldest
    <3>1. InPipe(t) /\ Num(t)' = Num(t) BY <1>2, <1>10, <2>1
    <3>2. ctx'[t].fdec = ctx[t].fdec /\ ctx'[t].ref = ctx[t].ref BY <1>1, <2>1
    <3>3. /\ new(ctx[t].fdec) = Num(t)
          /\ decBufs'.buf[ctx[t].fdec].kept = (Keyint > 1)
      BY <1>1, <1>3, <1>6, <2>1, <3>1
    <3>4. \A i \in DOMAIN ctx[t].ref :
            new(ctx[t].ref[i]) = Num(t) - Len(ctx[t].ref) + i - 1
      BY <1>1, <1>3, <1>6, <2>1, <3>1
    <3> QED BY <3>1, <3>2, <3>3, <3>4
  <2>2. CASE t = Oldest
    <3>1. Num(t)' = input /\ ctx'[t].fdec = f /\ ctx'[t].ref = R BY <1>2, <2>2 DEF f, R
    <3>2. \A i \in DOMAIN R : new(R[i]) = input - Len(R) + i - 1 BY <1>1, <1>a, <1>c
    <3> QED BY <1>1, <3>1, <3>2
  <2> QED BY <2>1, <2>2
<1>11. ASSUME NEW t \in Arg, NEW u \in Arg, InPipe(t)', InPipe(u)', ctx'[t].type = "IDR",
              Num(t)' < Num(u)', NEW b \in ToSet(ctx'[u].ref)
       PROVE  new(b) >= Num(t)'
  <2>1. t # Oldest
    <3> SUFFICES ASSUME t = Oldest PROVE FALSE OBVIOUS
    <3>1. Num(t)' = input BY <1>2
    <3>2. Num(u)' \in Nat /\ Num(u)' <= input BY <1>0, <1>2, <1>8, <1>11
    <3> QED BY <1>0, <1>11, <3>1, <3>2
  <2>2. InPipe(t) /\ Num(t)' = Num(t) /\ ctx[t].type = "IDR" BY <1>1, <1>2, <1>11, <2>1
  <2>3. CASE u # Oldest
    <3>1. InPipe(u) /\ Num(u)' = Num(u) /\ ctx'[u].ref = ctx[u].ref
      BY <1>1, <1>2, <1>11, <2>3
    <3>2. b \in D /\ new(b) = pic(b) BY <1>1, <1>3, <1>11, <2>3, <3>1
    <3> QED BY <1>7, <1>11, <2>2, <3>1, <3>2
  <2>4. CASE u = Oldest
    <3>1. b \in ToSet(R) BY <1>11, <2>4 DEF R
    <3>2. b # f /\ b \in Used(phase) BY <1>b, <3>1
    <3>3. input > 0 BY <1>0, <1>8, <2>2
    <3>4. InPipe(phase) /\ Num(phase) = input - 1 BY <1>0, <3>3, Youngest
    <3>5. b \in D BY <1>0, <1>3, <3>2 DEF Used
    <3>6. pic(b) >= Num(t)
      <4>1. CASE b = ctx[phase].fdec
        <5>1. pic(b) = input - 1 BY <1>0, <1>6, <3>4, <4>1
        <5> QED BY <1>0, <1>8, <2>2, <5>1
      <4>2. CASE b \in ToSet(ctx[phase].ref)
        <5>1. CASE t = phase
          <6>1. ctx[phase].ref = <<>> BY <1>0, <2>2, <5>1 DEF LinesFinal
          <6> QED BY <4>2, <6>1 DEF ToSet
        <5>2. CASE t # phase
          <6>1. Num(t) # Num(phase) BY <1>0, <1>8, <2>2, <3>4, <5>2
          <6>2. Num(t) < Num(phase) BY <1>0, <1>8, <2>2, <3>4, <6>1
          <6> QED BY <1>0, <1>7, <2>2, <3>4, <4>2, <6>2
        <5> QED BY <5>1, <5>2
      <4> QED BY <3>2, <4>1, <4>2 DEF Used
    <3>7. new(b) = pic(b) BY <1>1, <3>2, <3>5
    <3> QED BY <2>2, <3>6, <3>7
  <2> QED BY <2>3, <2>4
<1>12. lastKey' \in Int /\ lastKey' <= input' + Keyint - 1
  <2>1. lastKey' = IF Decided(input, cut) = "IDR" THEN input + Keyint ELSE lastKey
    BY EncodeMoves
  <2>2. lastKey \in Int /\ lastKey <= input + Keyint - 1 BY DEF PicturesNumbered
  <2>3. lastKey' = input + Keyint \/ lastKey' = lastKey BY <2>1
  <2> QED BY <1>0, <2>2, <2>3
<1>13. input' # 0 BY <1>0
<1> QED BY <1>9, <1>10, <1>11, <1>12, <1>13 DEF PicturesNumbered, new

\* What PicturesNumbered says of an encoder that has just been opened.
OpenedNumbers == input = 0 /\ lastKey = 0 /\ call = "none" /\ OpenedPictures

\* The buffers of a new encoder hold no picture.
LEMMA OpenedIsNumbered == OpenedNumbers => PicturesNumbered
<1> SUFFICES ASSUME OpenedNumbers PROVE PicturesNumbered OBVIOUS
<1>1. Threads \in Nat /\ Arg = 0 .. (Threads - 1) /\ Keyint \in Nat \ {0}
  BY Contexts, FramesAssumption
<1>2. \A t \in Arg : ~InPipe(t)
  BY DEF InPipe, OpenedNumbers, OpenedPictures, NewCtx, Context
<1>3. DOMAIN decBufs.buf = 1 .. Threads
      /\ \A b \in 1 .. Threads : decBufs.buf[b].pic = -1 /\ decBufs.buf[b].kept = FALSE
  BY DEF OpenedNumbers, OpenedPictures, NewDecBufs, NewDec
<1>4. \A t \in Arg : ctx[t].ref = <<>> /\ ctx[t].fdec = t + 1
  BY DEF OpenedNumbers, OpenedPictures, NewCtx, Context
<1>5. \A t \in Arg : t + 1 \in 1 .. Threads BY <1>1
<1>6. \A t \in Arg : ctx[t].ref = <<>> /\ ~decBufs.buf[ctx[t].fdec].kept BY <1>3, <1>4, <1>5
<1>7. \A b, c \in DOMAIN decBufs.buf :
        /\ decBufs.buf[b].pic < input
        /\ decBufs.buf[b].pic = decBufs.buf[c].pic /\ decBufs.buf[b].pic >= 0 => b = c
  BY <1>3 DEF OpenedNumbers
<1>8. lastKey \in Int /\ lastKey <= input + Keyint - 1 /\ (input = 0 => lastKey = 0)
  BY <1>1 DEF OpenedNumbers
<1> QED BY <1>2, <1>6, <1>7, <1>8 DEF PicturesNumbered

\* The same after x264_encoder_open.
LEMMA OpenedIsNumberedAgain == OpenedNumbers' => PicturesNumbered'
BY OpenedIsNumbered, PTL

\* Opening again makes a new encoder.
LEMMA OpenedAtLast ==
  ASSUME IInv, Reopen
  PROVE  OpenedNumbers' /\ dpb' = <<>>
<1>1. caller = "freed" BY DEF Reopen, Create
<1>2. call = "none" BY <1>1 DEF IInv, InStep, TypeOK
<1> QED BY <1>2 DEF Reopen, OpenedNumbers, OpenedPictures, NewCtx, NewDecBufs

\* Every step keeps the order of the pictures.
LEMMA PicturesNumberedKept ==
  ASSUME IInv, IInv', JobsRun, PicturesShared, SourcesCounted, PicturesNumbered, LinesFinal,
         [Next]_vars
  PROVE  PicturesNumbered'
<1>1. ASSUME NEW cut, Encode(cut) PROVE PicturesNumbered' BY <1>1, NumberedAnew
<1>2. CASE Reopen BY <1>2, OpenedAtLast, OpenedIsNumberedAgain
<1>3. ASSUME NEW w \in Worker, NEW t \in Arg, JobStep(w, t) PROVE PicturesNumbered'
  <2>0. Await(w, t) \/ CodeRow(w, t) \/ Publish(w, t) \/ Fail(w, t) BY <1>3 DEF JobStep
  <2>1. /\ \A u \in Arg : SamePictures(u)
        /\ \A u \in Arg : InPipe(u)' <=> InPipe(u)
        /\ UNCHANGED <<encBufs, input, lastKey>>
    BY <2>0, JobMoves
  <2>2. /\ DOMAIN decBufs'.buf = DOMAIN decBufs.buf
        /\ \A b \in DOMAIN decBufs.buf : SameButLines(decBufs'.buf[b], decBufs.buf[b])
    BY <2>0, JobBuffers
  <2>3. \A u \in Arg : InPipe(u)' => InPipe(u) /\ SamePictures(u) /\ Num(u)' = Num(u)
    BY <2>1 DEF Num, SamePictures
  <2>4. \A u \in Arg : \E v \in Arg : ctx'[u].ref = ctx[v].ref /\ ctx'[u].fdec = ctx[v].fdec
    BY <2>1 DEF SamePictures
  <2>5. \A b \in DOMAIN decBufs.buf : /\ decBufs'.buf[b].pic = decBufs.buf[b].pic
                                      /\ decBufs'.buf[b].kept = decBufs.buf[b].kept
    BY <2>2 DEF SameButLines
  <2> QED BY <2>1, <2>2, <2>3, <2>4, <2>5, NumberedRests
<1>4. CASE Calm
  <2>1. \A b \in DOMAIN decBufs.buf : /\ decBufs'.buf[b].pic = decBufs.buf[b].pic
                                      /\ decBufs'.buf[b].kept = decBufs.buf[b].kept
    BY <1>4 DEF Calm, Alike
  <2>2. \A u \in Arg : InPipe(u)' => InPipe(u) /\ SamePictures(u) /\ Num(u)' = Num(u)
    BY <1>4 DEF Calm
  <2>3. \A u \in Arg : \E v \in Arg : ctx'[u].ref = ctx[v].ref /\ ctx'[u].fdec = ctx[v].fdec
    BY <1>4 DEF Calm
  <2>4. UNCHANGED <<input, lastKey>> /\ DOMAIN decBufs'.buf = DOMAIN decBufs.buf
    BY <1>4 DEF Calm
  <2> QED BY <2>1, <2>2, <2>3, <2>4, NumberedRests
<1>5. \/ \E cut \in BOOLEAN : Encode(cut)
      \/ Reopen
      \/ \E w \in Worker, t \in Arg : JobStep(w, t)
      \/ CalmInside
      \/ Calm /\ FrameEnd /\ call = "wait"
  BY CalmSteps
<1> QED BY <1>1, <1>2, <1>3, <1>4, <1>5 DEF CalmInside

-----------------------------------------------------------------------------
(* Lines are published after they are final.                               *)

\* The list of references is the references, the latest first.
LEMMA RefListIs ==
  ASSUME NEW s \in Seq(Nat), IsInjective(s), NEW l, NEW type
  PROVE  LET r == RefList(type, s, l)
         IN /\ type # "P" => r = <<>>
            /\ type = "P" => /\ DOMAIN r = 1 .. Len(s)
                             /\ \A i \in 1 .. Len(s) :
                                  /\ Len(s) + 1 - i \in 1 .. Len(s)
                                  /\ r[i].buf = s[Len(s) + 1 - i]
                                  /\ r[i].pic = l.buf[s[Len(s) + 1 - i]].pic
<1> DEFINE n == Len(s)
           v == Reverse(s)
           r == RefList(type, s, l)
<1>1. n \in Nat /\ DOMAIN s = 1 .. n OBVIOUS
<1>2. \A i \in DOMAIN s : v[i] = s[n + 1 - i] BY Reversed
<1>3. \A i \in 1 .. n : n + 1 - i \in 1 .. n BY <1>1
<1> HIDE DEF v, n
<1>4. type # "P" => r = <<>> BY DEF RefList
<1>5. type = "P" => r = [i \in DOMAIN s |-> [buf |-> v[i], pic |-> l.buf[v[i]].pic]]
  BY DEF RefList, v
<1> HIDE DEF r
<1>6. type = "P" => DOMAIN r = 1 .. n BY <1>1, <1>5
<1>7. ASSUME type = "P", NEW i \in 1 .. n
      PROVE  r[i].buf = s[n + 1 - i] /\ r[i].pic = l.buf[s[n + 1 - i]].pic
  <2>1. r[i] = [buf |-> v[i], pic |-> l.buf[v[i]].pic] BY <1>1, <1>5, <1>7
  <2>2. v[i] = s[n + 1 - i] BY <1>1, <1>2
  <2> QED BY <2>1, <2>2
<1> QED BY <1>3, <1>4, <1>6, <1>7 DEF n, r

\* The list depends on the pictures in the references only.
LEMMA RefListSame ==
  ASSUME NEW s \in Seq(Nat), IsInjective(s), NEW l, NEW m, NEW type,
         \A b \in ToSet(s) : m.buf[b].pic = l.buf[b].pic
  PROVE  RefList(type, s, m) = RefList(type, s, l)
<1> DEFINE v == Reverse(s)
<1>1. DOMAIN v = DOMAIN s /\ ToSet(v) = ToSet(s) BY Reversed
<1>2. \A i \in DOMAIN s : v[i] \in ToSet(v) BY <1>1 DEF ToSet
<1>3. \A i \in DOMAIN s : m.buf[v[i]].pic = l.buf[v[i]].pic BY <1>1, <1>2
<1> HIDE DEF v
<1>4. [i \in DOMAIN s |-> [buf |-> v[i], pic |-> l.buf[v[i]].pic]]
        = [i \in DOMAIN s |-> [buf |-> v[i], pic |-> m.buf[v[i]].pic]]
  BY <1>3
<1> QED BY <1>4 DEF RefList, v

\* A job looks at least 8 lines below its row.
LEMMA RangeIsNumber == MvRangeThread \in Nat
<1>1. Threads \in Nat \ {0} /\ Rows \in Nat \ {0} /\ MeRange \in Nat /\ MvRange \in Nat
  BY Contexts, FramesAssumption
<1> DEFINE space == ((16 * Rows + THREAD_HEIGHT) \div Threads) - THREAD_HEIGHT
           half  == IF space > 0 THEN space \div 2 ELSE 0
           most  == IF half > MeRange THEN half ELSE MeRange
           r     == IF most < MvRange THEN most ELSE MvRange
           r2    == 16 * (r \div 16) + 8
<1>2. space \in Int BY <1>1 DEF THREAD_HEIGHT
<1> HIDE DEF space
<1>3. half \in Nat BY <1>2
<1> HIDE DEF half
<1>4. most \in Nat BY <1>1, <1>3
<1> HIDE DEF most
<1>5. r \in Nat BY <1>1, <1>4
<1> HIDE DEF r
<1>6. r2 \in Nat BY <1>5
<1> HIDE DEF r2
<1>7. MvRangeThread = IF r2 < r THEN r2 + 16 ELSE r2
  BY DEF MvRangeThread, space, half, most, r, r2
<1> QED BY <1>5, <1>6, <1>7

\* Lines are published after they are final.
BufferFine(l) ==
  /\ l.lines >= 0 => l.final >= l.lines + 16
  /\ l.final = AllLines \/ l.final <= 16 * (Rows - 1)

\* A step after which no picture has fewer final lines than before.
LEMMA LinesRest ==
  ASSUME PicturesShared, LinesFinal, DOMAIN decBufs'.buf = DOMAIN decBufs.buf,
         \A b \in DOMAIN decBufs.buf : BufferFine(decBufs'.buf[b]),
         \A b \in DOMAIN decBufs.buf :
           /\ decBufs'.buf[b].pic = decBufs.buf[b].pic
           /\ decBufs'.buf[b].final \in Int
           /\ decBufs'.buf[b].final >= decBufs.buf[b].final
           /\ decBufs.buf[b].final = AllLines => decBufs'.buf[b].final = AllLines,
         \A t \in Arg : InPipe(t)' =>
           /\ InPipe(t) /\ SamePictures(t) /\ ctx'[t].row \in Nat
           /\ decBufs'.buf[ctx[t].fdec].final = FinalLines(ctx'[t].row),
         \A t \in Arg : InPipe(t)' /\ ctx[t].type = "P" /\ ctx'[t].at = "code" =>
           \/ ctx[t].at = "code" /\ ctx'[t].row = ctx[t].row
           \/ \A i \in DOMAIN ctx[t].ref :
                decBufs.buf[ctx[t].ref[i]].final > 16 * ctx'[t].row + 15 + MvRangeThread,
         \A t \in Arg : InPipe(t)' /\ ctx[t].type = "P" /\ ctx'[t].nal =>
           \/ ctx[t].nal
           \/ \A i \in DOMAIN ctx[t].ref : decBufs.buf[ctx[t].ref[i]].final = AllLines
  PROVE  LinesFinal'
<1>1. \A b \in DOMAIN decBufs'.buf :
        LET l == decBufs'.buf[b]
        IN /\ l.lines >= 0 => l.final >= l.lines + 16
           /\ l.final = AllLines \/ l.final <= 16 * (Rows - 1)
  BY DEF BufferFine
<1>2. ASSUME NEW t \in Arg, InPipe(t)'
      PROVE  LET final(i) == decBufs'.buf[ctx'[t].ref[i]].final
             IN /\ decBufs'.buf[ctx'[t].fdec].final = FinalLines(ctx'[t].row)
                /\ ctx'[t].type \in {"P", "I", "IDR"}
                /\ ctx'[t].type = "P" => ctx'[t].ref # <<>>
                /\ ctx'[t].type = "IDR" => ctx'[t].ref = <<>>
                /\ ctx'[t].fref = RefList(ctx'[t].type, ctx'[t].ref, decBufs')
                /\ ctx'[t].type = "P" => \A i \in DOMAIN ctx'[t].ref :
                     /\ ctx'[t].at = "code" => final(i) > 16 * ctx'[t].row + 15 + MvRangeThread
                     /\ ctx'[t].nal => final(i) = AllLines
  <2>1. /\ InPipe(t) /\ ctx'[t].row \in Nat
        /\ ctx'[t].fdec = ctx[t].fdec /\ ctx'[t].ref = ctx[t].ref
        /\ ctx'[t].type = ctx[t].type /\ ctx'[t].fref = ctx[t].fref
    BY <1>2 DEF SamePictures
  <2> DEFINE s == ctx[t].ref
             old(i) == decBufs.buf[s[i]].final
  <2>2. /\ ctx[t].type \in {"P", "I", "IDR"}
        /\ ctx[t].type = "P" => s # <<>>
        /\ ctx[t].type = "IDR" => s = <<>>
        /\ ctx[t].fref = RefList(ctx[t].type, s, decBufs)
    BY <2>1 DEF LinesFinal
  <2>3. ctx[t].type = "P" => \A i \in DOMAIN s :
          /\ ctx[t].at = "code" => old(i) > 16 * ctx[t].row + 15 + MvRangeThread
          /\ ctx[t].nal => old(i) = AllLines
    BY <2>1 DEF LinesFinal
  <2>4. /\ s \in Seq(Nat) /\ IsInjective(s)
        /\ \A i \in DOMAIN s : s[i] \in DOMAIN decBufs.buf
        /\ \A b \in ToSet(s) : b \in DOMAIN decBufs.buf
    BY PicturesAre DEF PicturesShared
  <2>5. \A i \in DOMAIN s : old(i) \in Int BY <2>4, PicturesAre
  <2>6. RefList(ctx[t].type, s, decBufs') = RefList(ctx[t].type, s, decBufs)
    <3> DEFINE m == decBufs'
               ty == ctx[t].type
    <3>1. \A b \in ToSet(s) : m.buf[b].pic = decBufs.buf[b].pic BY <2>4
    <3> HIDE DEF m, s, ty
    <3>2. RefList(ty, s, m) = RefList(ty, s, decBufs) BY <2>4, <3>1, RefListSame
    <3> QED BY <3>2 DEF m, s, ty
  <2> HIDE DEF s
  <2>7. MvRangeThread \in Nat BY RangeIsNumber
  <2>8. ASSUME ctx[t].type = "P", NEW i \in DOMAIN s
        PROVE  /\ ctx'[t].at = "code" =>
                    decBufs'.buf[s[i]].final > 16 * ctx'[t].row + 15 + MvRangeThread
               /\ ctx'[t].nal => decBufs'.buf[s[i]].final = AllLines
    <3>1. /\ decBufs'.buf[s[i]].final \in Int /\ decBufs'.buf[s[i]].final >= old(i)
          /\ old(i) = AllLines => decBufs'.buf[s[i]].final = AllLines
          /\ old(i) \in Int
      BY <2>4, <2>5
    <3>2. ctx'[t].at = "code" => old(i) > 16 * ctx'[t].row + 15 + MvRangeThread
      BY <1>2, <2>3, <2>8 DEF s
    <3>3. ctx'[t].nal => old(i) = AllLines BY <1>2, <2>3, <2>8 DEF s
    <3> HIDE DEF old
    <3>4. ASSUME ctx'[t].at = "code"
          PROVE  decBufs'.buf[s[i]].final > 16 * ctx'[t].row + 15 + MvRangeThread
      <4> DEFINE x == 16 * ctx'[t].row + 15 + MvRangeThread
                 y == decBufs'.buf[s[i]].final
      <4>1. x \in Int /\ old(i) > x BY <2>1, <2>7, <3>2, <3>4
      <4> HIDE DEF x
      <4>2. y \in Int /\ y >= old(i) BY <3>1
      <4> HIDE DEF y
      <4>3. y > x BY <3>1, <4>1, <4>2
      <4> QED BY <4>3 DEF x, y
    <3> QED BY <3>1, <3>3, <3>4
  <2>9. decBufs'.buf[ctx'[t].fdec].final = FinalLines(ctx'[t].row) BY <1>2, <2>1
  <2> QED BY <2>1, <2>2, <2>6, <2>8, <2>9 DEF s
<1> QED BY <1>1, <1>2 DEF LinesFinal

\* How many lines are final when a number of rows has been coded.
LEMMA LinesAreFinal ==
  /\ Rows \in Nat \ {0} /\ AllLines \in Nat /\ AllLines = 16 * Rows + 20000
  /\ FinalLines(Rows) = AllLines /\ FinalLines(0) = 0
  /\ \A k \in 1 .. (Rows - 1) : FinalLines(k) = 16 * k - 8
<1>1. Rows \in Nat \ {0} BY FramesAssumption
<1>2. AllLines = 16 * Rows + 20000 BY DEF AllLines
<1>3. FinalLines(Rows) = AllLines BY <1>1 DEF FinalLines
<1>4. FinalLines(0) = 0 BY <1>1 DEF FinalLines
<1>5. ASSUME NEW k \in 1 .. (Rows - 1) PROVE FinalLines(k) = 16 * k - 8
  <2>1. k # Rows /\ k # 0 BY <1>1
  <2> QED BY <2>1 DEF FinalLines
<1> QED BY <1>1, <1>2, <1>3, <1>4, <1>5

\* A row more is final.
LEMMA OneRowMore ==
  ASSUME NEW k \in 0 .. (Rows - 1)
  PROVE  /\ FinalLines(k + 1) \in Int /\ FinalLines(k) \in Int
         /\ FinalLines(k + 1) >= FinalLines(k) /\ FinalLines(k) # AllLines
         /\ FinalLines(k + 1) = AllLines \/ FinalLines(k + 1) <= 16 * (Rows - 1)
<1>1. /\ Rows \in Nat \ {0} /\ AllLines \in Nat /\ AllLines = 16 * Rows + 20000
      /\ FinalLines(Rows) = AllLines /\ FinalLines(0) = 0
      /\ \A m \in 1 .. (Rows - 1) : FinalLines(m) = 16 * m - 8
  BY LinesAreFinal
<1>2. k \in Nat /\ k <= Rows - 1 BY <1>1
<1>3. FinalLines(k) = IF k = 0 THEN 0 ELSE 16 * k - 8
  <2>1. k # 0 => k \in 1 .. (Rows - 1) BY <1>1, <1>2
  <2> QED BY <1>1, <2>1
<1>4. FinalLines(k + 1) = IF k + 1 = Rows THEN AllLines ELSE 16 * k + 8
  <2>1. CASE k + 1 = Rows BY <1>1, <2>1
  <2>2. CASE k + 1 # Rows
    <3>1. k + 1 \in 1 .. (Rows - 1) BY <1>1, <1>2, <2>2
    <3>2. FinalLines(k + 1) = 16 * (k + 1) - 8 BY <1>1, <3>1
    <3> QED BY <1>2, <2>2, <3>2
  <2> QED BY <2>1, <2>2
<1> QED BY <1>1, <1>2, <1>3, <1>4

\* The buffers the contexts inside fill are different.
LEMMA FilledApart ==
  ASSUME IInv, PicturesNumbered
  PROVE  \A t, u \in Arg : InPipe(t) /\ InPipe(u) /\ t # u => ctx[t].fdec # ctx[u].fdec
<1>1. \A t \in Arg : InPipe(t) => decBufs.buf[ctx[t].fdec].pic = Num(t)
  BY DEF PicturesNumbered
<1>2. \A t, u \in Arg : InPipe(t) /\ InPipe(u) /\ Num(t) = Num(u) => t = u
  BY NumsDiffer
<1> QED BY <1>1, <1>2

\* A job publishes lines that are final, and codes what it has waited for.
LEMMA JobLines ==
  ASSUME IInv, IInv', JobsRun, JobsRun', PicturesShared, PicturesNumbered, LinesFinal,
         NEW w \in Worker, NEW t \in Arg, JobStep(w, t)
  PROVE  LinesFinal'
<1> DEFINE D == DOMAIN decBufs.buf
           e == ctx[t].fdec
           row == ctx[t].row
           old(b) == decBufs.buf[b]
           new(b) == decBufs'.buf[b]
<1>0. Await(w, t) \/ CodeRow(w, t) \/ Publish(w, t) \/ Fail(w, t) BY DEF JobStep
<1>1. /\ \A u \in Arg : SamePictures(u)
      /\ \A u \in Arg : u # t => SameProgress(u)
      /\ wk[w] = "work" /\ cur[w] = t /\ InPipe(t)
      /\ \A u \in Arg : InPipe(u)' <=> InPipe(u)
  BY <1>0, JobMoves
<1>2. /\ AwaitedRows(t) \/ CodedRow(t) \/ PublishedRow(w, t) \/ FailedRow(w, t)
      /\ DOMAIN decBufs'.buf = D /\ decBufs' \in [buf : Seq(DecBuffer), free : Seq(Nat)]
      /\ \A b \in D : SameButLines(new(b), old(b))
      /\ \A b \in D : b # e => new(b) = old(b)
  BY <1>0, JobBuffers
<1>3. e \in D /\ \A b \in D : old(b).lines \in Int /\ old(b).final \in Int BY PicturesAre
<1>4. row \in 0 .. Rows /\ Running(t) BY <1>1 DEF JobsRun
<1>5. Rows \in Nat \ {0} /\ AllLines \in Nat /\ AllLines = 16 * Rows + 20000
  BY LinesAreFinal
<1>6. old(e).final = FinalLines(row) BY <1>1 DEF LinesFinal
<1>7. \A b \in D : BufferFine(old(b)) BY DEF LinesFinal, BufferFine
<1>8. \A u \in Arg : InPipe(u) => /\ ctx[u].fdec \in D
                                  /\ old(ctx[u].fdec).final = FinalLines(ctx[u].row)
                                  /\ u # t => ctx[u].fdec # e
  BY <1>1, FilledApart, PicturesAre DEF LinesFinal
<1>9. \A u \in Arg : InPipe(u)' => ctx'[u].row \in Nat
  <2>1. \A u \in Arg : InPipe(u)' => ctx'[u].row \in 0 .. Rows BY DEF JobsRun
  <2> QED BY <1>5, <2>1
<1>10. \A b \in D : new(b).pic = old(b).pic BY <1>2 DEF SameButLines
\* It is enough that what the job has done to its buffer and its context is fine.
<1> HIDE DEF D, e, old, new
<1>11. ASSUME BufferFine(new(e)), new(e).final \in Int, new(e).final >= old(e).final,
              old(e).final = AllLines => new(e).final = AllLines,
              new(e).final = FinalLines(ctx'[t].row),
              ctx[t].type = "P" /\ ctx'[t].at = "code" =>
                \/ ctx[t].at = "code" /\ ctx'[t].row = ctx[t].row
                \/ \A i \in DOMAIN ctx[t].ref :
                     old(ctx[t].ref[i]).final > 16 * ctx'[t].row + 15 + MvRangeThread,
              ctx[t].type = "P" /\ ctx'[t].nal =>
                \/ ctx[t].nal
                \/ \A i \in DOMAIN ctx[t].ref : old(ctx[t].ref[i]).final = AllLines
       PROVE  LinesFinal'
  <2>1. \A b \in D : BufferFine(new(b)) BY <1>2, <1>7, <1>11
  <2>2. \A b \in D : /\ new(b).pic = old(b).pic
                     /\ new(b).final \in Int
                     /\ new(b).final >= old(b).final
                     /\ old(b).final = AllLines => new(b).final = AllLines
    <3> SUFFICES ASSUME NEW b \in D
                 PROVE  /\ new(b).final \in Int
                        /\ new(b).final >= old(b).final
                        /\ old(b).final = AllLines => new(b).final = AllLines
      BY <1>10
    <3>1. CASE b = e BY <1>11, <3>1
    <3>2. CASE b # e
      <4>1. new(b).final = old(b).final /\ old(b).final \in Int BY <1>2, <1>3, <3>2
      <4> QED BY <4>1
    <3> QED BY <3>1, <3>2
  <2>3. \A u \in Arg : InPipe(u)' =>
          /\ InPipe(u) /\ SamePictures(u) /\ ctx'[u].row \in Nat
          /\ new(ctx[u].fdec).final = FinalLines(ctx'[u].row)
    <3> SUFFICES ASSUME NEW u \in Arg, InPipe(u)'
                 PROVE  new(ctx[u].fdec).final = FinalLines(ctx'[u].row)
      BY <1>1, <1>9
    <3>1. CASE u = t BY <1>11, <3>1 DEF e
    <3>2. CASE u # t
      <4>1. ctx'[u].row = ctx[u].row BY <1>1, <3>2 DEF SameProgress
      <4>2. InPipe(u) /\ ctx[u].fdec \in D /\ ctx[u].fdec # e
            /\ old(ctx[u].fdec).final = FinalLines(ctx[u].row)
        BY <1>1, <1>8, <3>2
      <4>3. new(ctx[u].fdec) = old(ctx[u].fdec) BY <1>2, <4>2
      <4> QED BY <4>1, <4>2, <4>3
    <3> QED BY <3>1, <3>2
  <2>4. \A u \in Arg : InPipe(u)' /\ ctx[u].type = "P" /\ ctx'[u].at = "code" =>
          \/ ctx[u].at = "code" /\ ctx'[u].row = ctx[u].row
          \/ \A i \in DOMAIN ctx[u].ref :
               old(ctx[u].ref[i]).final > 16 * ctx'[u].row + 15 + MvRangeThread
    BY <1>1, <1>11 DEF SameProgress
  <2>5. \A u \in Arg : InPipe(u)' /\ ctx[u].type = "P" /\ ctx'[u].nal =>
          \/ ctx[u].nal
          \/ \A i \in DOMAIN ctx[u].ref : old(ctx[u].ref[i]).final = AllLines
    BY <1>1, <1>11 DEF SameProgress
  <2>6. DOMAIN decBufs'.buf = DOMAIN decBufs.buf BY <1>2 DEF D
  <2> QED BY <2>1, <2>2, <2>3, <2>4, <2>5, <2>6, LinesRest DEF D, old, new
<1>12. CASE AwaitedRows(t)
  <2>1. new(e) = old(e) BY <1>12 DEF AwaitedRows, new, old
  <2>2. /\ ctx[t].at = "await" /\ ctx'[t].row = row /\ ctx'[t].nal = ctx[t].nal
        /\ \A i \in DOMAIN ctx[t].fref :
             decBufs.buf[ctx[t].fref[i].buf].lines >= 16 * row + MvRangeThread
    BY <1>12 DEF AwaitedRows, Awaited
  <2>3. ASSUME ctx[t].type = "P", NEW i \in DOMAIN ctx[t].ref
        PROVE  old(ctx[t].ref[i]).final > 16 * row + 15 + MvRangeThread
    <3> DEFINE s == ctx[t].ref
               b == s[i]
               k == Len(s) + 1 - i
    <3>1. /\ s \in Seq(Nat) /\ IsInjective(s) /\ b \in D
          /\ i \in 1 .. Len(s) /\ Len(s) \in Nat
      BY <2>3, PicturesAre DEF PicturesShared, D
    <3>2. ctx[t].fref = RefList("P", s, decBufs) BY <1>1, <2>3 DEF LinesFinal
    <3> HIDE DEF s
    <3>3. k \in 1 .. Len(s) /\ Len(s) + 1 - k = i BY <3>1
    <3> HIDE DEF k
    <3>4. /\ DOMAIN RefList("P", s, decBufs) = 1 .. Len(s)
          /\ RefList("P", s, decBufs)[k].buf = s[Len(s) + 1 - k]
      BY <3>1, <3>3, RefListIs
    <3>5. k \in DOMAIN ctx[t].fref /\ ctx[t].fref[k].buf = b BY <3>2, <3>3, <3>4
    <3>6. old(b).lines >= 16 * row + MvRangeThread BY <2>2, <3>5 DEF old
    <3>7. MvRangeThread \in Nat /\ row \in Nat BY <1>4, <1>5, RangeIsNumber
    <3>8. old(b).lines \in Int /\ old(b).final \in Int BY <1>3, <3>1
    <3> DEFINE x == old(b).lines
               y == old(b).final
               m == MvRangeThread
               z == 16 * row
    <3>9. z \in Nat BY <3>7
    <3>10. x >= 0 => y >= x + 16 BY <1>7, <3>1 DEF BufferFine
    <3>11. x \in Int /\ y \in Int /\ m \in Nat /\ x >= z + m BY <3>6, <3>7, <3>8
    <3> HIDE DEF x, y, m, z, b
    <3>12. y > z + 15 + m BY <3>9, <3>10, <3>11
    <3> QED BY <3>12 DEF x, y, m, z, b, s
  <2>4. BufferFine(new(e)) /\ new(e).final \in Int /\ new(e).final >= old(e).final
    BY <1>3, <1>7, <2>1
  <2>5. new(e).final = FinalLines(ctx'[t].row) BY <1>6, <2>1, <2>2
  <2>6. old(e).final = AllLines => new(e).final = AllLines BY <2>1
  <2>7. ctx[t].type = "P" => \A i \in DOMAIN ctx[t].ref :
          old(ctx[t].ref[i]).final > 16 * ctx'[t].row + 15 + MvRangeThread
    BY <2>2, <2>3
  <2> QED BY <1>11, <2>2, <2>4, <2>5, <2>6, <2>7
<1>13. CASE CodedRow(t)
  <2>1. /\ ctx[t].at = "code" /\ ctx'[t].at = "publish"
        /\ ctx'[t].row = row + 1 /\ ctx'[t].nal = (row + 1 = Rows)
        /\ new(e).final = FinalLines(row + 1) /\ new(e).lines = old(e).lines
    BY <1>13 DEF CodedRow, Coded, new, old, e
  <2>2. row \in 0 .. (Rows - 1)
    <3>1. row < Rows BY <1>4, <2>1 DEF Running
    <3> QED BY <1>4, <1>5, <3>1
  <2>3. /\ FinalLines(row + 1) \in Int /\ FinalLines(row) \in Int
        /\ FinalLines(row + 1) >= FinalLines(row) /\ FinalLines(row) # AllLines
        /\ FinalLines(row + 1) = AllLines \/ FinalLines(row + 1) <= 16 * (Rows - 1)
    BY <2>2, OneRowMore
  <2>4. BufferFine(new(e))
    <3>1. old(e).lines >= 0 => old(e).final >= old(e).lines + 16 BY <1>3, <1>7 DEF BufferFine
    <3>2. new(e).lines >= 0 => new(e).final >= new(e).lines + 16
      <4> DEFINE x == old(e).lines
                 y == FinalLines(row)
                 z == FinalLines(row + 1)
      <4>1. x \in Int /\ y \in Int /\ z \in Int /\ z >= y /\ (x >= 0 => y >= x + 16)
        BY <1>3, <1>6, <2>3, <3>1
      <4>2. new(e).lines = x /\ new(e).final = z BY <2>1
      <4> HIDE DEF x, y, z
      <4>3. x >= 0 => z >= x + 16 BY <4>1
      <4> QED BY <4>2, <4>3
    <3> QED BY <2>1, <2>3, <3>2 DEF BufferFine
  <2>5. ASSUME ctx[t].type = "P", ctx'[t].nal, NEW i \in DOMAIN ctx[t].ref
        PROVE  old(ctx[t].ref[i]).final = AllLines
    <3>1. row + 1 = Rows BY <2>1, <2>5, Zenon
    <3>2. old(ctx[t].ref[i]).final > 16 * row + 15 + MvRangeThread
      BY <1>1, <2>1, <2>5 DEF LinesFinal, old
    <3>3. ctx[t].ref[i] \in D BY <2>5, PicturesAre DEF D
    <3>4. MvRangeThread \in Nat BY RangeIsNumber
    <3> DEFINE y == old(ctx[t].ref[i]).final
    <3>5. y \in Int /\ (y = AllLines \/ y <= 16 * (Rows - 1)) BY <1>3, <1>7, <3>3 DEF BufferFine
    <3>6. y > 16 * row + 15 + MvRangeThread BY <3>2
    <3> HIDE DEF y
    <3>7. row = Rows - 1 BY <1>5, <2>2, <3>1
    <3>8. y > 16 * (Rows - 1) BY <1>5, <3>4, <3>5, <3>6, <3>7
    <3>9. y = AllLines BY <1>5, <3>5, <3>8
    <3> QED BY <3>9 DEF y
  <2>6. old(e).final # AllLines BY <1>6, <2>3
  <2>7. new(e).final \in Int /\ new(e).final >= old(e).final BY <1>6, <2>1, <2>3
  <2>8. new(e).final = FinalLines(ctx'[t].row) BY <2>1
  <2>9. ctx'[t].at # "code" BY <2>1
  <2> QED BY <1>11, <2>4, <2>5, <2>6, <2>7, <2>8, <2>9
<1>14. CASE PublishedRow(w, t)
  <2>1. /\ ctx[t].at = "publish" /\ ctx'[t].at = "await" /\ ctx'[t].row = row
        /\ ctx'[t].nal = ctx[t].nal /\ new(e).final = old(e).final
        /\ \/ new(e).lines = old(e).lines
           \/ new(e).lines = 16 * row + IF row = Rows THEN 10000 ELSE -THREAD_HEIGHT
    BY <1>14 DEF PublishedRow, Published, new, old, e
  <2>2. row \in 1 .. Rows
    <3>1. row > 0 BY <1>4, <2>1 DEF Running
    <3> QED BY <1>4, <1>5, <3>1
  <2>3. BufferFine(new(e))
    <3>1. CASE new(e).lines = old(e).lines
      <4>1. BufferFine(old(e)) BY <1>3, <1>7
      <4> QED BY <2>1, <3>1, <4>1 DEF BufferFine
    <3>2. CASE new(e).lines = 16 * row + IF row = Rows THEN 10000 ELSE -THREAD_HEIGHT
      <4>1. CASE row = Rows
        <5>1. new(e).lines = 16 * Rows + 10000 BY <3>2, <4>1
        <5>2. new(e).final = AllLines BY <1>6, <2>1, <4>1, LinesAreFinal
        <5>3. new(e).lines >= 0 => new(e).final >= new(e).lines + 16 BY <1>5, <5>1, <5>2
        <5> QED BY <5>2, <5>3 DEF BufferFine
      <4>2. CASE row # Rows
        <5>1. row \in 1 .. (Rows - 1) BY <1>5, <2>2, <4>2
        <5>2. new(e).lines = 16 * row - 24
          <6>1. new(e).lines = 16 * row + (-24) BY <3>2, <4>2 DEF THREAD_HEIGHT
          <6> QED BY <1>5, <5>1, <6>1
        <5>3. new(e).final = 16 * row - 8 BY <1>6, <2>1, <5>1, LinesAreFinal
        <5>4. new(e).final >= new(e).lines + 16 BY <1>5, <5>1, <5>2, <5>3
        <5>5. new(e).final <= 16 * (Rows - 1) BY <1>5, <5>1, <5>3
        <5> QED BY <5>4, <5>5 DEF BufferFine
      <4> QED BY <4>1, <4>2
    <3> QED BY <2>1, <3>1, <3>2
  <2>4. new(e).final \in Int /\ new(e).final >= old(e).final BY <1>3, <2>1
  <2>5. new(e).final = FinalLines(ctx'[t].row) BY <1>6, <2>1
  <2>6. ctx'[t].at # "code" BY <2>1
  <2> QED BY <1>11, <2>1, <2>3, <2>4, <2>5, <2>6
<1>15. CASE FailedRow(w, t)
  <2>1. new(e) = old(e) BY <1>15 DEF FailedRow, new, old
  <2>2. ctx'[t].at = ctx[t].at /\ ctx'[t].row = row /\ ctx'[t].nal = ctx[t].nal
    BY <1>15 DEF FailedRow, Failed
  <2>3. BufferFine(new(e)) /\ new(e).final \in Int /\ new(e).final >= old(e).final
    BY <1>3, <1>7, <2>1
  <2>4. new(e).final = FinalLines(ctx'[t].row) BY <1>6, <2>1, <2>2
  <2> QED BY <1>11, <2>1, <2>2, <2>3, <2>4
<1> QED BY <1>2, <1>12, <1>13, <1>14, <1>15

\* A new picture has no lines yet, and references if it is predicted.
LEMMA LinesAnew ==
  ASSUME IInv, PicturesShared, LinesFinal, NEW cut, Encode(cut)
  PROVE  LinesFinal'
<1> DEFINE f == ctx'[Oldest].fdec
           R == ctx'[Oldest].ref
           D == DOMAIN decBufs.buf
           type == NewType(cut)
<1>1. /\ f \in DOMAIN decBufs'.buf /\ decBufs'.buf[f].lines = -1 /\ decBufs'.buf[f].final = 0
      /\ \A b \in D : b # f => /\ b \in DOMAIN decBufs'.buf
                               /\ decBufs'.buf[b].pic = decBufs.buf[b].pic
                               /\ decBufs'.buf[b].lines = decBufs.buf[b].lines
                               /\ decBufs'.buf[b].final = decBufs.buf[b].final
      /\ \A b \in DOMAIN decBufs'.buf : b # f => b \in D
      /\ \A t \in Arg : t # Oldest => f \notin Used(t)
  BY EncodeLeaves
<1>2. /\ \A t \in Arg : InPipe(t)' <=> InPipe(t) \/ t = Oldest
      /\ \A t \in Arg : InPipe(t) => t # Oldest
  BY EncodePipe
<1>3. /\ \A u \in Arg : u # Oldest => SamePictures(u) /\ SameProgress(u)
      /\ ctx'[Oldest].type = type /\ R = NewRef(cut)
      /\ ctx'[Oldest].nal = FALSE /\ ctx'[Oldest].row = 0 /\ ctx'[Oldest].at = "await"
  BY EncodeMoves
<1>4. ctx'[Oldest].fref = RefList(type, R, decBufs') BY EncodeBuffers
<1>5. Rows \in Nat \ {0} /\ FinalLines(0) = 0 BY LinesAreFinal
<1>6. type \in {"P", "I", "IDR"} BY DEF NewType, Decided
<1>7. type = "P" => R # <<>>
  <2> SUFFICES ASSUME type = "P" PROVE R # <<>> OBVIOUS
  <2>1. NewPic.ref # <<>> BY DEF NewType
  <2> QED BY <1>3, <2>1 DEF NewRef
<1>8. type = "IDR" => R = <<>> BY <1>3 DEF NewRef
<1> HIDE DEF f, R, type
<1>9. ASSUME NEW b \in DOMAIN decBufs'.buf
      PROVE  LET l == decBufs'.buf[b]
             IN /\ l.lines >= 0 => l.final >= l.lines + 16
                /\ l.final = AllLines \/ l.final <= 16 * (Rows - 1)
  <2>1. CASE b = f BY <1>1, <1>5, <2>1
  <2>2. CASE b # f
    <3>1. /\ b \in D /\ decBufs'.buf[b].lines = decBufs.buf[b].lines
          /\ decBufs'.buf[b].final = decBufs.buf[b].final
      BY <1>1, <1>9, <2>2
    <3>2. LET l == decBufs.buf[b]
          IN /\ l.lines >= 0 => l.final >= l.lines + 16
             /\ l.final = AllLines \/ l.final <= 16 * (Rows - 1)
      BY <3>1 DEF LinesFinal
    <3> QED BY <3>1, <3>2
  <2> QED BY <2>1, <2>2
<1>10. ASSUME NEW t \in Arg, InPipe(t)'
       PROVE  LET final(i) == decBufs'.buf[ctx'[t].ref[i]].final
              IN /\ decBufs'.buf[ctx'[t].fdec].final = FinalLines(ctx'[t].row)
                 /\ ctx'[t].type \in {"P", "I", "IDR"}
                 /\ ctx'[t].type = "P" => ctx'[t].ref # <<>>
                 /\ ctx'[t].type = "IDR" => ctx'[t].ref = <<>>
                 /\ ctx'[t].fref = RefList(ctx'[t].type, ctx'[t].ref, decBufs')
                 /\ ctx'[t].type = "P" => \A i \in DOMAIN ctx'[t].ref :
                      /\ ctx'[t].at = "code" => final(i) > 16 * ctx'[t].row + 15 + MvRangeThread
                      /\ ctx'[t].nal => final(i) = AllLines
  <2>1. CASE t = Oldest
    <3>1. /\ ctx'[t].fdec = f /\ ctx'[t].ref = R /\ ctx'[t].type = type
          /\ ctx'[t].nal = FALSE /\ ctx'[t].row = 0 /\ ctx'[t].at = "await"
          /\ ctx'[t].fref = RefList(type, R, decBufs')
      BY <1>3, <1>4, <2>1 DEF f, R
    <3>2. decBufs'.buf[ctx'[t].fdec].final = FinalLines(ctx'[t].row) BY <1>1, <1>5, <3>1
    <3>3. ctx'[t].at # "code" /\ ~ctx'[t].nal BY <3>1
    <3> QED BY <1>6, <1>7, <1>8, <3>1, <3>2, <3>3
  <2>2. CASE t # Oldest
    <3> DEFINE s == ctx[t].ref
    <3>1. InPipe(t) BY <1>2, <1>10, <2>2
    <3>2. /\ ctx'[t].fdec = ctx[t].fdec /\ ctx'[t].ref = s
          /\ ctx'[t].type = ctx[t].type /\ ctx'[t].fref = ctx[t].fref
          /\ ctx'[t].nal = ctx[t].nal /\ ctx'[t].row = ctx[t].row /\ ctx'[t].at = ctx[t].at
      BY <1>3, <2>2 DEF SamePictures, SameProgress
    <3>3. LET final(i) == decBufs.buf[s[i]].final
          IN /\ decBufs.buf[ctx[t].fdec].final = FinalLines(ctx[t].row)
             /\ ctx[t].type \in {"P", "I", "IDR"}
             /\ ctx[t].type = "P" => s # <<>>
             /\ ctx[t].type = "IDR" => s = <<>>
             /\ ctx[t].fref = RefList(ctx[t].type, s, decBufs)
             /\ ctx[t].type = "P" => \A i \in DOMAIN s :
                  /\ ctx[t].at = "code" => final(i) > 16 * ctx[t].row + 15 + MvRangeThread
                  /\ ctx[t].nal => final(i) = AllLines
      BY <3>1 DEF LinesFinal
    <3>4. /\ s \in Seq(Nat) /\ IsInjective(s)
          /\ \A i \in DOMAIN s : s[i] \in D /\ s[i] # f
          /\ \A b \in ToSet(s) : b \in D /\ b # f
          /\ ctx[t].fdec \in D /\ ctx[t].fdec # f
      BY <1>1, <2>2, PicturesAre DEF PicturesShared, Used
    <3>5. RefList(ctx[t].type, s, decBufs') = RefList(ctx[t].type, s, decBufs)
      <4> DEFINE m == decBufs'
                 ty == ctx[t].type
      <4>1. \A b \in ToSet(s) : m.buf[b].pic = decBufs.buf[b].pic BY <1>1, <3>4
      <4> HIDE DEF m, s, ty
      <4>2. RefList(ty, s, m) = RefList(ty, s, decBufs) BY <3>4, <4>1, RefListSame
      <4> QED BY <4>2 DEF m, s, ty
    <3> HIDE DEF s
    <3>6. \A i \in DOMAIN s : decBufs'.buf[s[i]].final = decBufs.buf[s[i]].final
      BY <1>1, <3>4
    <3>7. decBufs'.buf[ctx[t].fdec].final = decBufs.buf[ctx[t].fdec].final
      BY <1>1, <3>4
    <3> QED BY <3>2, <3>3, <3>5, <3>6, <3>7
  <2> QED BY <2>1, <2>2
<1> QED BY <1>9, <1>10 DEF LinesFinal

\* Nothing is in the pipe of a new encoder.
LEMMA OpenedIsFinal == OpenedNumbers => LinesFinal
<1> SUFFICES ASSUME OpenedNumbers PROVE LinesFinal OBVIOUS
<1>1. \A t \in Arg : ~InPipe(t)
  BY DEF InPipe, OpenedNumbers, OpenedPictures, NewCtx, Context
<1>2. \A b \in DOMAIN decBufs.buf : decBufs.buf[b].lines = -1 /\ decBufs.buf[b].final = 0
  BY DEF OpenedNumbers, OpenedPictures, NewDecBufs, NewDec
<1>3. Rows \in Nat \ {0} BY LinesAreFinal
<1> QED BY <1>1, <1>2, <1>3 DEF LinesFinal

\* The same after x264_encoder_open.
LEMMA OpenedIsFinalAgain == OpenedNumbers' => LinesFinal'
BY OpenedIsFinal, PTL

\* Every step keeps lines published after they are final.
LEMMA LinesFinalKept ==
  ASSUME IInv, IInv', JobsRun, JobsRun', PicturesShared, SourcesCounted, PicturesNumbered,
         LinesFinal, [Next]_vars
  PROVE  LinesFinal'
<1>1. ASSUME NEW cut, Encode(cut) PROVE LinesFinal' BY <1>1, LinesAnew
<1>2. CASE Reopen BY <1>2, OpenedAtLast, OpenedIsFinalAgain
<1>3. ASSUME NEW w \in Worker, NEW t \in Arg, JobStep(w, t) PROVE LinesFinal'
  BY <1>3, JobLines
<1>4. CASE Calm
  <2>1. /\ DOMAIN decBufs'.buf = DOMAIN decBufs.buf
        /\ \A b \in DOMAIN decBufs.buf : /\ decBufs'.buf[b].pic = decBufs.buf[b].pic
                                         /\ decBufs'.buf[b].lines = decBufs.buf[b].lines
                                         /\ decBufs'.buf[b].final = decBufs.buf[b].final
    BY <1>4 DEF Calm, Alike
  <2>2. \A b \in DOMAIN decBufs.buf : BufferFine(decBufs'.buf[b])
    BY <2>1 DEF LinesFinal, BufferFine
  <2>3. \A b \in DOMAIN decBufs.buf :
          /\ decBufs'.buf[b].pic = decBufs.buf[b].pic
          /\ decBufs'.buf[b].final \in Int
          /\ decBufs'.buf[b].final >= decBufs.buf[b].final
          /\ decBufs.buf[b].final = AllLines => decBufs'.buf[b].final = AllLines
    BY <2>1, PicturesAre
  <2>4. \A t \in Arg : InPipe(t)' =>
          /\ InPipe(t) /\ SamePictures(t) /\ ctx'[t].row = ctx[t].row
          /\ ctx'[t].at = ctx[t].at /\ ctx'[t].nal = ctx[t].nal
    BY <1>4 DEF Calm, SameProgress
  <2>5. \A t \in Arg : InPipe(t)' =>
          /\ InPipe(t) /\ SamePictures(t) /\ ctx'[t].row \in Nat
          /\ decBufs'.buf[ctx[t].fdec].final = FinalLines(ctx'[t].row)
    <3>1. \A t \in Arg : InPipe(t) =>
            ctx[t].row \in 0 .. Rows /\ ctx[t].fdec \in DOMAIN decBufs.buf
            /\ decBufs.buf[ctx[t].fdec].final = FinalLines(ctx[t].row)
      BY PicturesAre DEF JobsRun, LinesFinal
    <3>2. \A t \in Arg : InPipe(t) => ctx[t].row \in Nat BY <3>1, LinesAreFinal
    <3> QED BY <2>1, <2>4, <3>1, <3>2
  <2> QED BY <2>1, <2>2, <2>3, <2>4, <2>5, LinesRest
<1>5. \/ \E cut \in BOOLEAN : Encode(cut)
      \/ Reopen
      \/ \E w \in Worker, t \in Arg : JobStep(w, t)
      \/ CalmInside
      \/ Calm /\ FrameEnd /\ call = "wait"
  BY CalmSteps
<1> QED BY <1>1, <1>2, <1>3, <1>4, <1>5 DEF CalmInside

-----------------------------------------------------------------------------
(* What the decoder keeps.                                                 *)

\* What DecoderKeeps says of one context.
KeptBy(t) ==
  LET first == input - Depth
      pic(j) == decBufs.buf[ctx[t].ref[j]].pic
      whole(j) == decBufs.buf[ctx[t].ref[j]].final = AllLines
  IN \A i \in DOMAIN ctx[t].ref :
       pic(i) < first /\ (\A j \in i .. Len(ctx[t].ref) : pic(j) < first => whole(j)) =>
         first - pic(i) <= Len(dpb) /\ dpb[Len(dpb) - (first - pic(i)) + 1] = pic(i)

\* DecoderKeeps, context by context.
LEMMA KeepsMeans ==
  DecoderKeeps <=> /\ dpb \in Seq(Int) /\ Len(dpb) <= NumRefs
                   /\ \A t \in Arg : InPipe(t) => KeptBy(t)
BY DEF DecoderKeeps, KeptBy

\* The same after a step.
LEMMA KeepsMeansAgain ==
  DecoderKeeps' <=> /\ dpb' \in Seq(Int) /\ Len(dpb') <= NumRefs
                    /\ \A t \in Arg : InPipe(t)' => KeptBy(t)'
BY DEF DecoderKeeps, KeptBy

\* A step that changes neither what was sent nor the references.
LEMMA KeptRests ==
  ASSUME NEW t \in Arg, KeptBy(t), input' - Depth' = input - Depth, dpb' = dpb,
         ctx'[t].ref = ctx[t].ref, ctx[t].ref \in Seq(Nat),
         \A j \in DOMAIN ctx[t].ref :
           /\ decBufs'.buf[ctx[t].ref[j]].pic = decBufs.buf[ctx[t].ref[j]].pic
           /\ decBufs.buf[ctx[t].ref[j]].pic < input - Depth =>
                decBufs'.buf[ctx[t].ref[j]].final = decBufs.buf[ctx[t].ref[j]].final
  PROVE  KeptBy(t)'
<1> DEFINE s == ctx[t].ref
           first == input - Depth
           pic(j) == decBufs.buf[s[j]].pic
           whole(j) == decBufs.buf[s[j]].final = AllLines
           whole1(j) == decBufs'.buf[s[j]].final = AllLines
<1>1. \A i \in DOMAIN s :
        pic(i) < first /\ (\A j \in i .. Len(s) : pic(j) < first => whole(j)) =>
          first - pic(i) <= Len(dpb) /\ dpb[Len(dpb) - (first - pic(i)) + 1] = pic(i)
  BY DEF KeptBy
<1>2. \A j \in DOMAIN s : decBufs'.buf[s[j]].pic = pic(j) /\ (pic(j) < first => (whole1(j) <=> whole(j)))
  OBVIOUS
<1>3. \A i \in DOMAIN s : \A j \in i .. Len(s) : j \in DOMAIN s
  <2>1. DOMAIN s = 1 .. Len(s) /\ Len(s) \in Nat OBVIOUS
  <2> HIDE DEF s
  <2> QED BY <2>1
<1>4. first' = first OBVIOUS
<1>5. ctx'[t].ref = s OBVIOUS
<1> HIDE DEF s, first, pic, whole, whole1
<1>6. \A i \in DOMAIN s :
        pic(i) < first /\ (\A j \in i .. Len(s) : pic(j) < first => whole1(j)) =>
          first - pic(i) <= Len(dpb) /\ dpb[Len(dpb) - (first - pic(i)) + 1] = pic(i)
  BY <1>1, <1>2, <1>3
<1>7. \A i \in DOMAIN s :
        decBufs'.buf[s[i]].pic < first'
        /\ (\A j \in i .. Len(s) : decBufs'.buf[s[j]].pic < first' => whole1(j)) =>
          /\ first' - decBufs'.buf[s[i]].pic <= Len(dpb)
          /\ dpb[Len(dpb) - (first' - decBufs'.buf[s[i]].pic) + 1] = decBufs'.buf[s[i]].pic
  BY <1>2, <1>3, <1>4, <1>6
<1>8. dpb' = dpb OBVIOUS
<1> QED BY <1>5, <1>7, <1>8 DEF KeptBy, first, whole1

\* The references of a new picture, seen by the one before it.
LEMMA KeptByNewest ==
  ASSUME IInv, PicturesShared, SourcesCounted, PicturesNumbered, DecoderKeeps,
         NEW cut, Encode(cut)
  PROVE  LET R == ctx'[Oldest].ref
             first == input - Depth
             pic(b) == decBufs.buf[b].pic
             whole(b) == decBufs.buf[b].final = AllLines
         IN \A i \in DOMAIN R :
              pic(R[i]) < first /\ (\A j \in i .. Len(R) : pic(R[j]) < first => whole(R[j])) =>
                /\ first - pic(R[i]) <= Len(dpb)
                /\ dpb[Len(dpb) - (first - pic(R[i])) + 1] = pic(R[i])
<1> DEFINE R == ctx'[Oldest].ref
           p == ctx[phase].ref
           first == input - Depth
           pic(b) == decBufs.buf[b].pic
           whole(b) == decBufs.buf[b].final = AllLines
           n == Len(R)
           L == Len(p)
<1> SUFFICES ASSUME NEW i \in DOMAIN R, pic(R[i]) < first,
                    \A j \in i .. Len(R) : pic(R[j]) < first => whole(R[j])
             PROVE  /\ first - pic(R[i]) <= Len(dpb)
                    /\ dpb[Len(dpb) - (first - pic(R[i])) + 1] = pic(R[i])
  OBVIOUS
<1>1. \A k \in DOMAIN R :
        /\ input > 0 /\ n <= L + 1 /\ n \in Nat /\ k \in 1 .. n
        /\ k + (L + 1 - n) <= L => k + (L + 1 - n) \in DOMAIN p /\ R[k] = p[k + (L + 1 - n)]
        /\ k + (L + 1 - n) > L => R[k] = ctx[phase].fdec
  BY NewRefsNumbered
<1>2. input \in Nat /\ Depth \in Nat /\ ~closing
  <2>1. input \in Nat /\ Depth \in 0 .. Threads /\ Threads \in Nat BY NumsDiffer
  <2>2. ~closing BY EncodeMoves
  <2> HIDE DEF R, p, n, L, first, pic, whole
  <2> QED BY <2>1, <2>2
<1>3. phase \in Arg /\ InPipe(phase) /\ Num(phase) = input - 1 /\ Depth >= 1
  BY <1>1, <1>2, Youngest
<1>4. pic(ctx[phase].fdec) = input - 1 BY <1>3 DEF PicturesNumbered
<1>5. KeptBy(phase) BY <1>3, KeepsMeans
<1>6. p \in Seq(Nat) /\ L \in Nat /\ DOMAIN p = 1 .. L /\ DOMAIN R = 1 .. n
  <2>1. p \in Seq(Nat) /\ L \in Nat /\ DOMAIN p = 1 .. L
    <3>1. p \in Seq(Nat) BY <1>3, PicturesAre
    <3> QED BY <3>1
  <2>2. R \in Seq(Nat) BY EncodeBuffers
  <2> QED BY <2>1, <2>2
<1> DEFINE d == L + 1 - n
<1>7. n \in Nat /\ n <= L + 1 /\ i \in 1 .. n BY <1>1
<1>8. \A k \in 1 .. n : /\ k + d <= L => k + d \in DOMAIN p /\ R[k] = p[k + d]
                        /\ k + d > L => R[k] = ctx[phase].fdec
  BY <1>1, <1>6
<1>9. \A j \in i .. n : pic(R[j]) < first => whole(R[j]) OBVIOUS
<1>10. \A k \in DOMAIN p :
         pic(p[k]) < first /\ (\A j \in k .. L : pic(p[j]) < first => whole(p[j])) =>
           first - pic(p[k]) <= Len(dpb) /\ dpb[Len(dpb) - (first - pic(p[k])) + 1] = pic(p[k])
  BY <1>5 DEF KeptBy
<1>11. pic(R[i]) < first OBVIOUS
<1>12. first \in Int /\ first <= input - 1 BY <1>2, <1>3
<1> HIDE DEF R, p, n, L, first, pic, whole
<1>13. d \in Nat /\ i + d \in Int /\ L \in Nat BY <1>6, <1>7
<1>14. i + d <= L
  <2> SUFFICES ASSUME i + d > L PROVE FALSE BY <1>13
  <2>1. pic(R[i]) = input - 1 BY <1>4, <1>7, <1>8
  <2> QED BY <1>2, <1>11, <1>12, <2>1
<1>15. i + d \in DOMAIN p /\ R[i] = p[i + d] BY <1>7, <1>8, <1>14
<1>16. ASSUME NEW m \in (i + d) .. L, pic(p[m]) < first PROVE whole(p[m])
  <2>1. m - d \in i .. n /\ (m - d) + d = m /\ m <= L BY <1>6, <1>7, <1>13, <1>16
  <2>2. m - d \in 1 .. n BY <1>7, <2>1
  <2>3. R[m - d] = p[m] BY <1>8, <2>1, <2>2
  <2>4. pic(R[m - d]) < first BY <1>16, <2>3
  <2>5. whole(R[m - d]) BY <1>9, <2>1, <2>4
  <2> QED BY <2>3, <2>5
<1>17. pic(p[i + d]) < first BY <1>11, <1>15
<1>18. first - pic(p[i + d]) <= Len(dpb)
       /\ dpb[Len(dpb) - (first - pic(p[i + d])) + 1] = pic(p[i + d])
  BY <1>10, <1>15, <1>16, <1>17
<1> QED BY <1>15, <1>18

\* Putting a picture in does not change what the decoder has.
LEMMA KeepsAnew ==
  ASSUME IInv, PicturesShared, SourcesCounted, PicturesNumbered, DecoderKeeps,
         NEW cut, Encode(cut)
  PROVE  DecoderKeeps'
<1> DEFINE f == ctx'[Oldest].fdec
           R == ctx'[Oldest].ref
           D == DOMAIN decBufs.buf
<1>1. /\ \A b \in D : b # f => /\ decBufs'.buf[b].pic = decBufs.buf[b].pic
                               /\ decBufs'.buf[b].final = decBufs.buf[b].final
      /\ \A t \in Arg : t # Oldest => /\ ctx'[t].ref = ctx[t].ref /\ f \notin Used(t)
  BY EncodeLeaves
<1>2. /\ \A t \in Arg : InPipe(t)' <=> InPipe(t) \/ t = Oldest
      /\ Depth' = Depth + 1
  BY EncodePipe
<1>3. input' = input + 1 /\ dpb' = dpb BY EncodeMoves
<1>4. input \in Nat /\ Depth \in 0 .. Threads /\ Threads \in Nat BY NumsDiffer
<1>5. input' - Depth' = input - Depth BY <1>2, <1>3, <1>4
<1>6. ASSUME NEW t \in Arg, InPipe(t)', t # Oldest PROVE KeptBy(t)'
  <2>1. KeptBy(t) BY <1>2, <1>6, KeepsMeans
  <2>2. /\ ctx[t].ref \in Seq(Nat)
        /\ \A j \in DOMAIN ctx[t].ref : ctx[t].ref[j] \in D /\ ctx[t].ref[j] # f
    BY <1>1, <1>6, PicturesAre
  <2>3. ctx'[t].ref = ctx[t].ref BY <1>1, <1>6
  <2>4. \A j \in DOMAIN ctx[t].ref :
          /\ decBufs'.buf[ctx[t].ref[j]].pic = decBufs.buf[ctx[t].ref[j]].pic
          /\ decBufs.buf[ctx[t].ref[j]].pic < input - Depth =>
               decBufs'.buf[ctx[t].ref[j]].final = decBufs.buf[ctx[t].ref[j]].final
    BY <1>1, <2>2
  <2> QED BY <1>3, <1>5, <2>1, <2>2, <2>3, <2>4, KeptRests
<1>7. ASSUME NEW t \in Arg, t = Oldest PROVE KeptBy(t)'
  <2> DEFINE first == input - Depth
             pic(b) == decBufs.buf[b].pic
             whole(b) == decBufs.buf[b].final = AllLines
  <2>1. \A i \in DOMAIN R :
          pic(R[i]) < first /\ (\A j \in i .. Len(R) : pic(R[j]) < first => whole(R[j])) =>
            /\ first - pic(R[i]) <= Len(dpb)
            /\ dpb[Len(dpb) - (first - pic(R[i])) + 1] = pic(R[i])
    BY KeptByNewest
  <2>2. R \in Seq(Nat) /\ f \notin ToSet(R) /\ ToSet(R) \subseteq Used(phase)
    BY EncodeBuffers
  <2>3. \A i \in DOMAIN R : R[i] \in D /\ R[i] # f
    <3>1. \A i \in DOMAIN R : R[i] \in ToSet(R) BY DEF ToSet
    <3>2. Used(phase) \subseteq D
      <4>1. phase \in Arg BY DEF IInv, TypeOK
      <4> QED BY <4>1 DEF PicturesShared
    <3> QED BY <2>2, <3>1, <3>2
  <2>4. ctx'[t].ref = R BY <1>7
  <2>5. DOMAIN R = 1 .. Len(R) /\ Len(R) \in Nat BY <2>2
  <2> DEFINE new(b) == decBufs'.buf[b].pic
             whole1(b) == decBufs'.buf[b].final = AllLines
  <2>6. \A i \in DOMAIN R : new(R[i]) = pic(R[i]) /\ (whole1(R[i]) <=> whole(R[i]))
    BY <1>1, <2>3
  <2> HIDE DEF R, first, pic, whole, new, whole1
  <2>7. \A i \in DOMAIN R : \A j \in i .. Len(R) : j \in DOMAIN R BY <2>5
  <2>8. \A i \in DOMAIN R :
          new(R[i]) < first /\ (\A j \in i .. Len(R) : new(R[j]) < first => whole1(R[j])) =>
            /\ first - new(R[i]) <= Len(dpb)
            /\ dpb[Len(dpb) - (first - new(R[i])) + 1] = new(R[i])
    BY <2>1, <2>6, <2>7
  <2>9. first = input' - Depth' BY <1>5 DEF first
  <2> QED BY <1>3, <2>4, <2>8, <2>9 DEF KeptBy, new, whole1
<1>8. \A t \in Arg : InPipe(t)' => KeptBy(t)' BY <1>6, <1>7
<1>9. dpb' \in Seq(Int) /\ Len(dpb') <= NumRefs BY <1>3, KeepsMeans
<1> QED BY <1>8, <1>9, KeepsMeansAgain

\* A job changes only the buffer of a picture that has not come out.
LEMMA KeepsInJobs ==
  ASSUME IInv, JobsRun, PicturesShared, PicturesNumbered, DecoderKeeps,
         NEW w \in Worker, NEW t \in Arg, JobStep(w, t)
  PROVE  DecoderKeeps'
<1> DEFINE e == ctx[t].fdec
           D == DOMAIN decBufs.buf
<1>0. Await(w, t) \/ CodeRow(w, t) \/ Publish(w, t) \/ Fail(w, t) BY DEF JobStep
<1>1. /\ \A u \in Arg : SamePictures(u)
      /\ InPipe(t)
      /\ \A u \in Arg : InPipe(u)' <=> InPipe(u)
      /\ UNCHANGED <<input, dpb>>
  BY <1>0, JobMoves
<1>2. /\ \A b \in D : SameButLines(decBufs'.buf[b], decBufs.buf[b])
      /\ \A b \in D : b # e => decBufs'.buf[b] = decBufs.buf[b]
  BY <1>0, JobBuffers
<1>3. Depth' = Depth
  <2>1. {u \in Arg : InPipe(u)'} = {u \in Arg : InPipe(u)} BY <1>1
  <2> QED BY <2>1 DEF Depth
<1>4. input \in Nat /\ Depth \in 0 .. Threads /\ Threads \in Nat
      /\ Num(t) \in Nat /\ Num(t) \in (input - Depth) .. (input - 1)
  BY <1>1, NumsDiffer
<1>5. decBufs.buf[e].pic = Num(t) BY <1>1 DEF PicturesNumbered
<1>6. ~(decBufs.buf[e].pic < input - Depth) BY <1>4, <1>5
<1>7. input' - Depth' = input - Depth BY <1>1, <1>3
<1>8. ASSUME NEW u \in Arg, InPipe(u)' PROVE KeptBy(u)'
  <2>1. KeptBy(u) BY <1>1, <1>8, KeepsMeans
  <2>2. ctx[u].ref \in Seq(Nat) /\ \A j \in DOMAIN ctx[u].ref : ctx[u].ref[j] \in D
    BY PicturesAre
  <2>3. ctx'[u].ref = ctx[u].ref BY <1>1 DEF SamePictures
  <2> HIDE DEF e
  <2>4. \A j \in DOMAIN ctx[u].ref :
          /\ decBufs'.buf[ctx[u].ref[j]].pic = decBufs.buf[ctx[u].ref[j]].pic
          /\ decBufs.buf[ctx[u].ref[j]].pic < input - Depth =>
               decBufs'.buf[ctx[u].ref[j]].final = decBufs.buf[ctx[u].ref[j]].final
    BY <1>2, <1>6, <2>2 DEF SameButLines
  <2>5. dpb' = dpb BY <1>1
  <2> QED BY <1>7, <2>1, <2>2, <2>3, <2>4, <2>5, KeptRests
<1>9. dpb' \in Seq(Int) /\ Len(dpb') <= NumRefs BY <1>1, KeepsMeans
<1> QED BY <1>8, <1>9, KeepsMeansAgain

\* Calm steps send nothing.
LEMMA KeepsInside ==
  ASSUME PicturesShared, DecoderKeeps, CalmInside
  PROVE  DecoderKeeps'
<1>1. /\ \A u \in Arg : InPipe(u)' <=> InPipe(u)
      /\ UNCHANGED <<input, dpb>>
      /\ \A b \in DOMAIN decBufs.buf : Alike(decBufs'.buf[b], decBufs.buf[b])
      /\ \A u \in Arg : InPipe(u)' => SamePictures(u)
  BY DEF CalmInside, Calm
<1>2. Depth' = Depth
  <2>1. {u \in Arg : InPipe(u)'} = {u \in Arg : InPipe(u)} BY <1>1
  <2> QED BY <2>1 DEF Depth
<1>3. input' - Depth' = input - Depth BY <1>1, <1>2
<1>4. ASSUME NEW u \in Arg, InPipe(u)' PROVE KeptBy(u)'
  <2>1. KeptBy(u) BY <1>1, <1>4, KeepsMeans
  <2>2. /\ ctx[u].ref \in Seq(Nat)
        /\ \A j \in DOMAIN ctx[u].ref : ctx[u].ref[j] \in DOMAIN decBufs.buf
    BY PicturesAre
  <2>3. ctx'[u].ref = ctx[u].ref BY <1>1, <1>4 DEF SamePictures
  <2>4. \A j \in DOMAIN ctx[u].ref :
          /\ decBufs'.buf[ctx[u].ref[j]].pic = decBufs.buf[ctx[u].ref[j]].pic
          /\ decBufs.buf[ctx[u].ref[j]].pic < input - Depth =>
               decBufs'.buf[ctx[u].ref[j]].final = decBufs.buf[ctx[u].ref[j]].final
    BY <1>1, <2>2 DEF Alike
  <2>5. dpb' = dpb BY <1>1
  <2> QED BY <1>3, <2>1, <2>2, <2>3, <2>4, <2>5, KeptRests
<1>5. dpb' \in Seq(Int) /\ Len(dpb') <= NumRefs BY <1>1, KeepsMeans
<1> QED BY <1>4, <1>5, KeepsMeansAgain

\* The decoder keeps the new picture and those before it, but for the oldest.
LEMMA Decoded ==
  ASSUME NEW s \in Seq(Int), NEW n \in Nat \ {0}, Len(s) <= n, NEW p \in Int
  PROVE  LET all == Append(s, p)
             r == IF Len(all) > n THEN Tail(all) ELSE all
         IN /\ r \in Seq(Int) /\ Len(r) <= n /\ Len(r) \in Nat /\ Len(r) >= 1
            /\ r[Len(r)] = p
            /\ \A k \in 1 .. Len(s) : k + 1 <= n =>
                 k + 1 <= Len(r) /\ r[Len(r) - (k + 1) + 1] = s[Len(s) - k + 1]
<1> DEFINE all == Append(s, p)
           L == Len(s)
           r == IF Len(all) > n THEN Tail(all) ELSE all
<1>1. L \in Nat /\ L <= n BY LenProperties
<1>2. all \in Seq(Int) /\ Len(all) = L + 1 /\ all[L + 1] = p
      /\ \A i \in 1 .. L : all[i] = s[i]
  BY AppendProperties
<1> HIDE DEF all, L
<1>3. CASE L + 1 > n
  <2>1. r = Tail(all) BY <1>2, <1>3
  <2>2. L = n BY <1>1, <1>3
  <2>3. all # <<>>
    <3>1. Len(all) # 0 BY <1>1, <1>2
    <3> QED BY <3>1
  <2>4. Tail(all) \in Seq(Int) /\ Len(Tail(all)) = Len(all) - 1
        /\ \A i \in 1 .. (Len(all) - 1) : Tail(all)[i] = all[i + 1]
    BY <1>2, <2>3, HeadTailProperties
  <2>5. r \in Seq(Int) /\ Len(r) = L /\ \A i \in 1 .. L : r[i] = all[i + 1]
    BY <1>1, <1>2, <2>1, <2>4
  <2> HIDE DEF r
  <2>6. L \in 1 .. L /\ r[L] = p BY <1>1, <1>2, <2>2, <2>5
  <2>7. ASSUME NEW k \in 1 .. L, k + 1 <= n
        PROVE  k + 1 <= Len(r) /\ r[Len(r) - (k + 1) + 1] = s[L - k + 1]
    <3>1. L - k \in 1 .. L /\ (L - k) + 1 \in 1 .. L /\ L - (k + 1) + 1 = L - k
      BY <1>1, <2>2, <2>7
    <3>2. r[L - k] = s[(L - k) + 1] BY <1>2, <2>5, <3>1
    <3> QED BY <1>1, <2>2, <2>5, <2>7, <3>1, <3>2
  <2>8. Len(r) <= n /\ Len(r) \in Nat /\ Len(r) >= 1 BY <1>1, <2>2, <2>5
  <2> QED BY <2>5, <2>6, <2>7, <2>8 DEF r, L, all
<1>4. CASE ~(L + 1 > n)
  <2>1. r = all BY <1>2, <1>4
  <2>2. r \in Seq(Int) /\ Len(r) = L + 1 /\ r[L + 1] = p /\ \A i \in 1 .. L : r[i] = s[i]
    BY <1>2, <2>1
  <2> HIDE DEF r
  <2>3. ASSUME NEW k \in 1 .. L, k + 1 <= n
        PROVE  k + 1 <= Len(r) /\ r[Len(r) - (k + 1) + 1] = s[L - k + 1]
    <3>1. (L + 1) - (k + 1) + 1 = L - k + 1 /\ L - k + 1 \in 1 .. L /\ k + 1 <= L + 1
      BY <1>1, <2>3
    <3> QED BY <2>2, <3>1
  <2>4. Len(r) <= n /\ Len(r) \in Nat /\ Len(r) >= 1 BY <1>1, <1>4, <2>2
  <2> QED BY <2>2, <2>3, <2>4 DEF r, L, all
<1> QED BY <1>3, <1>4

\* When the oldest picture comes out the decoder has it; when its job has
\* failed it does not, and nothing that is predicted from it is whole.
LEMMA KeepsOldest ==
  ASSUME IInv, JobsRun, PicturesShared, PicturesNumbered, LinesFinal, DecoderKeeps,
         Calm, FrameEnd, call = "wait"
  PROVE  DecoderKeeps'
<1> DEFINE c == ctx[Oldest]
           out == ~(c.failed \/ ~c.nal)
           first == input - Depth
           pic(b) == decBufs.buf[b].pic
           whole(b) == decBufs.buf[b].final = AllLines
<1>1. phase \in Arg /\ Oldest \in Arg BY Ages DEF IInv, TypeOK
<1>2. InPipe(Oldest) BY DEF InPipe
<1>3. /\ \A u \in Arg : SamePictures(u)
      /\ \A u \in Arg : InPipe(u)' <=> InPipe(u) /\ u # Oldest
      /\ UNCHANGED <<decBufs, input>> /\ carg = Oldest /\ caller = "return"
  BY FrameEndMoves
<1>4. Depth' = Depth - 1 BY <1>1, <1>2, <1>3, OneFewer
<1>5. Num(Oldest) = first /\ Depth > 0
      /\ \A t \in Arg : InPipe(t) /\ t # Oldest => Num(t) > Num(Oldest)
  BY <1>2, OldestFirst
<1>6. /\ input \in Nat /\ Depth \in Nat /\ Num(Oldest) \in Nat
      /\ \A t \in Arg : InPipe(t) => Num(t) \in Nat
  <2>1. /\ input \in Nat /\ Depth \in 0 .. Threads /\ Threads \in Nat
        /\ \A t \in Arg : InPipe(t) => Num(t) \in Nat
    BY NumsDiffer
  <2> QED BY <1>1, <1>2, <2>1
<1>7. pic(c.fdec) = first BY <1>1, <1>2, <1>5 DEF PicturesNumbered
<1>8. NumRefs \in Nat \ {0} BY FramesAssumption
<1>9. dpb \in Seq(Int) /\ Len(dpb) <= NumRefs /\ \A t \in Arg : InPipe(t) => KeptBy(t)
  BY KeepsMeans
<1>10. /\ ~out => dpb' = dpb
       /\ out => dpb' = Decode(c.type, pic(c.fdec))
  BY DEF FrameEnd, Output
<1>11. first' = first + 1 BY <1>3, <1>4, <1>6
<1>12. first \in Nat BY <1>5, <1>6
\* The references of a context that stays: consecutive pictures, the last of
\* them no earlier than the one that leaves.
<1>13. ASSUME NEW t \in Arg, InPipe(t), t # Oldest
       PROVE  LET s == ctx[t].ref
              IN /\ s \in Seq(Nat) /\ Len(s) \in 0 .. NumRefs /\ DOMAIN s = 1 .. Len(s)
                 /\ \A i \in DOMAIN s : pic(s[i]) = Num(t) - Len(s) + i - 1
                 /\ Num(t) \in Nat /\ Num(t) > first
                 /\ \A i \in DOMAIN s : pic(s[i]) = first => s[i] = c.fdec
  <2> DEFINE s == ctx[t].ref
  <2>1. /\ s \in Seq(Nat) /\ Len(s) \in 0 .. NumRefs /\ DOMAIN s = 1 .. Len(s)
        /\ \A i \in DOMAIN s : s[i] \in DOMAIN decBufs.buf
    BY PicturesAre
  <2>2. \A i \in DOMAIN s : pic(s[i]) = Num(t) - Len(s) + i - 1
    BY <1>13 DEF PicturesNumbered
  <2>3. Num(t) \in Nat /\ Num(t) > first BY <1>5, <1>6, <1>13
  <2>4. c.fdec \in DOMAIN decBufs.buf BY <1>1, PicturesAre
  <2>5. \A a, b \in DOMAIN decBufs.buf : pic(a) = pic(b) /\ pic(a) >= 0 => a = b
    BY DEF PicturesNumbered
  <2> HIDE DEF s, c, pic, first
  <2>6. ASSUME NEW i \in DOMAIN s, pic(s[i]) = first PROVE s[i] = c.fdec
    <3>1. pic(s[i]) = pic(c.fdec) BY <1>7, <2>6
    <3>2. pic(s[i]) >= 0 BY <1>12, <2>6
    <3> QED BY <2>1, <2>4, <2>5, <3>1, <3>2
  <2> QED BY <2>1, <2>2, <2>3, <2>6 DEF s
<1>14. ~out => ~whole(c.fdec)
  <2> SUFFICES ASSUME ~out PROVE ~whole(c.fdec) OBVIOUS
  <2>1. Finished(Oldest) BY <1>3 DEF JobsRun
  <2>2. c.row \in 0 .. Rows /\ c.nal = (c.row = Rows) /\ (c.failed => ~c.nal)
    BY <1>1, <1>2 DEF JobsRun
  <2>3. ~c.nal BY <2>1, <2>2 DEF Finished
  <2>4. c.row # Rows BY <2>2, <2>3, Zenon
  <2>5. c.row \in 0 .. (Rows - 1) BY <2>2, <2>4, LinesAreFinal
  <2>6. FinalLines(c.row) # AllLines
    <3> DEFINE k == c.row
    <3>1. k \in 0 .. (Rows - 1) BY <2>5
    <3> HIDE DEF k
    <3>2. FinalLines(k) # AllLines BY <3>1, OneRowMore
    <3> QED BY <3>2 DEF k
  <2>7. decBufs.buf[c.fdec].final = FinalLines(c.row) BY <1>1, <1>2 DEF LinesFinal
  <2> QED BY <2>6, <2>7
<1>15. ASSUME out, c.type = "IDR", NEW t \in Arg, InPipe(t), t # Oldest,
              NEW i \in DOMAIN ctx[t].ref
       PROVE  pic(ctx[t].ref[i]) >= first
  <2>1. Num(Oldest) < Num(t) BY <1>5, <1>6, <1>1, <1>15
  <2>2. \A b \in ToSet(ctx[t].ref) : pic(b) >= Num(Oldest)
    BY <1>1, <1>2, <1>15, <2>1 DEF PicturesNumbered
  <2>3. ctx[t].ref[i] \in ToSet(ctx[t].ref) BY DEF ToSet
  <2> QED BY <1>5, <2>2, <2>3
<1> DEFINE all == Append(dpb, first)
           cut == IF Len(all) > NumRefs THEN Tail(all) ELSE all
<1>16. /\ cut \in Seq(Int) /\ Len(cut) <= NumRefs /\ Len(cut) \in Nat /\ Len(cut) >= 1
       /\ cut[Len(cut)] = first
       /\ \A k \in 1 .. Len(dpb) : k + 1 <= NumRefs =>
            k + 1 <= Len(cut) /\ cut[Len(cut) - (k + 1) + 1] = dpb[Len(dpb) - k + 1]
  <2>1. first \in Int BY <1>12
  <2> HIDE DEF first
  <2> QED BY <1>8, <1>9, <2>1, Decoded
<1>17. out => dpb' = IF c.type = "IDR" THEN <<first>> ELSE cut BY <1>7, <1>10 DEF Decode
<1> HIDE DEF cut, all
<1>18. dpb' \in Seq(Int) /\ Len(dpb') <= NumRefs
  <2>1. CASE ~out BY <1>9, <1>10, <2>1
  <2>2. CASE out /\ c.type = "IDR"
    <3>1. dpb' = <<first>> BY <1>17, <2>2
    <3> HIDE DEF first, out, c
    <3> QED BY <1>8, <1>12, <3>1
  <2>3. CASE out /\ c.type # "IDR"
    <3>1. dpb' = cut BY <1>17, <2>3
    <3> QED BY <1>16, <3>1
  <2> QED BY <2>1, <2>2, <2>3
<1>19. ASSUME NEW t \in Arg, InPipe(t)' PROVE KeptBy(t)'
  <2> DEFINE s == ctx[t].ref
             q(i) == pic(s[i])
             w(i) == whole(s[i])
             L == Len(s)
  <2>1. InPipe(t) /\ t # Oldest BY <1>3, <1>19
  <2>2. /\ s \in Seq(Nat) /\ L \in 0 .. NumRefs /\ DOMAIN s = 1 .. L
        /\ \A i \in DOMAIN s : q(i) = Num(t) - L + i - 1
        /\ Num(t) \in Nat /\ Num(t) > first
        /\ \A i \in DOMAIN s : q(i) = first => s[i] = c.fdec
    BY <1>13, <2>1
  <2>3. \A i \in DOMAIN s :
          q(i) < first /\ (\A j \in i .. L : q(j) < first => w(j)) =>
            first - q(i) <= Len(dpb) /\ dpb[Len(dpb) - (first - q(i)) + 1] = q(i)
    BY <1>9, <2>1 DEF KeptBy
  <2>4. ~out => \A i \in DOMAIN s : q(i) = first => ~w(i) BY <1>14, <2>2
  <2>5. out /\ c.type = "IDR" => \A i \in DOMAIN s : q(i) >= first BY <1>15, <2>1
  <2>6. ctx'[t].ref = s BY <1>3 DEF SamePictures
  <2> HIDE DEF s, q, w, L, first, out, c
  <2>7. ASSUME NEW i \in DOMAIN s, q(i) < first + 1,
               \A j \in i .. L : q(j) < first + 1 => w(j)
        PROVE  /\ (first + 1) - q(i) <= Len(dpb')
               /\ dpb'[Len(dpb') - ((first + 1) - q(i)) + 1] = q(i)
    <3> DEFINE num == Num(t)
    <3>0. num \in Nat /\ num > first /\ L \in 0 .. NumRefs /\ i \in 1 .. L
          /\ \A k \in 1 .. L : q(k) = num - L + k - 1
      BY <2>2, <2>7
    <3> HIDE DEF num
    <3>1. q(i) \in Int /\ q(i) <= first /\ (first + 1) - q(i) <= NumRefs
      <4>1. L \in Nat /\ L <= NumRefs /\ i \in Int /\ i >= 1 BY <1>8, <3>0
      <4>2. q(i) = num - L + i - 1 BY <3>0
      <4>3. q(i) \in Int BY <3>0, <4>1, <4>2
      <4> QED BY <1>8, <1>12, <2>7, <3>0, <4>1, <4>2, <4>3
    <3>2. \A j \in i .. L : q(j) < first => w(j)
      <4> SUFFICES ASSUME NEW j \in i .. L, q(j) < first PROVE w(j) OBVIOUS
      <4>1. j \in 1 .. L BY <1>8, <3>0
      <4>2. q(j) = num - L + j - 1 BY <3>0, <4>1
      <4>3. q(j) \in Int
        <5>1. L \in Nat /\ j \in Int BY <1>8, <3>0
        <5> QED BY <3>0, <4>2, <5>1
      <4>4. q(j) < first + 1 BY <1>12, <4>3
      <4> QED BY <2>7, <4>4
    <3>3. out
      <4> SUFFICES ASSUME ~out PROVE FALSE OBVIOUS
      <4> DEFINE j == first - num + L + 1
      <4>1. j \in Int /\ j >= i /\ j <= L /\ j >= 1 /\ num - L + j - 1 = first
        <5>1. q(i) = num - L + i - 1 BY <3>0
        <5> QED BY <1>8, <1>12, <3>0, <3>1, <5>1
      <4> HIDE DEF j
      <4>2. j \in 1 .. L /\ j \in i .. L BY <1>8, <3>0, <4>1
      <4>3. q(j) = first BY <3>0, <4>1, <4>2
      <4>4. q(j) < first + 1 BY <1>12, <4>3
      <4>5. w(j) BY <2>7, <4>2, <4>4
      <4>6. j \in DOMAIN s BY <2>2, <4>2
      <4> QED BY <2>4, <4>3, <4>5, <4>6
    <3>4. CASE c.type = "IDR"
      <4>1. q(i) = first BY <1>12, <2>5, <3>1, <3>3, <3>4
      <4>2. dpb' = <<first>> BY <1>17, <3>3, <3>4
      <4>3. Len(dpb') = 1 /\ dpb'[1] = first BY <4>2
      <4>4. (first + 1) - q(i) = 1 /\ Len(dpb') - ((first + 1) - q(i)) + 1 = 1
        BY <1>12, <4>1, <4>3
      <4> QED BY <4>1, <4>3, <4>4
    <3>5. CASE c.type # "IDR"
      <4>1. dpb' = cut BY <1>17, <3>3, <3>5
      <4>2. CASE q(i) = first
        <5>1. (first + 1) - q(i) = 1 /\ Len(cut) - ((first + 1) - q(i)) + 1 = Len(cut)
          BY <1>12, <1>16, <4>2
        <5> QED BY <1>16, <4>1, <4>2, <5>1
      <4>3. CASE q(i) # first
        <5> DEFINE k == first - q(i)
        <5>1. k \in Int /\ k >= 1 /\ (first + 1) - q(i) = k + 1 /\ k + 1 <= NumRefs
              /\ q(i) < first
          BY <1>8, <1>12, <3>1, <4>3
        <5>2. k <= Len(dpb) /\ dpb[Len(dpb) - k + 1] = q(i) BY <2>3, <3>2, <5>1
        <5> HIDE DEF k
        <5>3. k \in 1 .. Len(dpb)
          <6>1. Len(dpb) \in Nat BY <1>9
          <6> QED BY <5>1, <5>2, <6>1
        <5>4. k + 1 <= Len(cut) /\ cut[Len(cut) - (k + 1) + 1] = dpb[Len(dpb) - k + 1]
          BY <1>16, <5>1, <5>3
        <5> QED BY <4>1, <5>1, <5>2, <5>4
      <4> QED BY <4>2, <4>3
    <3> QED BY <3>4, <3>5
  <2> DEFINE f == input' - Depth'
  <2>8. f = first + 1 BY <1>11 DEF first
  <2> HIDE DEF f
  <2>9. ASSUME NEW i \in DOMAIN s, q(i) < f, \A j \in i .. L : q(j) < f => w(j)
         PROVE  f - q(i) <= Len(dpb') /\ dpb'[Len(dpb') - (f - q(i)) + 1] = q(i)
    <3>1. q(i) < first + 1 BY <2>8, <2>9
    <3>2. \A j \in i .. L : q(j) < first + 1 => w(j) BY <2>8, <2>9
    <3>3. /\ (first + 1) - q(i) <= Len(dpb')
          /\ dpb'[Len(dpb') - ((first + 1) - q(i)) + 1] = q(i)
      BY <2>7, <3>1, <3>2
    <3>4. f - q(i) = (first + 1) - q(i) BY <2>8
    <3> QED BY <3>3, <3>4
  <2>10. \A j : decBufs'.buf[s[j]] = decBufs.buf[s[j]] BY <1>3
  <2> QED BY <2>6, <2>9, <2>10 DEF KeptBy, f, q, w, L
<1>20. \A t \in Arg : InPipe(t)' => KeptBy(t)' BY <1>19
<1> QED BY <1>18, <1>20, KeepsMeansAgain

\* A new encoder's decoder has nothing to keep.
OpenedDecoder == OpenedNumbers /\ dpb = <<>>

\* A decoder that has nothing has all that nobody needs.
LEMMA OpenedKeeps == OpenedDecoder => DecoderKeeps
<1> SUFFICES ASSUME OpenedNumbers, dpb = <<>> PROVE DecoderKeeps BY DEF OpenedDecoder
<1>1. \A t \in Arg : ~InPipe(t)
  <2> SUFFICES ASSUME NEW t \in Arg PROVE ~InPipe(t) OBVIOUS
  <2>1. call = "none" /\ ctx = NewCtx BY DEF OpenedNumbers, OpenedPictures
  <2>2. ctx[t].active = FALSE BY <2>1 DEF NewCtx, Context
  <2> QED BY <2>1, <2>2 DEF InPipe
<1>2. dpb \in Seq(Int) /\ Len(dpb) <= NumRefs BY FramesAssumption
<1> QED BY <1>1, <1>2, KeepsMeans

\* The same after x264_encoder_open.
LEMMA OpenedKeepsAgain == OpenedDecoder' => DecoderKeeps'
BY OpenedKeeps, PTL

\* Every step keeps what the decoder has of the references.
LEMMA DecoderKeepsKept ==
  ASSUME IInv, IInv', JobsRun, PicturesShared, SourcesCounted, PicturesNumbered, LinesFinal,
         DecoderKeeps, [Next]_vars
  PROVE  DecoderKeeps'
<1>1. ASSUME NEW cut \in BOOLEAN, Encode(cut) PROVE DecoderKeeps' BY <1>1, KeepsAnew
<1>2. CASE Reopen
  <2>1. OpenedNumbers' /\ dpb' = <<>> BY <1>2, OpenedAtLast
  <2>2. OpenedDecoder' BY <2>1 DEF OpenedDecoder
  <2> QED BY <2>2, OpenedKeepsAgain
<1>3. ASSUME NEW w \in Worker, NEW t \in Arg, JobStep(w, t) PROVE DecoderKeeps'
  BY <1>3, KeepsInJobs
<1>4. CASE CalmInside BY <1>4, KeepsInside
<1>5. CASE Calm /\ FrameEnd /\ call = "wait"
  <2>1. Calm BY <1>5
  <2>2. FrameEnd BY <1>5
  <2>3. call = "wait" BY <1>5
  <2> QED BY <2>1, <2>2, <2>3, KeepsOldest
<1> QED BY <1>1, <1>2, <1>3, <1>4, <1>5, CalmSteps

-----------------------------------------------------------------------------
(* The inductive invariant, and what follows from it.                      *)

\* There are no jobs at first.
LEMMA JobsAtFirst == Init => JobsRun
<1> SUFFICES ASSUME Init PROVE JobsRun OBVIOUS
<1>1. /\ call = "none" /\ ctx = NewCtx /\ failures = 0
      /\ run = <<>> /\ done = <<>> /\ caller = "out"
      /\ \A w \in Worker : wk[w] \notin {"work", "push"}
  BY DEF Init, PoolInit
<1>2. \A t \in Arg : ctx[t].active = FALSE /\ ctx[t].failed = FALSE
  BY <1>1 DEF NewCtx, Context
<1>3. \A t \in Arg : ~InPipe(t) BY <1>1, <1>2 DEF InPipe
<1>4. ToSet(run) = {} /\ ToSet(done) = {} BY <1>1 DEF ToSet
<1> QED BY <1>1, <1>2, <1>3, <1>4 DEF JobsRun

\* The invariant holds of a new encoder,
LEMMA FrameStart == Init => PicturesInv
<1> SUFFICES ASSUME Init PROVE PicturesInv OBVIOUS
<1>1. IInv BY Start
<1>2. JobsRun BY JobsAtFirst
<1>3. OpenedSources BY DEF Init, PoolInit, OpenedSources
<1>4. OpenedPictures BY DEF Init, OpenedPictures
<1>5. OpenedNumbers BY <1>4 DEF Init, OpenedNumbers
<1>6. OpenedDecoder BY <1>5 DEF Init, OpenedDecoder
<1> QED
  BY <1>1, <1>2, <1>3, <1>4, <1>5, <1>6, OpenedCounts, OpenedShares, OpenedIsNumbered,
     OpenedIsFinal, OpenedKeeps
  DEF PicturesInv

\* and every step keeps it.
LEMMA FrameStep ==
  ASSUME PicturesInv, [Next]_vars
  PROVE  PicturesInv'
<1>1. /\ IInv /\ PicturesShared /\ SourcesCounted /\ JobsRun
      /\ PicturesNumbered /\ LinesFinal /\ DecoderKeeps
  BY DEF PicturesInv
<1>2. IInv' BY <1>1, EveryStep
<1>3. JobsRun' BY <1>1, <1>2, JobsRunKept
<1>4. PicturesShared' BY <1>1, <1>2, PicturesSharedKept
<1>5. SourcesCounted' BY <1>1, <1>2, SourcesCountedKept
<1>6. PicturesNumbered' BY <1>1, <1>2, PicturesNumberedKept
<1>7. LinesFinal' BY <1>1, <1>2, <1>3, LinesFinalKept
<1>8. DecoderKeeps' BY <1>1, <1>2, DecoderKeepsKept
<1> QED BY <1>2, <1>3, <1>4, <1>5, <1>6, <1>7, <1>8 DEF PicturesInv

\* The references of a job in the pipe, as its list has them.
LEMMA ListIs ==
  ASSUME PicturesInv, NEW t \in Arg, InPipe(t)
  PROVE  LET s == ctx[t].ref
             r == ctx[t].fref
         IN /\ ctx[t].type # "P" => r = <<>>
            /\ ctx[t].type = "P" => /\ s # <<>> /\ DOMAIN r = 1 .. Len(s)
                                    /\ \A i \in 1 .. Len(s) :
                                         /\ Len(s) + 1 - i \in 1 .. Len(s)
                                         /\ r[i].buf = s[Len(s) + 1 - i]
                                         /\ r[i].pic = decBufs.buf[s[Len(s) + 1 - i]].pic
            /\ s \in Seq(Nat) /\ Len(s) \in Nat /\ DOMAIN s = 1 .. Len(s)
<1> DEFINE s == ctx[t].ref
           type == ctx[t].type
<1>1. ctx[t].fref = RefList(type, s, decBufs) /\ (type = "P" => s # <<>>)
  BY DEF PicturesInv, LinesFinal
<1>2. s \in Seq(Nat) /\ IsInjective(s) BY DEF PicturesInv, PicturesShared
<1> HIDE DEF s, type
<1> DEFINE r == RefList(type, s, decBufs)
<1>3. /\ type # "P" => r = <<>>
      /\ type = "P" => /\ DOMAIN r = 1 .. Len(s)
                       /\ \A i \in 1 .. Len(s) :
                            /\ Len(s) + 1 - i \in 1 .. Len(s)
                            /\ r[i].buf = s[Len(s) + 1 - i]
                            /\ r[i].pic = decBufs.buf[s[Len(s) + 1 - i]].pic
  BY <1>2, RefListIs
<1> HIDE DEF r
<1>4. ctx[t].fref = r BY <1>1 DEF r
<1>5. Len(s) \in Nat /\ DOMAIN s = 1 .. Len(s) BY <1>2
<1> QED BY <1>1, <1>2, <1>3, <1>4, <1>5 DEF s, type

\* From the invariant: what a job is about to read is there.
LEMMA RefsAreReady ==
  ASSUME PicturesInv
  PROVE  RefsReady
<1> SUFFICES ASSUME NEW w \in Worker, NEW t \in Arg, At(w, t, "code"),
                    NEW i \in DOMAIN ctx[t].fref
             PROVE  LET ref == ctx[t].fref[i]
                        b   == decBufs.buf[ref.buf]
                    IN b.pic = ref.pic /\ b.final > 16 * ctx[t].row + 15 + MvRangeThread
  BY DEF RefsReady
<1>1. wk[w] = "work" /\ cur[w] = t /\ ctx[t].at = "code" BY DEF At
<1>2. t \in Placed BY <1>1 DEF Placed, Busy
<1>3. InPipe(t)
  <2>1. OneJobEach BY DEF PicturesInv, IInv
  <2> QED BY <1>2, <2>1, PlacedInPipe
<1> DEFINE s == ctx[t].ref
           r == ctx[t].fref
           n == Len(s)
<1>4. /\ ctx[t].type # "P" => r = <<>>
      /\ ctx[t].type = "P" => /\ DOMAIN r = 1 .. n
                              /\ \A k \in 1 .. n :
                                   /\ n + 1 - k \in 1 .. n
                                   /\ r[k].buf = s[n + 1 - k]
                                   /\ r[k].pic = decBufs.buf[s[n + 1 - k]].pic
      /\ DOMAIN s = 1 .. n
  BY <1>3, ListIs
<1>5. i \in DOMAIN r OBVIOUS
<1>6. ctx[t].type = "P" => \A k \in DOMAIN s :
        decBufs.buf[s[k]].final > 16 * ctx[t].row + 15 + MvRangeThread
  BY <1>1, <1>3 DEF PicturesInv, LinesFinal
<1> HIDE DEF s, r, n
<1>7. ctx[t].type = "P"
  <2> SUFFICES ASSUME ctx[t].type # "P" PROVE FALSE OBVIOUS
  <2>1. r = <<>> BY <1>4
  <2>2. DOMAIN r = {} BY <2>1
  <2> QED BY <1>5, <2>2
<1>8. i \in 1 .. n BY <1>4, <1>5, <1>7
<1>9. /\ n + 1 - i \in DOMAIN s /\ r[i].buf = s[n + 1 - i]
      /\ r[i].pic = decBufs.buf[s[n + 1 - i]].pic
  BY <1>4, <1>7, <1>8
<1>10. decBufs.buf[s[n + 1 - i]].final > 16 * ctx[t].row + 15 + MvRangeThread
  BY <1>6, <1>7, <1>9
<1>11. /\ decBufs.buf[r[i].buf].pic = r[i].pic
       /\ decBufs.buf[r[i].buf].final > 16 * ctx[t].row + 15 + MvRangeThread
  BY <1>9, <1>10
<1> QED BY <1>11 DEF r

\* Sequences that agree where the shorter one is.
LEMMA PrefixIs ==
  ASSUME NEW s \in Seq(Int), NEW t \in Seq(Int), Len(s) <= Len(t),
         \A i \in 1 .. Len(s) : s[i] = t[i]
  PROVE  IsPrefix(s, t)
<1> DEFINE n == Len(s)
           a == SubSeq(s, 1, n)
           b == SubSeq(t, 1, n)
<1>1. n \in Nat /\ Len(t) \in Nat BY LenProperties
<1>2. \A i \in 1 .. n : s[i] \in Int OBVIOUS
<1>3. \A i \in 1 .. n : t[i] \in Int BY <1>2
<1> HIDE DEF n
<1>4. a \in Seq(Int) /\ Len(a) = n /\ \A i \in 1 .. n : a[i] = s[i]
  <2>1. /\ a \in Seq(Int) /\ Len(a) = (IF 1 <= n THEN n - 1 + 1 ELSE 0)
        /\ \A i \in 1 .. n - 1 + 1 : a[i] = s[1 + i - 1]
    BY <1>1, <1>2, SubSeqProperties
  <2> HIDE DEF a
  <2> QED BY <1>1, <2>1
<1>5. b \in Seq(Int) /\ Len(b) = n /\ \A i \in 1 .. n : b[i] = t[i]
  <2>1. /\ b \in Seq(Int) /\ Len(b) = (IF 1 <= n THEN n - 1 + 1 ELSE 0)
        /\ \A i \in 1 .. n - 1 + 1 : b[i] = t[1 + i - 1]
    BY <1>1, <1>3, SubSeqProperties
  <2> HIDE DEF b
  <2> QED BY <1>1, <2>1
<1>6. \A i \in 1 .. n : s[i] = t[i] BY DEF n
<1> HIDE DEF a, b
<1>7. a = b BY <1>4, <1>5, <1>6, SeqEqual
<1> QED BY <1>7 DEF IsPrefix, a, b, n

\* The latest picture first.
LEMMA LatestFirst ==
  ASSUME NEW s \in Seq(Int)
  PROVE  /\ Reverse(s) \in Seq(Int) /\ Len(Reverse(s)) = Len(s) /\ Len(s) \in Nat
         /\ \A i \in 1 .. Len(s) : Reverse(s)[i] = s[Len(s) - i + 1]
<1> DEFINE n == Len(s)
           r == [i \in 1 .. n |-> s[(n - i) + 1]]
<1>1. n \in Nat /\ \A i \in 1 .. n : s[i] \in Int BY LenProperties
<1> HIDE DEF n
<1>2. \A i \in 1 .. n : (n - i) + 1 \in 1 .. n BY <1>1
<1>3. r \in [1 .. n -> Int] BY <1>1, <1>2
<1>4. r \in Seq(Int) /\ Len(r) = n BY <1>1, <1>3
<1>5. \A i \in 1 .. n : r[i] = s[(n - i) + 1] OBVIOUS
<1>6. Reverse(s) = r BY DEF Reverse, n
<1> HIDE DEF r
<1> QED BY <1>1, <1>4, <1>5, <1>6 DEF n

\* Only x264_encoder_frame_end gives out a picture.
LEMMA OthersSendNothing ==
  ASSUME IInv, [Next]_vars, sent' # sent, sent' # NoPicture
  PROVE  FrameEnd
<1>1. ASSUME NEW cut \in BOOLEAN, Encode(cut) PROVE sent' = sent BY <1>1, Zenon DEF Encode
<1>2. CASE Queue BY <1>2 DEF Queue
<1>3. CASE WaitOldest BY <1>3 DEF WaitOldest
<1>4. CASE Waiting BY <1>4 DEF Waiting, frameVars
<1>5. CASE BeginClose BY <1>5 DEF BeginClose
<1>6. CASE Flush BY <1>6 DEF Flush
<1>7. CASE DeletePool BY <1>7 DEF DeletePool
<1>8. CASE JoinPool BY <1>8 DEF JoinPool, frameVars
<1>9. CASE Reopen BY <1>9 DEF Reopen
<1>10. ASSUME NEW w \in Worker, PoolThread(w) PROVE sent' = sent
  BY <1>10 DEF PoolThread, frameVars
<1>11. ASSUME NEW w \in Worker, NEW t \in Arg,
              Await(w, t) \/ CodeRow(w, t) \/ Publish(w, t) \/ Fail(w, t)
       PROVE  sent' = sent
  BY <1>11, JobMoves
<1>12. CASE UNCHANGED vars BY <1>12 DEF vars, frameVars
<1> QED BY <1>1, <1>2, <1>3, <1>4, <1>5, <1>6, <1>7, <1>8, <1>9, <1>10, <1>11, <1>12 DEF Next

\* The picture that comes out is whole, and so are its references: the decoder
\* has kept them, and its latest are these.
LEMMA SentHasRefs ==
  ASSUME PicturesInv, [Next]_vars, sent' # sent, sent' # NoPicture
  PROVE  /\ sent'.pic = sent'.source
         /\ sent'.refs # <<>> \/ sent'.type # "P"
         /\ IsPrefix(sent'.refs, Reverse(dpb))
<1> DEFINE c == ctx[Oldest]
           s == c.ref
           r == c.fref
           n == Len(s)
           first == input - Depth
           pic(b) == decBufs.buf[b].pic
           whole(b) == decBufs.buf[b].final = AllLines
           refs == [i \in DOMAIN r |-> r[i].pic]
<1>1. /\ IInv /\ PicturesShared /\ SourcesCounted /\ JobsRun
      /\ PicturesNumbered /\ LinesFinal /\ DecoderKeeps
  BY DEF PicturesInv
<1>2. FrameEnd BY <1>1, OthersSendNothing
<1>3. call = "wait" BY <1>1, <1>2, FrameEndMoves
<1>4. phase \in Arg /\ Oldest \in Arg BY <1>1, Ages DEF IInv, TypeOK
<1>5. InPipe(Oldest) BY <1>3 DEF InPipe
<1>6. ~(c.failed \/ ~c.nal) /\ Output(c)
  BY <1>2 DEF FrameEnd
<1>7. c.nal BY <1>6
<1>8. /\ sent'.pic = pic(c.fdec) /\ sent'.source = Num(Oldest) /\ sent'.type = c.type
      /\ sent'.refs = refs
  BY <1>6 DEF Output, Num
<1>9. pic(c.fdec) = Num(Oldest) BY <1>1, <1>4, <1>5 DEF PicturesNumbered
<1>10. Num(Oldest) = first /\ Depth > 0 BY <1>1, <1>5, OldestFirst
<1>11. first \in Int
  <2>1. /\ input \in Nat /\ Depth \in 0 .. Threads /\ Threads \in Nat BY <1>1, NumsDiffer
  <2> QED BY <2>1
<1>12. /\ c.type # "P" => r = <<>>
       /\ c.type = "P" => /\ s # <<>> /\ DOMAIN r = 1 .. n
                          /\ \A i \in 1 .. n :
                               /\ n + 1 - i \in 1 .. n
                               /\ r[i].buf = s[n + 1 - i]
                               /\ r[i].pic = pic(s[n + 1 - i])
       /\ s \in Seq(Nat) /\ n \in Nat /\ DOMAIN s = 1 .. n
  BY <1>4, <1>5, ListIs
<1>13. \A i \in DOMAIN s : pic(s[i]) = first - n + i - 1
  <2>1. \A i \in DOMAIN s : pic(s[i]) = Num(Oldest) - n + i - 1
    BY <1>1, <1>4, <1>5 DEF PicturesNumbered
  <2> QED BY <1>10, <2>1
<1>14. c.type = "P" => \A i \in DOMAIN s : whole(s[i])
  BY <1>1, <1>4, <1>5, <1>7 DEF LinesFinal
<1>15. \A i \in DOMAIN s :
         pic(s[i]) < first /\ (\A j \in i .. n : pic(s[j]) < first => whole(s[j])) =>
           first - pic(s[i]) <= Len(dpb) /\ dpb[Len(dpb) - (first - pic(s[i])) + 1] = pic(s[i])
  <2>1. KeptBy(Oldest) BY <1>1, <1>4, <1>5, KeepsMeans
  <2> QED BY <2>1 DEF KeptBy
<1>16. dpb \in Seq(Int) BY <1>1 DEF DecoderKeeps
<1>17. /\ Reverse(dpb) \in Seq(Int) /\ Len(Reverse(dpb)) = Len(dpb) /\ Len(dpb) \in Nat
       /\ \A i \in 1 .. Len(dpb) : Reverse(dpb)[i] = dpb[Len(dpb) - i + 1]
  BY <1>16, LatestFirst
<1>18. s # <<>> => n # 0 BY <1>12
<1>19. refs = [i \in DOMAIN r |-> r[i].pic] OBVIOUS
<1> HIDE DEF s, r, n, first, pic, whole, refs
<1>20. CASE c.type # "P"
  <2>1. r = <<>> BY <1>12, <1>20
  <2>2. refs = [i \in 1 .. 0 |-> r[i].pic] BY <1>19, <2>1
  <2>3. refs \in Seq(Int) /\ Len(refs) = 0 BY <2>2
  <2>4. Len(refs) <= Len(Reverse(dpb)) /\ \A i \in 1 .. Len(refs) : refs[i] = Reverse(dpb)[i]
    BY <1>17, <2>3
  <2>5. IsPrefix(refs, Reverse(dpb))
    <3> DEFINE d == Reverse(dpb)
    <3>1. d \in Seq(Int) BY <1>17
    <3> HIDE DEF d
    <3>2. Len(refs) <= Len(d) /\ \A i \in 1 .. Len(refs) : refs[i] = d[i] BY <2>4 DEF d
    <3>3. IsPrefix(refs, d) BY <2>3, <3>1, <3>2, PrefixIs
    <3> QED BY <3>3 DEF d
  <2> QED BY <1>8, <1>9, <1>20, <2>5
<1>21. CASE c.type = "P"
  <2>1. \A i \in 1 .. n : /\ n + 1 - i \in 1 .. n /\ r[i].pic = pic(s[n + 1 - i])
    BY <1>12, <1>21
  <2>2. \A i \in 1 .. n : /\ r[i].pic = first - i /\ r[i].pic \in Int
    <3> SUFFICES ASSUME NEW i \in 1 .. n PROVE r[i].pic = first - i /\ r[i].pic \in Int
      OBVIOUS
    <3> DEFINE k == n + 1 - i
    <3>1. k \in 1 .. n /\ r[i].pic = pic(s[k]) BY <2>1
    <3>2. pic(s[k]) = first - n + k - 1 BY <1>12, <1>13, <3>1
    <3>3. first - n + k - 1 = first - i BY <1>11, <1>12
    <3> QED BY <1>11, <3>1, <3>2, <3>3
  <2>3. refs = [i \in 1 .. n |-> r[i].pic] BY <1>12, <1>19, <1>21
  <2>4. refs \in [1 .. n -> Int] BY <2>2, <2>3
  <2>5. refs \in Seq(Int) /\ Len(refs) = n BY <1>12, <2>4
  <2>6. \A i \in 1 .. n : refs[i] = first - i BY <2>2, <2>3
  <2>7. \A i \in 1 .. n : i <= Len(dpb) /\ dpb[Len(dpb) - i + 1] = first - i
    <3> SUFFICES ASSUME NEW i \in 1 .. n
                 PROVE  i <= Len(dpb) /\ dpb[Len(dpb) - i + 1] = first - i
      OBVIOUS
    <3> DEFINE k == n + 1 - i
               q == pic(s[k])
    <3>1. k \in DOMAIN s /\ k \in 1 .. n BY <1>12, <2>1
    <3>2. q = first - i BY <2>1, <2>2
    <3>3. \A j \in k .. n : whole(s[j]) BY <1>12, <1>14, <1>21, <3>1
    <3> HIDE DEF k
    <3>4. q < first BY <1>11, <3>2
    <3>5. first - q <= Len(dpb) /\ dpb[Len(dpb) - (first - q) + 1] = q
      BY <1>15, <3>1, <3>3, <3>4
    <3>6. first - q = i BY <1>11, <3>2
    <3> HIDE DEF q
    <3> QED BY <3>2, <3>5, <3>6
  <2>8. n # 0 BY <1>12, <1>18, <1>21
  <2>9. n \in 1 .. n BY <1>12, <2>8
  <2>10. Len(refs) <= Len(Reverse(dpb)) BY <1>17, <2>5, <2>7, <2>9
  <2>11. \A i \in 1 .. Len(refs) : refs[i] = Reverse(dpb)[i]
    <3> SUFFICES ASSUME NEW i \in 1 .. n PROVE refs[i] = Reverse(dpb)[i] BY <2>5
    <3>1. i \in 1 .. Len(dpb) BY <1>12, <1>17, <2>7
    <3>2. Reverse(dpb)[i] = dpb[Len(dpb) - i + 1] BY <1>17, <3>1
    <3> QED BY <2>6, <2>7, <3>2
  <2>12. IsPrefix(refs, Reverse(dpb)) BY <1>17, <2>5, <2>10, <2>11, PrefixIs
  <2>13. refs # <<>> BY <2>5, <2>8
  <2> QED BY <1>8, <1>9, <2>12, <2>13
<1> QED BY <1>20, <1>21

-----------------------------------------------------------------------------
(* The theorems.                                                           *)

\* Reconstructed pictures are shared and counted, source pictures come back,
\* jobs are where their lists say, pictures are numbered as they went in, lines
\* are published after they are final and the decoder keeps what it needs.
THEOREM PicturesInvariance == Spec => []PicturesInv
<1>1. PicturesInv /\ [Next]_vars => PicturesInv' BY FrameStep
<1> QED BY <1>1, FrameStart, PTL DEF Spec

\* The reference counts of x264_encoder_encode are right for any number of
\* threads and references, and its lists never overflow.
THEOREM CountsAlwaysHold == Spec => []CountsHold
<1>1. PicturesInv => CountsHold BY CountsAreHeld DEF PicturesInv
<1> QED BY <1>1, PicturesInvariance, PTL

\* What a job looks at is there and final, for any picture height and any
\* range of motion vectors.
THEOREM RefsAlwaysReady == Spec => []RefsReady
<1>1. PicturesInv => RefsReady BY RefsAreReady
<1> QED BY <1>1, PicturesInvariance, PTL

\* What comes out can be decoded, whatever jobs fail.
THEOREM DecoderAlwaysHasRefs == Spec => DecoderHasRefs
<1>1. PicturesInv /\ [Next]_vars =>
        [sent' # sent /\ sent' # NoPicture =>
          /\ sent'.pic = sent'.source
          /\ sent'.refs # <<>> \/ sent'.type # "P"
          /\ IsPrefix(sent'.refs, Reverse(dpb))]_vars
  BY SentHasRefs
<1> QED BY <1>1, PicturesInvariance, PTL DEF Spec, DecoderHasRefs

=============================================================================
