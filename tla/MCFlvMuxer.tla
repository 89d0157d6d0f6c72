----------------------------- MODULE MCFlvMuxer -----------------------------
(***************************************************************************)
(* The instances of FlvMuxer.  All but one run take its Spec as it is.     *)
(*                                                                         *)
(* What three streams do to each other takes some fifty steps, too many    *)
(* for a search of all behaviours.  GuidedSpec is Spec with a part of its  *)
(* users, servers and schedules only, so every behaviour of it is one of   *)
(* Spec: nothing is encoded before the third stream, no connection breaks, *)
(* the first handshake fails and no other one, the thread of the first     *)
(* stop is slow in reset until the second stream waits for its server to   *)
(* permit it, and the third stream begins when the thread of the second    *)
(* stop is through.                                                        *)
(***************************************************************************)
EXTENDS FlvMuxer

SilentAtFirst == starts < 3 => taken' = 0

NothingBreaks == \A c \in Conn : tcp[c] = "open" => tcp'[c] = "open" \/ down' # down

FirstRefused ==
  call = "handshake" /\ call' # call => (call' = "failed" <=> starts = 1)

FirstStopSlow ==
  down[1].at = "reset" /\ down'[1].at # "reset" =>
    starts = 2 /\ call = "waitPublish" /\ asked[2] = "publish"

SecondStopFast == starts = 3 => down[2].at = "none"

Guide ==
  /\ SilentAtFirst
  /\ NothingBreaks
  /\ FirstRefused
  /\ FirstStopSlow
  /\ SecondStopFast
  /\ ~destroyed'

GuidedSpec == Init /\ [][Next /\ Guide]_vars

=============================================================================
