---------------------------- MODULE RingRequests ----------------------------
(***************************************************************************)
(* What the ring player promises to its callers: play and stop requests    *)
(* return at once and take effect later, one at a time, in the order in    *)
(* which they were made.  A request to play may fail to load its sound,    *)
(* and then what was sounding goes on sounding.                            *)
(*                                                                         *)
(* The module is abstract: it has neither threads nor locks.  AsyncPlayer  *)
(* is the code's way of keeping this promise.                              *)
(***************************************************************************)
EXTENDS Sequences

CONSTANTS
  Uri,       \* the sounds that can be asked for
  NoPlayer   \* nothing is sounding

VARIABLES
  pending,   \* requests that have not taken effect yet, oldest first
  wanted,    \* whether the newest request asked for a sound
  sounding   \* the sound being played

vars == <<pending, wanted, sounding>>

PlayCmd(u) == [code |-> "PLAY", uri |-> u]
StopCmd    == [code |-> "STOP", uri |-> NoPlayer]
Command    == {PlayCmd(u) : u \in Uri} \cup {StopCmd}

Init ==
  /\ pending  = <<>>
  /\ wanted   = FALSE
  /\ sounding = NoPlayer

RequestPlay(u) ==
  /\ pending' = Append(pending, PlayCmd(u))
  /\ wanted'  = TRUE
  /\ UNCHANGED sounding

\* A stop that follows a stop is not recorded.
RequestStop ==
  /\ wanted
  /\ pending' = Append(pending, StopCmd)
  /\ wanted'  = FALSE
  /\ UNCHANGED sounding

\* The oldest request takes effect.
TakeEffect ==
  /\ pending # <<>>
  /\ pending' = Tail(pending)
  /\ IF Head(pending).code = "PLAY"
     THEN sounding' \in {Head(pending).uri, sounding}
     ELSE sounding' = NoPlayer
  /\ UNCHANGED wanted

Next ==
  \/ \E u \in Uri : RequestPlay(u)
  \/ RequestStop
  \/ TakeEffect

Spec == Init /\ [][Next]_vars

=============================================================================
