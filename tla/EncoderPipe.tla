---------------------------- MODULE EncoderPipe ----------------------------
(***************************************************************************)
(* What an encoder with frame threads promises to the code that calls it:  *)
(* a pipe.  Pictures are numbered as they are put in, they come out in     *)
(* that order, each at most once, a call that puts one in takes out the    *)
(* one that went in Depth - 1 calls before, and before the encoder is      *)
(* closed the pipe is emptied.  A picture whose job failed is taken out    *)
(* without coming out.                                                     *)
(***************************************************************************)
EXTENDS Naturals, Sequences

CONSTANT Depth  \* the number of threads

VARIABLES
  inside,  \* the pictures in the pipe, the oldest first
  input,   \* how many pictures have been put in
  last,    \* the number of the last picture that came out, plus one
  open     \* the encoder is open and nobody is closing it

pipeVars == <<inside, input, last, open>>

PipeInit == inside = <<>> /\ input = 0 /\ last = 0 /\ open = TRUE

PutIn ==
  /\ open /\ Len(inside) < Depth
  /\ inside' = Append(inside, input)
  /\ input' = input + 1
  /\ UNCHANGED <<last, open>>

TakeOut ==
  /\ inside # <<>>
  /\ open => Len(inside) = Depth
  /\ inside' = Tail(inside)
  /\ last' \in {Head(inside) + 1, last}
  /\ UNCHANGED <<input, open>>

BeginClose == open /\ open' = FALSE /\ UNCHANGED <<inside, input, last>>

Reopen ==
  /\ ~open /\ inside = <<>>
  /\ open' = TRUE
  /\ input' = 0 /\ last' = 0
  /\ UNCHANGED inside

PipeSpec == PipeInit /\ [][PutIn \/ TakeOut \/ BeginClose \/ Reopen]_pipeVars

=============================================================================
