--------------------------- MODULE MCFrameThreads ---------------------------
(***************************************************************************)
(* Three threads and pictures three rows high: a job's first row waits for *)
(* two rows of the picture before, so the three jobs overlap and every     *)
(* one of them can be held up by the one before.                           *)
(***************************************************************************)
EXTENDS FrameThreads

MCArg == 0 .. 2

=============================================================================
