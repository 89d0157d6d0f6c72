--------------------------- MODULE MCSoftEncoder ---------------------------
(***************************************************************************)
(* Two sessions, an encoder that holds one picture back, two rotations or  *)
(* changes of the camera at any time, and two threads, so that a worker    *)
(* that has not ended could meet the next one.                             *)
(***************************************************************************)
EXTENDS SoftEncoder

=============================================================================
