--------------------------- MODULE MCAsyncPlayer ----------------------------
(* A small instance of AsyncPlayer for TLC.                                *)
EXTENDS AsyncPlayer
=============================================================================
