---------------------------- MODULE MCIsolation ----------------------------
(* Isolation on a small instance.  Six frames are more than the queue, the  *)
(* reader and the pipe hold together (2 + 1 + 2), so every buffer fills up  *)
(* and the helper blocks; the values are in the .cfg files.                 *)
EXTENDS Isolation
=============================================================================
