---------------------------- MODULE MCLogfsPull ----------------------------
(* Model-checking instances of LogfsPull: chunks of two bytes; files that  *)
(* are empty, end on a chunk boundary and inside a chunk.                  *)
EXTENDS LogfsPull

ShortFiles == {0, 3, 4}

============================================================================
