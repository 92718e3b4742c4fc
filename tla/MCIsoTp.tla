------------------------------ MODULE MCIsoTp ------------------------------
(* Model-checking instance of IsoTp: SF up to 2 bytes, 1 byte in the FF, 2 *)
(* in a CF, sequence numbers modulo 3.  Lengths 0 .. 9 meet the empty      *)
(* message, the SF/FF boundary, a full and a partial last CF, the wrap     *)
(* (four CFs) and the limit (9 is refused).                                *)
EXTENDS IsoTp

MCLengths == 0 .. 9

============================================================================
