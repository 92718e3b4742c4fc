---------------------------- MODULE MCBootEntry ----------------------------
(* BootEntry with the three boards of the payload table and a fourth whose  *)
(* application the host knows no trigger of, and the intervals of the code.   *)
(* With two frames lost a board may take 2 s to reset; the code's comment   *)
(* counts on well under one.                                                *)
EXTENDS BootEntry, TLC

MCNodes == {"ecu", "ams", "udv", "other"}
MCKnown == {"ecu", "ams", "udv"}
MCPayloadOf ==
  "ecu" :> "AD12" @@ "ams" :> "AD11" @@ "udv" :> "AD13" @@ "other" :> "own"
MCBootTimes == {100, 2000}
=============================================================================
