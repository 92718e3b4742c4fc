---------------------------- MODULE MCStudioLogs ----------------------------
(* StudioLogs with two cards on which file 1 has the same size and file 2   *)
(* has not.                                                                  *)
EXTENDS StudioLogs, TLC

CONSTANTS left, shown

MCSizeOf == "a" :> <<1, 1>> @@ "b" :> <<1, 2>>
MCSizeOf1 == "a" :> <<1>> @@ "b" :> <<1>>
MCViews == {left, shown}
MCSymmetry == Permutations(MCViews)
MCCards == {"a", "b"}
=============================================================================
