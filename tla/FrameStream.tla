---------------------------- MODULE FrameStream ----------------------------
(***************************************************************************)
(* What a receiver of CAN frames is promised when the source of the frames *)
(* lives in another process: the frames arrive in the order in which the   *)
(* source wrote them, none is lost or doubled, and "disconnected" is       *)
(* reported only once the source is dead and everything it wrote in full   *)
(* has been handed over, and nothing is handed over after it.              *)
(***************************************************************************)
EXTENDS Naturals, Sequences

CONSTANT Frame

VARIABLES
  sent,      \* the frames the source wrote in full
  got,       \* the frames handed to the receiver
  alive,     \* whether the source is
  ended      \* whether the receiver was told "disconnected"

vars == <<sent, got, alive, ended>>

Init ==
  /\ sent = <<>>
  /\ got = <<>>
  /\ alive = TRUE
  /\ ended = FALSE

Write ==
  /\ alive
  /\ \E f \in Frame : sent' = Append(sent, f)
  /\ UNCHANGED <<got, alive, ended>>

Die ==
  /\ alive
  /\ alive' = FALSE
  /\ UNCHANGED <<sent, got, ended>>

Deliver ==
  /\ ~ended
  /\ Len(got) < Len(sent)
  /\ got' = Append(got, sent[Len(got) + 1])
  /\ UNCHANGED <<sent, alive, ended>>

End ==
  /\ ~alive
  /\ got = sent
  /\ ended' = TRUE
  /\ UNCHANGED <<sent, got, alive>>

Next == Write \/ Die \/ Deliver \/ End

Spec == Init /\ [][Next]_vars
=============================================================================
