----------------------------- MODULE MCDemoApp -----------------------------
(* DemoApp with the frames a bench bus carries: the request by unicast and  *)
(* broadcast, an application command of one byte and one the demo does not  *)
(* know, the bootloader's CONNECT, a first frame, another node's reply, and *)
(* traffic of other devices, on a 29-bit identifier and on one with the     *)
(* low five bits of this node; among them frames shorter than the two bytes *)
(* or three a request takes, down to none.                                  *)
EXTENDS DemoApp

Std(id, bytes) == [id |-> id, ext |-> FALSE, bytes |-> bytes]

MCFrames ==
  { Std(1, <<3, 6, 1>>), Std(15, <<2, 6, 1>>),
    Std(1, <<>>), Std(33, <<2>>), Std(1, <<1, 6>>), Std(1, <<1, 6, 1>>),
    Std(15, <<2, 6, 9>>), Std(1, <<2, 1, 1>>), Std(1, <<16, 6, 1>>), Std(17, <<2, 6, 1>>),
    [id |-> 1, ext |-> TRUE, bytes |-> <<2, 6, 1>>],
    Std(33, <<9, 9, 9>>) }

MCJunk == {<<0, 0, 0>>, <<2, 6, 1>>}
=============================================================================
