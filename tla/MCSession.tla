---------------------------- MODULE MCSession ----------------------------
(* Model-checking instance of Session: callers are interchangeable.       *)
EXTENDS Session, TLC

CallerSymmetry == Permutations(Callers)

==========================================================================
