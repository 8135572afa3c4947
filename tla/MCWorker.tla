------------------------------- MODULE MCWorker -------------------------------
(* Small instances of Worker for TLC.                                      *)
EXTENDS Worker, TLC

CONSTANTS k1, b1, b2

SendIn(lead) == [kind |-> "send", delay |-> lead, key |-> k1, batch |-> b1]
MoveOf(b) == [kind |-> "move", delay |-> NoTime, key |-> k1, batch |-> b]

(* One of each kind.                                                       *)
MixedDrafts == {SendIn(1), MoveOf(b1)}

Symmetry == Permutations(Ids)
=============================================================================
