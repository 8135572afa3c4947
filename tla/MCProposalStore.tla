--------------------------- MODULE MCProposalStore ---------------------------
(* Small instances of ProposalStore for TLC.                               *)
EXTENDS ProposalStore, TLC

CONSTANTS k1, b1, b2

Send(lead) == [kind |-> "send", delay |-> lead, key |-> k1, batch |-> b1]
Move(k, b) == [kind |-> "move", delay |-> NoTime, key |-> k, batch |-> b]

(* One key asked for with two batches, and a send due one tick later.      *)
MCDrafts == {Send(1), Move(k1, b1), Move(k1, b2)}

Symmetry == Permutations(Ids)
=============================================================================
