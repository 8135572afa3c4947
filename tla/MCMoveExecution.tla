---------------------------- MODULE MCMoveExecution ----------------------------
(* Small instances of MoveExecution for TLC.                               *)
EXTENDS MoveExecution, TLC

CONSTANTS m1, m2, m3, Inbox, Archive, id1, id3, h1, h2, h3

(* Messages with a Message-ID, without one, and with headers that the      *)
(* outbox cannot hold.                                                     *)
MCMessageId == m1 :> id1 @@ m2 :> NoId @@ m3 :> id3
MCHeaders == m1 :> h1 @@ m2 :> h2 @@ m3 :> h3
MCStorable == {m1, m2}

ToArchive(u) == [src |-> Inbox, uid |-> u, dst |-> Archive]

(* A batch of one and a batch of two; restores add the other direction.    *)
MCMoveRequests == {<<ToArchive(1)>>, <<ToArchive(1), ToArchive(2)>>}

Symmetry == Permutations(Batches)
=============================================================================
