---------------------------- MODULE MCApprovalWait ----------------------------
(* A small instance of ApprovalWait for TLC.  No symmetry: the run checks  *)
(* liveness.                                                               *)
EXTENDS ApprovalWait

CONSTANTS p1, p2, k1
=============================================================================
