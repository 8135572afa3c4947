------------------------------ MODULE ProposalLife ------------------------------
(***************************************************************************)
(* The life of a proposal as everyone but the scheduler sees it (the send  *)
(* and move state machines of docs/architecture.md, whose code is          *)
(* src/worker/store.ts): created, decided once, carried out or not.        *)
(* "approved" stands for scheduled too, "carried" for sending and after.   *)
(*                                                                         *)
(* ApprovalGate is built on this module; Worker is shown to implement it   *)
(* while writes of outbox.json succeed.                                    *)
(***************************************************************************)

CONSTANT Ids      \* proposal ids

VARIABLE status   \* where each proposal stands

Statuses ==
  {"absent", "pending_approval", "approved", "carried", "cancelled", "expired"}

CanBecome(from, to) ==
  \/ from = "pending_approval" /\ to \in {"approved", "cancelled", "expired"}
  \/ from = "approved" /\ to \in {"carried", "cancelled"}

LifeInit == status = [p \in Ids |-> "absent"]

Born(p) == status[p] = "absent" /\ status'[p] = "pending_approval"

(* One write of the outbox may publish steps of several proposals: all     *)
(* whose windows have closed expire with whatever else is written.         *)
LifeNext ==
  \A p \in Ids : status'[p] = status[p] \/ Born(p) \/ CanBecome(status[p], status'[p])

LifeSpec == LifeInit /\ [][LifeNext]_status
=============================================================================
