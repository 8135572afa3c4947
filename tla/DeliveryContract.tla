--------------------------- MODULE DeliveryContract ---------------------------
(***************************************************************************)
(* What the Worker promises about each proposal, whatever crashes and      *)
(* whatever writes fail (docs/architecture.md, "Send state machine";       *)
(* SECURITY.md, "Ambiguous outcomes").  `stage` is what the       *)
(* outbox on disk says, `handed` what the mail servers have seen.          *)
(*                                                                         *)
(*   - nothing begins before a human authorised it;                        *)
(*   - the effect happens while the stage is "begun", so the disk says so  *)
(*     before the mail server is involved;                                 *)
(*   - the effect happens at most once;                                    *)
(*   - verdicts are truthful and final.                                    *)
(*                                                                         *)
(* Every step is stated proposal by proposal because one write of the      *)
(* outbox may publish a change of several proposals.                       *)
(***************************************************************************)
EXTENDS Naturals

CONSTANT Ids         \* proposals

VARIABLES stage,       \* stage of each proposal in the outbox on disk
          authorised,  \* proposals that a human approved
          handed       \* times the mail server carried the proposal out

vars == <<stage, authorised, handed>>

Init ==
  /\ stage = [p \in Ids |-> "none"]
  /\ authorised = {}
  /\ handed = [p \in Ids |-> 0]

Keep(p) == stage'[p] = stage[p] /\ handed'[p] = handed[p]

Open(p) ==
  stage[p] = "none" /\ stage'[p] = "open" /\ handed'[p] = handed[p]

Close(p) ==
  stage[p] \in {"none", "open"} /\ stage'[p] = "closed" /\ handed'[p] = handed[p]

Begin(p) ==
  /\ stage[p] \in {"none", "open"}
  /\ p \in authorised
  /\ stage'[p] = "begun"
  /\ handed'[p] = handed[p]

Hand(p) ==
  /\ stage[p] = "begun"
  /\ handed[p] = 0
  /\ handed'[p] = 1
  /\ stage'[p] = "begun"

(* "failed" says that nothing was sent; "incomplete", a failed move, that  *)
(* some message of the batch was not moved and leaves the others open.     *)
Settle(p) ==
  /\ stage[p] = "begun"
  /\ \/ stage'[p] = "sent" /\ handed[p] = 1
     \/ stage'[p] = "failed" /\ handed[p] = 0
     \/ stage'[p] \in {"incomplete", "uncertain"}
  /\ handed'[p] = handed[p]

Next ==
  /\ authorised \subseteq authorised'
  /\ \A p \in Ids :
       Keep(p) \/ Open(p) \/ Close(p) \/ Begin(p) \/ Hand(p) \/ Settle(p)

Spec == Init /\ [][Next]_vars
=============================================================================
