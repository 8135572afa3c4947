----------------------------- MODULE ContractProofs -----------------------------
(***************************************************************************)
(* What DeliveryContract's steps amount to, for any set of proposals: the  *)
(* promises themselves, which every module that implements it inherits.    *)
(***************************************************************************)
EXTENDS DeliveryContract, TLAPS

(* The stages from which nothing is done any more.                         *)
Final == {"closed", "sent", "failed", "incomplete", "uncertain"}

Kept(p) ==
  /\ stage[p] \in {"none", "open", "begun"} \cup Final
  /\ handed[p] \in {0, 1}
  /\ handed[p] = 1 => stage[p] \in {"begun", "sent", "incomplete", "uncertain"}
  /\ stage[p] = "sent" => handed[p] = 1
  /\ stage[p] \notin {"none", "open", "closed"} => p \in authorised

(* Nothing is carried out twice, without authorisation, or before the      *)
(* outbox says that it is being carried out; what the outbox says          *)
(* happened did, and what it says did not happen did not.                  *)
Promises == \A p \in Ids : Kept(p)

LEMMA StepKeeps ==
  ASSUME NEW p \in Ids, Kept(p), authorised \subseteq authorised',
         Keep(p) \/ Open(p) \/ Close(p) \/ Begin(p) \/ Hand(p) \/ Settle(p)
  PROVE  Kept(p)'
BY DEF Kept, Final, Keep, Open, Close, Begin, Hand, Settle

(* Whatever implements the contract keeps its promises.                    *)
THEOREM PromisesKept == Spec => []Promises
<1>1. Init => Promises
  <2> SUFFICES ASSUME Init, NEW p \in Ids PROVE Kept(p)
    BY DEF Promises
  <2>1. stage[p] = "none" /\ handed[p] = 0
    BY DEF Init
  <2> QED BY <2>1 DEF Kept
<1>2. Promises /\ [Next]_vars => Promises'
  <2>1. ASSUME Promises, Next PROVE Promises'
    BY <2>1, StepKeeps DEF Promises, Next
  <2>2. ASSUME Promises, UNCHANGED vars PROVE Promises'
    BY <2>2 DEF Promises, Kept, vars
  <2> QED BY <2>1, <2>2
<1> QED BY <1>1, <1>2, PTL DEF Spec

(* Verdicts are final: what the outbox says at the end of a proposal it    *)
(* says for good, and the mail servers see no more of it.                  *)
FinalKept == \A p \in Ids : stage[p] \in Final => Keep(p)

THEOREM VerdictsAreFinal == Spec => [][FinalKept]_vars
<1>1. [Next]_vars => [FinalKept]_vars
  BY DEF FinalKept, Next, Final, Open, Close, Begin, Hand, Settle
<1> QED BY <1>1, PTL DEF Spec
=============================================================================
