------------------------------ MODULE ApprovalGate ------------------------------
(***************************************************************************)
(* How a proposal gets decided: the Worker's approval routes (the page and *)
(* the in-chat app, src/worker/server.ts and approval-ui.ts), their form   *)
(* signatures (src/common/security.ts) and their rate limiter.             *)
(*                                                                         *)
(* The store is seen through one status per proposal and takes only the    *)
(* steps of ProposalLife, which the store of module Worker implements.     *)
(*                                                                         *)
(* A signature cannot be guessed, so a form is the pair it was signed for. *)
(***************************************************************************)
EXTENDS Naturals, FiniteSets, ProposalLife

CONSTANTS
  Clients,  \* addresses the limiter tells apart
  Limit,    \* attempts per window
  Window,   \* windowMs, in ticks of the limiter
  MaxInFlight  \* bound on submissions between their two calls of the store

ASSUME GateAssumption ==
  /\ IsFiniteSet(Clients)
  /\ Limit \in Nat \ {0}
  /\ Window \in Nat \ {0}
  /\ MaxInFlight \in Nat

VARIABLES
  deciding,  \* submissions that passed every check and now call the store
  hits,      \* attempts counted for a client, up to one over the limit
  resetIn,   \* ticks until its window ends, 0 when it has none
  compared,  \* history: comparisons of the secret, by age in ticks
  intended   \* history: proposals a holder of the secret meant to approve

limiterVars == <<hits, resetIn, compared>>
gateVars == <<status, deciding, limiterVars, intended>>

Actions == {"approve", "cancel"}
Purposes == Actions \cup {"app"}
Ages == 0..Window - 1

GateInit ==
  /\ LifeInit
  /\ deciding = {}
  /\ hits = [k \in Clients |-> 0]
  /\ resetIn = [k \in Clients |-> 0]
  /\ compared = [k \in Clients |-> [a \in Ages |-> 0]]
  /\ intended = {}

-----------------------------------------------------------------------------
(* Forms.                                                                  *)

signForm(p, purpose) == <<p, purpose>>

(* The page and the app's view of a pending proposal carry its two forms,  *)
(* the answer that created it its token.  Pages stay open in browsers for  *)
(* as long as their readers like, so all of them remain available.         *)
Known == {p \in Ids : status[p] # "absent"}
PageForms == {signForm(p, action) : p \in Known, action \in Actions}
ViewForms == {signForm(p, action) : p \in Known, action \in Actions}
appTokens == {signForm(p, "app") : p \in Known}
Issued == PageForms \cup ViewForms \cup appTokens

(* Mutation: the signature does not cover the action.                      *)
VerifiesAnyAction(form, p, purpose) == form \in {signForm(p, r) : r \in Purposes}

verifyFormSignature(form, p, purpose) == form = signForm(p, purpose)

-----------------------------------------------------------------------------
(* The limiter, one for the four routes.                                   *)

(* Mutations: the limit is off by one; each attempt restarts the window.   *)
BlockedLate(k) == hits[k] > Limit
WindowAfterHit(k) == Window

Blocked(k) == hits[k] >= Limit

(* A window lasts from its first attempt.                                  *)
WindowAfter(k) == IF resetIn[k] = 0 THEN Window ELSE resetIn[k]

Hit(k) ==
  /\ hits' = [hits EXCEPT ![k] = IF @ > Limit THEN @ ELSE @ + 1]
  /\ resetIn' = [resetIn EXCEPT ![k] = WindowAfter(k)]

LimiterTick ==
  /\ resetIn' = [k \in Clients |-> IF resetIn[k] = 0 THEN 0 ELSE resetIn[k] - 1]
  /\ hits' = [k \in Clients |-> IF resetIn[k] <= 1 THEN 0 ELSE hits[k]]
  /\ compared' = [k \in Clients |->
       [a \in Ages |-> IF a = 0 THEN 0 ELSE compared[k][a - 1]]]
  /\ UNCHANGED <<status, deciding, intended>>

-----------------------------------------------------------------------------
(* POST /approval/:id/approve, cancel, app-approve and app-cancel.         *)

(* An attempt that is counted and refused: over the limit, an unknown id,  *)
(* a bad token or signature.                                               *)
Refuse(k) ==
  /\ Hit(k)
  /\ UNCHANGED <<status, deciding, compared, intended>>

(* store.get finds the proposal, whatever its status; the form must be     *)
(* this proposal's, for this action.                                       *)
PassesForm(p, action, form) ==
  /\ status[p] # "absent"
  /\ verifyFormSignature(form, p, action)

(* Then the secret is compared.  Whoever types the right one means what    *)
(* the form in front of them says, whichever route it reaches.             *)
Submit(k, p, action, form, right) ==
  /\ ~Blocked(k)
  /\ PassesForm(p, action, form)
  /\ Hit(k)
  /\ compared' = [compared EXCEPT ![k][0] = @ + 1]
  /\ IF right
     THEN /\ Cardinality(deciding) < MaxInFlight
          /\ deciding' = deciding \cup {<<p, action>>}
          /\ intended' = intended \cup {q \in Ids : form = signForm(q, "approve")}
     ELSE UNCHANGED <<deciding, intended>>
  /\ UNCHANGED status

(* The app's routes want the proposal's token first.                       *)
proposalForApp(p, token) == verifyFormSignature(token, p, "app")

AppSubmit(k, p, action, token, form, right) ==
  /\ proposalForApp(p, token)
  /\ Submit(k, p, action, form, right)

(* The second call of the store, which has a guard of its own; it throws   *)
(* when the proposal was settled meanwhile.                                *)
Decide(p, action) ==
  LET to == IF action = "approve" THEN "approved" ELSE "cancelled" IN
  /\ <<p, action>> \in deciding
  /\ deciding' = deciding \ {<<p, action>>}
  /\ status' = [status EXCEPT ![p] = IF CanBecome(@, to) THEN to ELSE @]
  /\ UNCHANGED <<limiterVars, intended>>

-----------------------------------------------------------------------------
(* The rest of the Worker.                                                 *)

Settle(p, to) ==
  /\ CanBecome(status[p], to)
  /\ status' = [status EXCEPT ![p] = to]
  /\ UNCHANGED <<deciding, limiterVars, intended>>

(* #expire; claimDue.                                                      *)
Expire(p) == Settle(p, "expired")
Carry(p) == Settle(p, "carried")

(* POST /api/proposals/:id/cancel, for Actions: no secret.                 *)
ApiCancel(p) == Settle(p, "cancelled")

(* POST /api/proposals, once the request has passed the policies.          *)
Create(p) ==
  /\ status[p] = "absent"
  /\ status' = [status EXCEPT ![p] = "pending_approval"]
  /\ UNCHANGED <<deciding, limiterVars, intended>>

GateNext ==
  \/ \E k \in Clients : Refuse(k)
  \/ \E k \in Clients, p \in Ids, action \in Actions, form \in Issued,
        right \in BOOLEAN :
       \/ Submit(k, p, action, form, right)
       \/ \E token \in Issued : AppSubmit(k, p, action, token, form, right)
  \/ \E p \in Ids :
       \/ \E action \in Actions : Decide(p, action)
       \/ Expire(p)
       \/ Carry(p)
       \/ ApiCancel(p)
       \/ Create(p)

-----------------------------------------------------------------------------
(* Properties.                                                             *)

GateTypeOK ==
  /\ status \in [Ids -> Statuses]
  /\ deciding \subseteq Ids \X Actions
  /\ hits \in [Clients -> 0..Limit + 1]
  /\ resetIn \in [Clients -> 0..Window]
  /\ compared \in [Clients -> [Ages -> Nat]]
  /\ intended \subseteq Ids

(* Nothing is approved, and so nothing carried out, that no holder of the  *)
(* secret meant to approve: not through another proposal's form, the form  *)
(* that cancels, or the token that Actions and the chat's host know.       *)
ApprovedAsIntended ==
  \A p \in Ids : status[p] \in {"approved", "carried"} => p \in intended

(* The comparisons a client has had in the last windowMs, each with its    *)
(* age and its number among those of that age.                             *)
Guesses(k) == UNION {{a} \X (1..compared[k][a]) : a \in Ages}

(* However a client spreads its attempts over the routes and over the ends *)
(* of the windows, no stretch of windowMs has more than twice the limit.   *)
GuessesBounded == \A k \in Clients : Cardinality(Guesses(k)) <= 2 * Limit

(* A client that is over the limit gets another chance, also when it keeps *)
(* trying.                                                                 *)
LockoutEnds == \A k \in Clients : Blocked(k) ~> ~Blocked(k)
=============================================================================
