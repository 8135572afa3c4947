------------------------------ MODULE ApprovalWait ------------------------------
(***************************************************************************)
(* A tool call of the Actions server (src/actions/tools.ts): it creates or *)
(* cancels a proposal through the Worker's API (worker-client.ts) and, for *)
(* a client that takes URL elicitations, waits for the decision made at    *)
(* the gate of ApprovalGate (awaitApproval).                               *)
(*                                                                         *)
(* One call is modelled; others share only the store with it, and Create   *)
(* and ApiCancel of the gate stand for them.  Tick is the clock of timers: *)
(* a timer that is due runs before time goes on.  Tools that only read are *)
(* left out.                                                               *)
(***************************************************************************)
EXTENDS ApprovalGate

CONSTANTS
  Wait,            \* APPROVAL_WAIT_MS, in ticks; 0 disables the wait
  Poll,            \* APPROVAL_POLL_MS
  RequestTimeout,  \* WORKER_REQUEST_TIMEOUT_MS
  ElicitTimeout,   \* external: the SDK's timeout of a request to a client
  NoId

ASSUME WaitAssumption ==
  /\ Wait \in Nat
  /\ Poll \in Nat \ {0}
  /\ RequestTimeout \in Nat \ {0}
  /\ ElicitTimeout \in Nat \ {0}
  /\ NoId \notin Ids

VARIABLES
  pc,       \* where the call is
  target,   \* its proposal
  seen,     \* what it knows of the proposal's status
  waited,   \* ticks since the elicitation was sent
  timer,    \* ticks until the delay or the poll ends
  settled,  \* the elicitation was answered, refused or timed out
  report    \* what the last call reported: a status, or "error"

callVars == <<pc, target, seen, waited, timer, settled, report>>
vars == <<gateVars, callVars>>

Looping == {"delay", "poll"}
Closing == {"found", "gaveUp"}
Waiting == Looping \cup Closing

Init ==
  /\ GateInit
  /\ pc = "idle"
  /\ target = NoId
  /\ seen = "absent"
  /\ waited = 0
  /\ timer = 0
  /\ settled = FALSE
  /\ report = "none"

(* The tool returns: proposalResult, or guardTool's error.                 *)
Return(what) ==
  /\ pc' = "idle"
  /\ report' = what
  /\ seen' = "absent"
  /\ waited' = 0
  /\ timer' = 0
  /\ settled' = FALSE

-----------------------------------------------------------------------------
(* Creating and cancelling.                                                *)

Call(tool, p) ==
  /\ pc = "idle"
  /\ pc' = tool
  /\ target' = p
  /\ report' = "none"
  /\ UNCHANGED <<gateVars, seen, waited, timer, settled>>

(* mail_send, mail_schedule, mail_move_propose; mail_move_restore of a     *)
(* known batch asks for a new proposal too.                                *)
Propose == Call("create", NoId)
Restore(p) == status[p] # "absent" /\ Call("create", NoId)

(* mail_delivery_cancel, mail_move_cancel, once the kind was checked.      *)
CallCancel(p) == status[p] # "absent" /\ Call("cancel", p)

(* The Worker stores a new proposal, or finds one by its key (createMove). *)
Stored(p) ==
  /\ pc = "create"
  /\ Create(p) \/ (status[p] # "absent" /\ UNCHANGED gateVars)
  /\ pc' = "created"
  /\ target' = p
  /\ seen' = status'[p]
  /\ UNCHANGED <<waited, timer, settled, report>>

(* The Worker refuses the request, or the call hears nothing in time,      *)
(* whether or not the proposal was stored.                                 *)
CreateFails ==
  /\ pc \in {"create", "created"}
  /\ Return("error")
  /\ UNCHANGED <<gateVars, target>>

(* The answer arrives.  awaitApproval returns at once when the wait is off *)
(* or the client takes no URL, or has the app.  Otherwise it sends the     *)
(* elicitation and begins the first delay in one turn of the event loop:   *)
(* nothing can settle the one before the other.                            *)
CreateAnswered(elicits) ==
  /\ pc = "created"
  /\ IF elicits /\ Wait > 0
     THEN /\ pc' = "delay"
          /\ timer' = Poll
          /\ UNCHANGED <<seen, waited, settled, report>>
     ELSE Return(seen)
  /\ UNCHANGED <<gateVars, target>>

(* The store accepts a second cancellation and refuses settled proposals;  *)
(* the request or its answer may be lost.                                  *)
CancelAnswered ==
  /\ pc = "cancel"
  /\ \/ /\ ApiCancel(target) \/ (status[target] = "cancelled" /\ UNCHANGED gateVars)
        /\ Return("cancelled") \/ Return("error")
     \/ Return("error") /\ UNCHANGED gateVars
  /\ UNCHANGED target

-----------------------------------------------------------------------------
(* awaitApproval.                                                          *)

Goto(label, ticks) ==
  /\ pc' = label
  /\ timer' = ticks
  /\ UNCHANGED <<gateVars, target, seen, waited, settled, report>>

(* The test of the loop runs in the turn in which a poll ends without an   *)
(* outcome.  The first, in the turn of the elicitation, always succeeds.   *)
GoesOn == ~settled /\ waited < Wait

NextRound == IF GoesOn THEN Goto("delay", Poll) ELSE Goto("gaveUp", 0)

StartPoll ==
  /\ pc = "delay"
  /\ timer = 0
  /\ Goto("poll", RequestTimeout)

(* The poll's answer.  One that was read earlier and travelled since is no *)
(* different: a stale "pending" only costs another round, and anything     *)
(* else could also have been read now and reported later.                  *)
PollAnswered ==
  /\ pc = "poll"
  /\ IF status[target] = "pending_approval"
     THEN NextRound
     ELSE /\ pc' = "found"
          /\ timer' = 0
          /\ seen' = status[target]
          /\ UNCHANGED <<gateVars, target, waited, settled, report>>

(* Mutations: a failed poll ends the wait; it is retried at once.          *)
AfterPollErrorGiveUp == Goto("gaveUp", 0)
AfterPollErrorRetry == Goto("poll", 0)

AfterPollError == NextRound

(* It fails, or is aborted: the error is dropped.                          *)
PollFails ==
  /\ pc = "poll"
  /\ AfterPollError

(* Mutations: accepting the elicitation is taken for the approval; the     *)
(* client's answer is taken for the outcome.                               *)
SeenWhenAccepted == "approved"
SeenWhenAnswered == "accept"

SeenWhenSettled == seen

(* The client accepts (which is consent to open the page), declines,       *)
(* cancels, or cannot be asked; or ElicitTimeout passes.                   *)
Elicited ==
  /\ pc \in Waiting
  /\ ~settled
  /\ settled' = TRUE
  /\ seen' = SeenWhenSettled
  /\ UNCHANGED <<gateVars, pc, target, waited, timer, report>>

(* The notifier has been called, and `await elicited` is over.             *)
Close ==
  /\ pc \in Closing
  /\ settled
  /\ Return(seen)
  /\ UNCHANGED <<gateVars, target>>

(* Mutation: the poll has no timeout of its own.                           *)
DueWithoutAbort ==
  \/ pc = "delay" /\ timer = 0
  \/ pc \in Waiting /\ ~settled /\ waited >= ElicitTimeout
  \/ pc \in Closing /\ settled

Due ==
  \/ pc \in {"delay", "poll"} /\ timer = 0
  \/ pc \in Waiting /\ ~settled /\ waited >= ElicitTimeout
  \/ pc \in Closing /\ settled

Tick ==
  /\ pc \in Waiting
  /\ ~Due
  /\ waited' = waited + 1
  /\ timer' = IF timer = 0 THEN 0 ELSE timer - 1
  /\ UNCHANGED <<gateVars, pc, target, seen, settled, report>>

-----------------------------------------------------------------------------
CallNext ==
  \/ Propose
  \/ \E p \in Ids : Restore(p) \/ CallCancel(p) \/ Stored(p)
  \/ CreateFails
  \/ \E elicits \in BOOLEAN : CreateAnswered(elicits)
  \/ CancelAnswered
  \/ StartPoll
  \/ PollAnswered
  \/ PollFails
  \/ Elicited
  \/ Close
  \/ Tick

Next ==
  \/ GateNext /\ UNCHANGED callVars
  \/ LimiterTick /\ UNCHANGED callVars
  \/ CallNext

Spec == Init /\ [][Next]_vars

(* Both clocks go on, timers that are due run, and a request to the Worker *)
(* ends, by its timeout if need be.  Nothing obliges a client to answer,   *)
(* or anyone to decide.                                                    *)
Fairness ==
  /\ WF_vars(LimiterTick /\ UNCHANGED callVars)
  /\ WF_vars(CreateFails \/ \E elicits \in BOOLEAN : CreateAnswered(elicits))
  /\ WF_vars(CancelAnswered)
  /\ WF_vars(StartPoll \/ (PollFails /\ timer = 0) \/ Close \/ Tick)
  /\ WF_vars(Elicited /\ waited >= ElicitTimeout)

FairSpec == Spec /\ Fairness

-----------------------------------------------------------------------------
(* Properties.                                                             *)

Lesser(a, b) == IF a < b THEN a ELSE b
Larger(a, b) == IF a < b THEN b ELSE a

WaitBound ==
  Larger(Lesser(Wait, ElicitTimeout + 1) - 1 + Poll + RequestTimeout, ElicitTimeout)

TypeOK ==
  /\ GateTypeOK
  /\ pc \in {"idle", "create", "created", "cancel"} \cup Waiting
  /\ target \in Ids \cup {NoId}
  /\ seen \in Statuses
  /\ waited \in Nat
  /\ timer \in 0..Larger(Poll, RequestTimeout)
  /\ settled \in BOOLEAN
  /\ report \in Statuses \cup {"none", "error"}

(* However the client, the Worker and the network behave, the waiting ends *)
(* within a bound that the settings and the SDK's timeout give.  Past      *)
(* APPROVAL_WAIT_MS and one round of the loop, all the call still waits    *)
(* for is the end of the elicitation (tools.ts:182).                       *)
WaitBounded ==
  /\ waited <= WaitBound
  /\ waited >= Wait + Poll + RequestTimeout => pc \in Closing

(* What a call reports was true: the proposal has, or can have come from,  *)
(* the reported status.  A client's consent to open the page, a lost       *)
(* answer or a repeated key never reads as a decision.                     *)
Reaches(from, to) ==
  \/ from = to
  \/ from = "pending_approval" /\ to # "absent"
  \/ CanBecome(from, to)

ReportIsTrue ==
  report \notin {"none", "error"} => target \in Ids /\ Reaches(report, status[target])

(* A wait ends without an outcome only because its time is up or the       *)
(* client has dealt with the elicitation, not because the Worker failed to *)
(* answer for a moment.                                                    *)
NoEarlyGiveUp == pc = "gaveUp" => settled \/ waited >= Wait

(* tools.ts:135: "the call waits for the outcome so the conversation       *)
(* reports what actually happened".                                        *)
WaitsForTheOutcome == pc = "gaveUp" => waited >= Wait

(* SECURITY.md:147: "`APPROVAL_WAIT_MS` bounds how long the tool call      *)
(* waits before returning".  A last round of the loop is granted.          *)
BoundedBySetting == waited < Wait + Poll + RequestTimeout

(* Every call returns.                                                     *)
CallReturns == pc # "idle" ~> pc = "idle"
=============================================================================
