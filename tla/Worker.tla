-------------------------------- MODULE Worker --------------------------------
(***************************************************************************)
(* The Worker process: the proposal store composed with the scheduler      *)
(* (src/worker/scheduler.ts), delivery over SMTP with its copy to the Sent *)
(* mailbox (smtp.ts, sent-copy.ts), execution of moves, and the process's  *)
(* life (index.ts: start, SIGTERM, exit; death at any point).              *)
(*                                                                         *)
(* The scheduler is one sequential loop: `running` keeps a second runOnce  *)
(* out, so a single program counter pc stands for it.  HTTP handlers run   *)
(* between any two of its awaits.                                          *)
(*                                                                         *)
(* The SMTP server's acceptance of a message and the Worker's learning of  *)
(* it are two steps, because the code treats everything between them as    *)
(* "may have occurred".  A batch of moves is abstracted to whether any     *)
(* message moved and to the batch's verdict.  SAVE_SENT_COPY is on.        *)
(***************************************************************************)
EXTENDS ProposalStore

CONSTANT NoJob
ASSUME NoJobAssumption == NoJob \notin Ids

VARIABLES
  stopped,    \* the scheduler's flag: SIGTERM or SIGINT was received
  pc,         \* where runOnce is
  calledAt,   \* the `now` of the claimDue call that is waiting
  job,        \* the proposal being processed
  result,     \* a send's Sent-copy result, a move's verdict
  handed,     \* external, history: times each proposal was carried out
  copied      \* external: proposals with a copy in the Sent mailbox

loopVars == <<stopped, pc, calledAt, job, result>>
mailVars == <<handed, copied>>
vars == <<storeVars, loopVars, mailVars>>

PC == {"idle", "claim",
       "build", "smtp", "accepted", "copy", "markSent", "markUncertain",
       "move", "moved", "markMove",
       "markFailed"}

Processing == PC \ {"idle", "claim"}

Results == {"none", "stored", "warning"} \cup Decided

-----------------------------------------------------------------------------
(* runOnce.                                                                *)

(* `while (!stopped)`: claim again, or leave the loop.                     *)
Loop ==
  /\ pc' = IF stopped THEN "idle" ELSE "claim"
  /\ calledAt' = IF stopped THEN 0 ELSE clock
  /\ job' = NoJob
  /\ result' = "none"
  /\ UNCHANGED stopped

(* runOnce's catch: the cycle ends, the interval starts another.           *)
Abandon ==
  /\ pc' = "idle"
  /\ calledAt' = 0
  /\ job' = NoJob
  /\ result' = "none"
  /\ UNCHANGED stopped

Goto(label) == pc' = label /\ UNCHANGED <<stopped, calledAt, job, result>>

(* The interval fires and no cycle is running.                             *)
RunOnce ==
  /\ up
  /\ ~stopped
  /\ pc = "idle"
  /\ Loop
  /\ UNCHANGED <<storeVars, mailVars>>

Claim ==
  /\ pc = "claim"
  /\ \E o \in Outcomes :
       \/ ClaimNone(calledAt, o) /\ Abandon
       \/ \E p \in Ids :
            /\ ClaimDue(p, calledAt, o)
            /\ IF o = "ok"
               THEN /\ pc' = IF mem[p].kind = "send" THEN "build" ELSE "move"
                    /\ job' = p
                    /\ calledAt' = 0
                    /\ UNCHANGED <<stopped, result>>
               ELSE Abandon
  /\ UNCHANGED mailVars

-----------------------------------------------------------------------------
(* processProposal, a send.                                                *)

BuildRaw ==
  /\ pc = "build"
  /\ Goto("smtp") \/ Goto("markFailed")
  /\ UNCHANGED <<storeVars, mailVars>>

(* External: the server takes responsibility for the message.              *)
SmtpAccepts ==
  /\ pc = "smtp"
  /\ Goto("accepted")
  /\ handed' = [handed EXCEPT ![job] = @ + 1]
  /\ UNCHANGED <<storeVars, copied>>

SmtpConfirms ==
  /\ pc = "accepted"
  /\ Goto("copy")
  /\ UNCHANGED <<storeVars, mailVars>>

(* Mutation: an SMTP error counts as a failure before sending.             *)
AfterSmtpErrorFailed == "markFailed"

(* Where sendMail's error leads: DeliveryError(..., true).                 *)
AfterSmtpError == "markUncertain"

(* sendMail rejects: no connection, a refusal, a timeout, or an answer     *)
(* lost after the server accepted.                                         *)
SmtpFails ==
  /\ pc \in {"smtp", "accepted"}
  /\ Goto(AfterSmtpError)
  /\ UNCHANGED <<storeVars, mailVars>>

(* The append may also take effect and still report an error.              *)
AppendSentCopy ==
  /\ pc = "copy"
  /\ \/ result' = "stored" /\ copied' = copied \cup {job}
     \/ result' = "warning" /\ copied' \in {copied, copied \cup {job}}
  /\ pc' = "markSent"
  /\ UNCHANGED <<storeVars, stopped, calledAt, job, handed>>

(* A write that fails here is not a DeliveryError: the catch clause calls  *)
(* markFailed.                                                             *)
RecordSent ==
  /\ pc = "markSent"
  /\ \E o \in Outcomes :
       /\ MarkSent(job, result = "warning", o)
       /\ IF o = "ok" THEN Loop ELSE Goto("markFailed")
  /\ UNCHANGED mailVars

RecordUncertain ==
  /\ pc = "markUncertain"
  /\ \E o \in Outcomes :
       /\ MarkUncertain(job, o)
       /\ IF o = "ok" THEN Loop ELSE Abandon
  /\ UNCHANGED mailVars

(* markFailed throws when the store has already left "sending".            *)
RecordFailed ==
  /\ pc = "markFailed"
  /\ IF Markable(job)
     THEN \E o \in Outcomes :
            /\ MarkFailed(job, o)
            /\ IF o = "ok" THEN Loop ELSE Abandon
     ELSE Abandon /\ UNCHANGED storeVars
  /\ UNCHANGED mailVars

-----------------------------------------------------------------------------
(* processProposal, a move.                                                *)

(* connect or verifyMailboxes throws, before the first message.            *)
MoveThrows ==
  /\ pc = "move"
  /\ Goto("markFailed")
  /\ UNCHANGED <<storeVars, mailVars>>

(* External: the server carries out the batch's first MOVE command.        *)
MoveBegins ==
  /\ pc = "move"
  /\ Goto("moved")
  /\ handed' = [handed EXCEPT ![job] = @ + 1]
  /\ UNCHANGED <<storeVars, copied>>

(* The items' results as markMoveOutcome sums them up; without a MOVE      *)
(* carried out they are all failed or uncertain (MoveExecution has them    *)
(* one by one).                                                            *)
MoveReturns ==
  /\ pc \in {"move", "moved"}
  /\ result' \in IF pc = "moved" THEN Decided ELSE {"failed", "uncertain"}
  /\ pc' = "markMove"
  /\ UNCHANGED <<storeVars, stopped, calledAt, job, mailVars>>

RecordMove ==
  /\ pc = "markMove"
  /\ \E o \in Outcomes :
       /\ MarkMoveOutcome(job, result, o)
       /\ IF o = "ok" THEN Loop ELSE Goto("markFailed")
  /\ UNCHANGED mailVars

-----------------------------------------------------------------------------
(* The process.                                                            *)

ResetLoop ==
  /\ stopped' = FALSE
  /\ pc' = "idle"
  /\ calledAt' = 0
  /\ job' = NoJob
  /\ result' = "none"

(* shutdown(): no cycle starts any more, the one that runs is not awaited. *)
Stop ==
  /\ up
  /\ ~stopped
  /\ crashes < MaxCrashes
  /\ crashes' = crashes + 1
  /\ stopped' = TRUE
  /\ UNCHANGED <<clock, up, mem, disk, issued, authorised, told, faults>>
  /\ UNCHANGED <<pc, calledAt, job, result, mailVars>>

(* httpServer.close has drained: process.exit(0), wherever the loop is.    *)
Exit ==
  /\ stopped
  /\ Die
  /\ ResetLoop
  /\ UNCHANGED <<crashes, mailVars>>

CrashWorker ==
  /\ Crash
  /\ ResetLoop
  /\ UNCHANGED mailVars

(* Restarted by compose.yaml's `restart: unless-stopped`.                  *)
RestartWorker ==
  /\ \E o \in Outcomes : Restart(o)
  /\ UNCHANGED <<loopVars, mailVars>>

Handler == HandlerStep /\ UNCHANGED <<loopVars, mailVars>>

TickWorker == Tick /\ UNCHANGED <<loopVars, mailVars>>

Init ==
  /\ StoreInit
  /\ stopped = FALSE
  /\ pc = "idle"
  /\ calledAt = 0
  /\ job = NoJob
  /\ result = "none"
  /\ handed = [p \in Ids |-> 0]
  /\ copied = {}

Send == \/ BuildRaw
        \/ SmtpAccepts
        \/ SmtpConfirms
        \/ SmtpFails
        \/ AppendSentCopy
        \/ RecordSent
        \/ RecordUncertain

Move == MoveThrows \/ MoveBegins \/ MoveReturns \/ RecordMove

Scheduler == RunOnce \/ Claim \/ Send \/ Move \/ RecordFailed

Next ==
  \/ Handler
  \/ Scheduler
  \/ Stop
  \/ Exit
  \/ CrashWorker
  \/ RestartWorker
  \/ TickWorker

Spec == Init /\ [][Next]_vars

(* The interval timer and the awaited I/O drive the scheduler: SMTP and    *)
(* IMAP calls end because of their timeouts.  Docker ends a process that   *)
(* does not exit by itself and restarts the container.                     *)
Fairness ==
  /\ WF_vars(TickWorker)
  /\ WF_vars(Scheduler)
  /\ WF_vars(Exit)
  /\ WF_vars(RestartWorker)

FairSpec == Spec /\ Fairness

-----------------------------------------------------------------------------
(* Properties.                                                             *)

TypeOK ==
  /\ StoreTypeOK
  /\ stopped \in BOOLEAN
  /\ pc \in PC
  /\ calledAt \in Nat
  /\ job \in Ids \cup {NoJob}
  /\ result \in Results
  /\ handed \in [Ids -> Nat]
  /\ copied \subseteq Ids

(* No proposal is carried out twice, whatever crashes, restarts and failed *)
(* writes come between claiming it and recording its outcome.              *)
AtMostOnce == \A p \in Ids : handed[p] <= 1

(* Nothing leaves the Worker that a human did not approve, and a scheduled *)
(* send does not leave before its time: neither is lost in a restart.      *)
OnlyAsAuthorised ==
  \A p \in Ids : handed[p] > 0 =>
    /\ p \in authorised
    /\ disk[p].scheduledFor # NoTime => disk[p].scheduledFor <= clock

(* docs/architecture.md: "Before SMTP delivery, the Worker persists        *)
(* sending".  Once a mail server has acted, the file never again shows a   *)
(* status from which a restart would claim the proposal.                   *)
WriteAhead ==
  \A p \in Ids : handed[p] > 0 => disk[p].status \in {"sending"} \cup Decided

(* Verdicts are truthful, in answers and in the file: a "sent" proposal    *)
(* was carried out, a "failed" message, a cancelled or an expired proposal *)
(* was not.  The scheduler's catch clauses must not report a delivered     *)
(* message as failed when recording it is what failed.                     *)
VerdictIsTrue ==
  \A entries \in {mem, disk} : \A p \in Ids :
    /\ entries[p].status = "sent" => handed[p] = 1
    /\ entries[p].status = "failed" /\ entries[p].kind = "send" => handed[p] = 0
    /\ entries[p].status \in {"cancelled", "expired"} => handed[p] = 0

(* A message reported sent without a warning has its copy in the Sent      *)
(* mailbox.                                                                *)
SentCopyIsKept ==
  \A entries \in {mem, disk} : \A p \in Ids :
    entries[p].kind = "send" /\ entries[p].status = "sent" /\ ~entries[p].warned
      => p \in copied

(* A proposal whose cancellation or expiry was reported to a caller is not *)
(* carried out, before or after a restart.                                 *)
CancelSticks ==
  \A p \in Ids : told[p] \in {"cancelled", "expired"} => handed[p] = 0

(* Every proposal in the file reaches a final status that a running Worker *)
(* reports: undecided ones expire, approved ones are tried, interrupted    *)
(* ones become uncertain.  (The file itself may lag: createMove does not   *)
(* write the expiry it finds when its key is known.)                       *)
EveryProposalSettles ==
  \A p \in Ids : disk[p].status # "absent" ~> mem[p].status \in Terminal

(* "Sending in progress" comes to an end for whoever polls the status.     *)
SendingEnds ==
  \A p \in Ids : mem[p].status = "sending" ~> mem[p].status # "sending"

-----------------------------------------------------------------------------
(* The inductive invariant behind the safety properties.                   *)

Claimed == {"sending"} \cup Decided

(* What one entry of proposal p says, in memory or in the file, is true.   *)
EntryIsTrue(p, e) ==
  /\ e.status \in {"approved", "scheduled"} \cup Claimed => p \in authorised
  /\ e.status = "approved" => e.scheduledFor = NoTime
  /\ e.status \in Claimed => e.scheduledFor <= clock
  /\ e.status = "sent" => handed[p] = 1
  /\ e.status = "failed" /\ e.kind = "send" => handed[p] = 0
  /\ e.status = "sent" /\ e.kind = "send" /\ ~e.warned => p \in copied

(* Memory is the file plus the progress that failed writes withheld; only  *)
(* work whose claim reached the file is ever decided.                      *)
FileLags(p) ==
  /\ mem[p].status \in Decided => disk[p].status \in Claimed
  /\ up => /\ disk[p].status \in Claimed => mem[p].status \in Claimed
           /\ disk[p].status \in Decided => mem[p].status = disk[p].status
           /\ disk[p].status \in {"cancelled", "expired"}
                => mem[p].status = disk[p].status
           /\ disk[p].status # "absent"
                => /\ mem[p].status # "absent"
                   /\ mem[p].kind = disk[p].kind

HandedAfterWrite(p) ==
  handed[p] \in {0, 1} /\ (handed[p] > 0 => disk[p].status \in Claimed)

(* Where the loop is tells what happened to its job.                       *)
LoopKnows ==
  /\ calledAt <= clock
  /\ ~up => mem = Nothing /\ pc = "idle" /\ ~stopped
  /\ pc \in Processing =>
       /\ job \in Ids
       /\ disk[job].status \in Claimed
       /\ mem[job].status \in Claimed
       /\ pc # "markFailed" => mem[job].status = "sending"
       /\ pc \in {"build", "smtp", "accepted", "copy", "markSent", "markUncertain"}
            => mem[job].kind = "send"
       /\ pc \in {"move", "moved", "markMove"} => mem[job].kind = "move"
       /\ pc \in {"build", "smtp", "move"} => handed[job] = 0
       /\ pc \in {"accepted", "copy", "markSent", "moved"} => handed[job] = 1
       /\ pc = "markSent" /\ result # "warning" => job \in copied
       /\ pc = "markMove" => result \in Decided /\ (result = "sent" => handed[job] = 1)
       /\ pc = "markFailed" /\ mem[job].status = "sending" /\ mem[job].kind = "send"
            => handed[job] = 0

(* The disk, the mail servers, the memory and the program counter agree.   *)
IInv ==
  /\ LoopKnows
  /\ \A p \in Ids : /\ EntryIsTrue(p, mem[p])
                    /\ EntryIsTrue(p, disk[p])
                    /\ FileLags(p)
                    /\ HandedAfterWrite(p)

-----------------------------------------------------------------------------
(* Refinement: the Worker implements DeliveryContract.                     *)

Stage(e) ==
  CASE e.status = "absent" -> "none"
    [] e.status \in {"pending_approval", "approved", "scheduled"} -> "open"
    [] e.status \in {"cancelled", "expired"} -> "closed"
    [] e.status = "sending" -> "begun"
    [] e.status = "failed" /\ e.kind = "move" -> "incomplete"
    [] OTHER -> e.status

Contract == INSTANCE DeliveryContract WITH stage <- [p \in Ids |-> Stage(disk[p])]

(* Seen through the file and the mail servers alone, the Worker takes only *)
(* the steps of DeliveryContract.                                          *)
ImplementsContract == Contract!Spec

(* Refinement: for its callers, the Worker implements ProposalLife.        *)

(* What the store says of a proposal; while it is down, what initialize    *)
(* will find, before it recovers interrupted work.                         *)
Standing(p) == IF up THEN mem[p].status ELSE Expire(disk, clock)[p].status

LifeOf(s) ==
  CASE s = "scheduled" -> "approved"
    [] s \in Claimed -> "carried"
    [] OTHER -> s

Life == INSTANCE ProposalLife WITH status <- [p \in Ids |-> LifeOf(Standing(p))]

(* While writes succeed, where a proposal stands changes only as           *)
(* ProposalLife says, deaths and starts of the process included.           *)
ImplementsLife == Life!LifeSpec
=============================================================================
