--------------------------- MODULE RefinementProofs ---------------------------
(***************************************************************************)
(* The Worker implements DeliveryContract, for every value of the          *)
(* constants: every step, seen through outbox.json and the mail servers,   *)
(* takes each proposal along one step of the contract.                     *)
(***************************************************************************)
EXTENDS WorkerProofs

Stepped(p) ==
  \/ Contract!Keep(p)  \/ Contract!Open(p) \/ Contract!Close(p)
  \/ Contract!Begin(p) \/ Contract!Hand(p) \/ Contract!Settle(p)

LEMMA SameEntryKeeps ==
  ASSUME NEW p \in Ids, disk'[p] = disk[p], handed'[p] = handed[p]
  PROVE  Stepped(p)
BY DEF Stepped, Contract!Keep

(* The file catches up with memory: what a failed write withheld is        *)
(* published.                                                              *)
LEMMA PublishSteps ==
  ASSUME StoreTypeOK, NEW p \in Ids, up, Good(p), disk'[p] = mem[p], handed'[p] = handed[p]
  PROVE  Stepped(p)
<1> DEFINE s == mem[p].status
           d == disk[p].status
<1>0. s \in Status \cup {"absent"} /\ d \in Status \cup {"absent"}
  BY DEF StoreTypeOK, Entry
<1>1. /\ s \in Decided => d \in Claimed
      /\ d \in Claimed => s \in Claimed
      /\ d \in Decided \cup {"cancelled", "expired"} => s = d
      /\ d # "absent" => s # "absent" /\ mem[p].kind = disk[p].kind
  BY DEF Good, FileLags
<1>2. /\ s \in Claimed => p \in authorised
      /\ s = "sent" => handed[p] = 1
      /\ s = "failed" /\ mem[p].kind = "send" => handed[p] = 0
  BY DEF Good, EntryIsTrue
<1>3. mem[p].kind \in {"send", "move"}
  BY DEF StoreTypeOK, Entry
<1> USE DEF Stage, Claimed, Decided
<1>4. CASE s = d
  <2>1. s = "absent" => Stage(mem[p]) = Stage(disk[p])
    BY <1>4
  <2>2. s # "absent" => Stage(mem[p]) = Stage(disk[p])
    BY <1>1, <1>4
  <2> QED BY <2>1, <2>2 DEF Stepped, Contract!Keep
<1>5. CASE s # d /\ s \in {"pending_approval", "approved", "scheduled"}
  <2>1. Stage(mem[p]) = "open" /\ Stage(disk[p]) \in {"none", "open"}
    BY <1>0, <1>1, <1>5 DEF Status, Terminal
  <2> QED BY <2>1 DEF Stepped, Contract!Keep, Contract!Open
<1>6. CASE s # d /\ s \in {"cancelled", "expired"}
  <2>1. Stage(mem[p]) = "closed" /\ Stage(disk[p]) \in {"none", "open"}
    BY <1>0, <1>1, <1>6 DEF Status, Terminal
  <2> QED BY <2>1 DEF Stepped, Contract!Close
<1>7. CASE s # d /\ s = "sending"
  <2>1. Stage(mem[p]) = "begun" /\ Stage(disk[p]) \in {"none", "open"}
    BY <1>0, <1>1, <1>7 DEF Status, Terminal
  <2> QED BY <1>2, <1>7, <2>1 DEF Stepped, Contract!Begin
<1>8. CASE s # d /\ s \in Decided
  <2>1. d = "sending"
    BY <1>1, <1>8
  <2>2. Stage(disk[p]) = "begun"
    BY <2>1
  <2>3. \/ Stage(mem[p]) = "sent" /\ handed[p] = 1
        \/ Stage(mem[p]) = "failed" /\ handed[p] = 0
        \/ Stage(mem[p]) \in {"incomplete", "uncertain"}
    BY <1>2, <1>3, <1>8
  <2> QED BY <2>2, <2>3 DEF Stepped, Contract!Settle
<1>9. CASE s # d /\ s = "absent"
  BY <1>1, <1>9
<1> QED BY <1>0, <1>4, <1>5, <1>6, <1>7, <1>8, <1>9 DEF Status, Terminal

(* What handlers, and claims and marks of other proposals, write.          *)
LEMMA QuietSteps ==
  ASSUME StoreTypeOK, NEW p \in Ids, up, Good(p), Quiet(p), handed'[p] = handed[p]
  PROVE  Stepped(p)
<1>1. CASE disk'[p] = disk[p]
  BY <1>1, SameEntryKeeps
<1>2. CASE disk'[p] = mem[p]
  BY <1>2, PublishSteps
<1>3. CASE disk'[p] # disk[p] /\ disk'[p] # mem[p]
  <2>1. /\ mem[p].status \notin Claimed \cup {"cancelled", "expired"}
        /\ disk[p].status \in Status \cup {"absent"}
    BY <1>3 DEF StoreTypeOK, Entry, Quiet, Handled, Created, Closed, Approved, Claimed,
      Decided
  <2>2. disk[p].status \in {"absent", "pending_approval", "approved", "scheduled"}
    BY <2>1 DEF Good, FileLags, Claimed, Decided, Status, Terminal
  <2>3. Stage(disk[p]) \in {"none", "open"}
    BY <2>2 DEF Stage
  <2>4. disk'[p].status \in {"pending_approval", "approved", "scheduled", "cancelled",
                             "expired"}
    BY <1>3 DEF Quiet, Handled, Created, Closed, Approved
  <2>5. Stage(disk'[p]) \in {"open", "closed"}
    BY <2>4 DEF Stage
  <2> QED BY <2>3, <2>5 DEF Stepped, Contract!Keep, Contract!Open, Contract!Close
<1> QED BY <1>1, <1>2, <1>3

LEMMA ClaimSteps ==
  ASSUME StoreTypeOK, LoopType, IInv, NEW p \in Ids, NEW o, ClaimDue(p, calledAt, o),
         UNCHANGED mailVars
  PROVE  \A q \in Ids : Stepped(q)
<1>0. up /\ handed' = handed
  BY DEF ClaimDue, mailVars
<1>1. /\ disk' \in {disk, mem'}
      /\ Due(mem[p], calledAt)
      /\ \A q \in Ids : q # p => mem'[q] = mem[q] \/ Closed(mem[q], mem'[q])
  BY ClaimDueEffect
<1>2. mem'[p].status = "sending"
  BY ClaimDueGood
<1>3. ASSUME NEW q \in Ids, q # p PROVE Stepped(q)
  <2>1. Quiet(q)
    BY <1>1, <1>3 DEF Quiet, Handled, Closed
  <2> QED BY <1>0, <2>1, QuietSteps, IInvParts
<1>4. CASE disk' = disk
  BY <1>0, <1>3, <1>4, SameEntryKeeps
<1>5. CASE disk' = mem'
  <2>1. mem[p].status \in {"approved", "scheduled"}
    BY <1>1 DEF Due
  <2>2. p \in authorised
    BY <2>1 DEF IInv, EntryIsTrue
  <2>3. disk[p].status \in {"absent", "pending_approval", "approved", "scheduled"}
    BY <1>0, <2>1 DEF IInv, FileLags, Claimed, Decided, Status, Terminal, StoreTypeOK, Entry
  <2>4. Stage(disk[p]) \in {"none", "open"} /\ Stage(disk'[p]) = "begun"
    BY <1>2, <1>5, <2>3 DEF Stage
  <2>5. Stepped(p)
    BY <1>0, <2>2, <2>4 DEF Stepped, Contract!Begin
  <2> QED BY <1>3, <2>5
<1> QED BY <1>1, <1>4, <1>5

LEMMA MarkSteps ==
  ASSUME StoreTypeOK, LoopType, IInv, NEW p \in Ids, NEW s \in Decided,
         NEW w \in BOOLEAN, NEW o, Mark(p, s, w, o), Truthful(p, s, w),
         disk[p].status \in Claimed, UNCHANGED mailVars
  PROVE  \A q \in Ids : Stepped(q)
<1>0. up /\ handed' = handed
  BY DEF Mark, mailVars
<1>m. Marked(p, s, w, o)
  BY MarkEffect, Zenon
<1>1. /\ disk' \in {disk, mem'}
      /\ mem[p].status = "sending"
      /\ \A q \in Ids : q # p => mem'[q] = mem[q]
  BY <1>m DEF Marked
<1>2. mem'[p].status = s /\ mem'[p].kind = mem[p].kind
  BY MarkGood, Zenon
<1>3. ASSUME NEW q \in Ids, q # p PROVE Stepped(q)
  <2>1. Quiet(q)
    BY <1>1, <1>3 DEF Quiet, Handled
  <2> QED BY <1>0, <2>1, QuietSteps, IInvParts
<1>4. CASE disk' = disk
  BY <1>0, <1>3, <1>4, SameEntryKeeps
<1>5. CASE disk' = mem'
  <2>1. disk[p].status = "sending"
    BY <1>0, <1>1 DEF IInv, FileLags, Claimed, Decided
  <2>2. mem[p].kind \in {"send", "move"}
    BY DEF StoreTypeOK, Entry
  <2>3. \/ Stage(disk'[p]) = "sent" /\ handed[p] = 1
        \/ Stage(disk'[p]) = "failed" /\ handed[p] = 0
        \/ Stage(disk'[p]) \in {"incomplete", "uncertain"}
    BY <1>2, <1>5, <2>2 DEF Stage, Truthful, Decided
  <2>4. Stage(disk[p]) = "begun"
    BY <2>1 DEF Stage
  <2>5. Stepped(p)
    BY <1>0, <2>3, <2>4 DEF Stepped, Contract!Settle
  <2> QED BY <1>3, <2>5
<1> QED BY <1>1, <1>4, <1>5

(* Recording an outcome is a truthful mark, or nothing.                    *)
LEMMA RecordIsMark ==
  ASSUME IInv, RecordSent \/ RecordUncertain \/ RecordFailed \/ RecordMove
  PROVE  /\ UNCHANGED mailVars
         /\ job \in Ids
         /\ disk[job].status \in Claimed
         /\ \/ UNCHANGED storeVars
            \/ \E s \in Decided, w \in BOOLEAN, o \in Outcomes :
                 Mark(job, s, w, o) /\ Truthful(job, s, w)
<1>0. /\ pc \in Processing /\ job \in Ids /\ disk[job].status \in Claimed
      /\ UNCHANGED mailVars
      /\ "sent" \in Decided /\ "failed" \in Decided /\ "uncertain" \in Decided
  BY DEF RecordSent, RecordUncertain, RecordFailed, RecordMove, Processing, PC,
    IInv, LoopKnows, Decided
<1>1. CASE RecordSent
  <2>1. PICK o \in Outcomes : Mark(job, "sent", result = "warning", o)
    BY <1>1 DEF RecordSent, MarkSent
  <2>2. (result = "warning") \in BOOLEAN
    OBVIOUS
  <2>3. Truthful(job, "sent", result = "warning")
    BY <1>0, <1>1 DEF RecordSent, IInv, LoopKnows, Truthful
  <2> QED BY <1>0, <2>1, <2>2, <2>3, Zenon
<1>2. CASE RecordUncertain
  <2>1. PICK o \in Outcomes : Mark(job, "uncertain", FALSE, o)
    BY <1>2 DEF RecordUncertain, MarkUncertain
  <2>2. Truthful(job, "uncertain", FALSE)
    BY DEF Truthful
  <2> QED BY <1>0, <2>1, <2>2, Zenon
<1>3. CASE RecordFailed /\ Markable(job)
  <2>1. PICK o \in Outcomes : Mark(job, "failed", FALSE, o)
    BY <1>3 DEF RecordFailed, MarkFailed
  <2>2. Truthful(job, "failed", FALSE)
    BY <1>0, <1>3 DEF RecordFailed, Markable, IInv, LoopKnows, Truthful
  <2> QED BY <1>0, <2>1, <2>2, Zenon
<1>4. CASE RecordFailed /\ ~Markable(job)
  BY <1>0, <1>4 DEF RecordFailed
<1>5. CASE RecordMove
  <2>1. PICK o \in Outcomes : /\ mem[job].kind = "move" /\ result \in Decided
                              /\ Mark(job, result, FALSE, o)
    BY <1>5 DEF RecordMove, MarkMoveOutcome
  <2>2. Truthful(job, result, FALSE)
    BY <1>0, <1>5, <2>1 DEF RecordMove, IInv, LoopKnows, Truthful
  <2> QED BY <1>0, <2>1, <2>2, Zenon
<1> QED BY <1>1, <1>2, <1>3, <1>4, <1>5

LEMMA RestartSteps ==
  ASSUME StoreTypeOK, RestartWorker
  PROVE  \A p \in Ids : Stepped(p)
<1>1. PICK o \in Outcomes : Restart(o)
  BY DEF RestartWorker
<1>2. handed' = handed
  BY DEF RestartWorker, mailVars
<1>3. ASSUME NEW p \in Ids PROVE Stepped(p)
  <2>1. Reloaded(disk[p], disk'[p])
    BY <1>1, RestartEffect
  <2>2. CASE disk'[p] = disk[p]
    BY <1>2, <2>2, SameEntryKeeps
  <2>3. CASE Closed(disk[p], disk'[p])
    <3>1. Stage(disk[p]) = "open" /\ Stage(disk'[p]) = "closed"
      BY <2>3 DEF Closed, Stage
    <3> QED BY <1>2, <3>1 DEF Stepped, Contract!Close
  <2>4. CASE disk[p].status = "sending" /\ disk'[p] = [disk[p] EXCEPT !.status = "uncertain"]
    <3>1. disk'[p].status = "uncertain"
      BY <2>4, StatusUpdate DEF StoreTypeOK, Status, Terminal, Decided
    <3>2. Stage(disk[p]) = "begun" /\ Stage(disk'[p]) = "uncertain"
      BY <2>4, <3>1 DEF Stage
    <3> QED BY <1>2, <3>2 DEF Stepped, Contract!Settle
  <2> QED BY <2>1, <2>2, <2>3, <2>4 DEF Reloaded
<1> QED BY <1>3

(* The mail server acts on a job whose stage in the file is "begun".       *)
LEMMA HandSteps ==
  ASSUME LoopType, IInv, SmtpAccepts \/ MoveBegins
  PROVE  \A p \in Ids : Stepped(p)
<1>1. /\ pc \in {"smtp", "move"} /\ disk' = disk
      /\ handed' = [handed EXCEPT ![job] = @ + 1]
  BY DEF SmtpAccepts, MoveBegins, storeVars
<1>2. /\ job \in Ids /\ up /\ handed[job] = 0 /\ mem[job].status = "sending"
      /\ disk[job].status \in Claimed
  BY <1>1 DEF IInv, LoopKnows, Processing, PC
<1>3. PICK p \in Ids : p = job
  BY <1>2
<1>4. disk[p].status = "sending"
  BY <1>2, <1>3 DEF IInv, FileLags, Claimed, Decided
<1>5. Stage(disk[p]) = "begun"
  BY <1>4 DEF Stage
<1>6. handed'[p] = 1 /\ \A q \in Ids : q # p => handed'[q] = handed[q]
  BY <1>1, <1>2, <1>3 DEF LoopType
<1>7. Stepped(p)
  BY <1>1, <1>2, <1>3, <1>5, <1>6 DEF Stepped, Contract!Hand
<1> QED BY <1>1, <1>6, <1>7, SameEntryKeeps

LEMMA ContractInit == Init => Contract!Init
<1> SUFFICES ASSUME Init PROVE Contract!Init
  OBVIOUS
<1>1. \A p \in Ids : Stage(disk[p]) = "none"
  BY NothingAbsent DEF Init, StoreInit, Stage
<1> QED BY <1>1 DEF Init, StoreInit, Contract!Init

LEMMA ContractStep ==
  ASSUME StoreInv, LoopType, IInv, [Next]_vars
  PROVE  [Contract!Next]_Contract!vars
<1>0. StoreTypeOK /\ Fresh
  BY DEF StoreInv
<1>1. ASSUME \A p \in Ids : Stepped(p), authorised \subseteq authorised'
      PROVE  Contract!Next
  BY <1>1 DEF Contract!Next, Stepped
<1>2. CASE Handler
  <2>1. HandlerEffect /\ UNCHANGED mailVars
    BY <1>0, <1>2, HandlerStepEffect DEF Handler
  <2>2. \A p \in Ids : Stepped(p)
    BY <1>0, <2>1, HandlerQuiet, QuietSteps, IInvParts DEF HandlerEffect, mailVars
  <2> QED BY <1>1, <2>1, <2>2 DEF HandlerEffect
<1>3. CASE Claim
  <2>1. PICK o \in Outcomes :
          ClaimNone(calledAt, o) \/ \E p \in Ids : ClaimDue(p, calledAt, o)
    BY <1>3 DEF Claim
  <2>2. UNCHANGED mailVars
    BY <1>3 DEF Claim
  <2>3. CASE ClaimNone(calledAt, o)
    <3>1. HandlerEffect
      BY <1>0, <2>3, ClaimNoneHandled
    <3>2. \A p \in Ids : Stepped(p)
      BY <1>0, <2>2, <3>1, HandlerQuiet, QuietSteps, IInvParts DEF HandlerEffect, mailVars
    <3> QED BY <1>1, <3>1, <3>2 DEF HandlerEffect
  <2>4. CASE \E p \in Ids : ClaimDue(p, calledAt, o)
    <3>1. \A p \in Ids : Stepped(p)
      BY <1>0, <2>2, <2>4, ClaimSteps
    <3> QED BY <1>1, <2>4, <3>1 DEF ClaimDue
  <2> QED BY <2>1, <2>3, <2>4
<1>4. CASE RecordSent \/ RecordUncertain \/ RecordFailed \/ RecordMove
  <2>1. /\ UNCHANGED mailVars
        /\ job \in Ids
        /\ disk[job].status \in Claimed
        /\ \/ UNCHANGED storeVars
           \/ \E s \in Decided, w \in BOOLEAN, o \in Outcomes :
                Mark(job, s, w, o) /\ Truthful(job, s, w)
    BY <1>4, RecordIsMark
  <2>2. CASE UNCHANGED storeVars
    BY <1>1, <2>1, <2>2, SameEntryKeeps DEF storeVars, mailVars
  <2>3. ASSUME NEW s \in Decided, NEW w \in BOOLEAN, NEW o \in Outcomes,
               Mark(job, s, w, o), Truthful(job, s, w)
        PROVE  Contract!Next
    <3>1. \A q \in Ids : Stepped(q)
      BY <1>0, <2>1, <2>3, MarkSteps, Zenon
    <3>2. authorised' = authorised
      BY <2>3 DEF Mark
    <3> QED BY <1>1, <3>1, <3>2
  <2> QED BY <2>1, <2>2, <2>3
<1>5. CASE SmtpAccepts \/ MoveBegins
  <2>1. authorised' = authorised
    BY <1>5 DEF SmtpAccepts, MoveBegins, storeVars
  <2> QED BY <1>1, <1>5, <2>1, HandSteps
<1>6. CASE RestartWorker
  <2>1. authorised' = authorised
    BY <1>6 DEF RestartWorker, Restart
  <2> QED BY <1>0, <1>1, <1>6, <2>1, RestartSteps
<1>7. CASE UNCHANGED <<disk, authorised, handed>>
  BY <1>1, <1>7, SameEntryKeeps
<1>8. CASE \/ RunOnce \/ BuildRaw \/ SmtpConfirms \/ SmtpFails \/ AppendSentCopy
           \/ MoveThrows \/ MoveReturns \/ Stop \/ Exit \/ CrashWorker \/ TickWorker
           \/ UNCHANGED vars
  BY <1>7, <1>8 DEF RunOnce, BuildRaw, SmtpConfirms, SmtpFails, AppendSentCopy, MoveThrows,
    MoveReturns, Stop, Exit, CrashWorker, Crash, Die, TickWorker, Tick, vars, storeVars,
    mailVars
<1> QED BY <1>2, <1>3, <1>4, <1>5, <1>6, <1>8 DEF Next, Scheduler, Send, Move

(* The Worker (store.ts, scheduler.ts, smtp.ts, index.ts) keeps the        *)
(* promises of DeliveryContract, whatever crashes and writes fail.         *)
THEOREM ImplementsContractCorrect == Spec => ImplementsContract
<1>1. /\ Init => Contract!Init
      /\ Init => StoreInv /\ LoopType /\ IInv
  BY ContractInit, WorkerInit, InitIInv
<1>2. StoreInv /\ LoopType /\ IInv /\ [Next]_vars => (StoreInv /\ LoopType /\ IInv)'
  BY WorkerStoreStep, LoopTypeStep, StepIInv DEF StoreInv
<1>3. StoreInv /\ LoopType /\ IInv /\ [Next]_vars => [Contract!Next]_Contract!vars
  BY ContractStep
<1> QED BY <1>1, <1>2, <1>3, PTL DEF Spec, ImplementsContract, Contract!Spec

-----------------------------------------------------------------------------
(* What the Worker inherits from the contract.                             *)

Promised == INSTANCE ContractProofs WITH stage <- [p \in Ids |-> Stage(disk[p])]

LEMMA ContractIsPromised == ImplementsContract => Promised!Spec
BY DEF ImplementsContract,
  Contract!Spec, Contract!Init, Contract!Next, Contract!vars, Contract!Keep, Contract!Open,
  Contract!Close, Contract!Begin, Contract!Hand, Contract!Settle,
  Promised!Spec, Promised!Init, Promised!Next, Promised!vars, Promised!Keep, Promised!Open,
  Promised!Close, Promised!Begin, Promised!Hand, Promised!Settle

LEMMA VerdictOfStage ==
  ASSUME NEW e \in Entry, NEW f \in Entry, e.status \in Decided
  PROVE  /\ Stage(e) \in Promised!Final
         /\ Stage(f) = Stage(e) => f.status = e.status
<1>1. /\ f.status \in Status \cup {"absent"} /\ e.status \in Decided
      /\ e.kind \in {"send", "move"} /\ f.kind \in {"send", "move"}
  BY EntryStatus DEF Entry
<1> HIDE DEF Entry
<1>2. Stage(e) \in Promised!Final
  BY <1>1 DEF Stage, Decided, Promised!Final
<1>3. Stage(f) = Stage(e) => f.status = e.status
  BY <1>1 DEF Stage, Decided, Status, Terminal
<1> QED BY <1>2, <1>3

VerdictKept(p) ==
  disk[p].status \in Decided
    => disk'[p].status = disk[p].status /\ handed'[p] = handed[p]

(* A verdict that has reached outbox.json is never overwritten, by another *)
(* mark, a failed write or a start of the Worker, and the mail servers see *)
(* nothing more of the proposal.                                           *)
THEOREM VerdictsLast == Spec => [][\A p \in Ids : VerdictKept(p)]_vars
<1> DEFINE Typed == disk \in [Ids -> Entry]
           Last  == \A p \in Ids : VerdictKept(p)
<1>1. Spec => []Typed
  <2>1. StoreInv => Typed
    BY DEF StoreInv, StoreTypeOK
  <2> HIDE DEF Typed
  <2>2. Init => StoreInv /\ LoopType /\ IInv
    BY WorkerInit, InitIInv
  <2>3. StoreInv /\ LoopType /\ IInv /\ [Next]_vars => (StoreInv /\ LoopType /\ IInv)'
    BY WorkerStoreStep, LoopTypeStep, StepIInv DEF StoreInv
  <2> QED BY <2>1, <2>2, <2>3, PTL DEF Spec
<1>2. Typed /\ Typed' /\ [Promised!FinalKept]_Promised!vars => [Last]_vars
  <2> SUFFICES ASSUME Typed, Typed', [Promised!FinalKept]_Promised!vars, NEW p \in Ids,
                      disk[p].status \in Decided
               PROVE  disk'[p].status = disk[p].status /\ handed'[p] = handed[p]
    BY DEF VerdictKept
  <2>1. disk[p] \in Entry /\ disk'[p] \in Entry
    OBVIOUS
  <2>2. Stage(disk'[p]) = Stage(disk[p]) /\ handed'[p] = handed[p]
    <3>1. CASE Promised!FinalKept
      BY <2>1, <3>1, VerdictOfStage DEF Promised!FinalKept, Promised!Keep
    <3>2. CASE UNCHANGED Promised!vars
      <4>1. [q \in Ids |-> Stage(disk'[q])] = [q \in Ids |-> Stage(disk[q])]
        BY <3>2 DEF Promised!vars
      <4>2. [q \in Ids |-> Stage(disk'[q])][p] = [q \in Ids |-> Stage(disk[q])][p]
        BY <4>1
      <4> QED BY <3>2, <4>2 DEF Promised!vars
    <3> QED BY <3>1, <3>2
  <2> QED BY <2>1, <2>2, VerdictOfStage
<1> HIDE DEF Typed, Last
<1> QED
  BY <1>1, <1>2, Promised!VerdictsAreFinal, ImplementsContractCorrect, ContractIsPromised, PTL
  DEF Last
=============================================================================
