----------------------------- MODULE WorkerProofs -----------------------------
(***************************************************************************)
(* Proofs about Worker: the store's invariant survives in the composition, *)
(* and IInv, which ties file, memory, program counter and mail servers     *)
(* together, is inductive; the safety properties of the runs follow.       *)
(***************************************************************************)
EXTENDS Worker, StoreProofs

(* The variables that StoreInv does not constrain.                         *)
LoopType ==
  /\ stopped \in BOOLEAN
  /\ pc \in PC
  /\ calledAt \in Nat
  /\ job \in Ids \cup {NoJob}
  /\ pc \in Processing => job \in Ids
  /\ result \in Results
  /\ handed \in [Ids -> Nat]
  /\ copied \subseteq Ids

LEMMA WorkerInit == Init => StoreInv /\ LoopType
<1> SUFFICES ASSUME Init PROVE StoreInv /\ LoopType
  OBVIOUS
<1>1. StoreInv
  BY StoreInitInv DEF Init
<1>2. LoopType
  BY DEF Init, LoopType, PC, Processing, Results
<1> QED BY <1>1, <1>2

(* Every action of the Worker is an operation of the store or leaves it.   *)
LEMMA WorkerStoreStep == StoreInv /\ LoopType /\ [Next]_vars => StoreInv'
<1> SUFFICES ASSUME StoreInv, LoopType, [Next]_vars PROVE StoreInv'
  OBVIOUS
<1>0. StoreTypeOK /\ Fresh
  BY DEF StoreInv
<1>1. CASE UNCHANGED storeVars
  BY <1>1, StoreStutterInv
<1>2. CASE Handler
  BY <1>0, <1>2, HandlerStepEffect, HandlerInv DEF Handler
<1>3. CASE Claim
  <2>1. PICK o \in Outcomes :
          ClaimNone(calledAt, o) \/ \E p \in Ids : ClaimDue(p, calledAt, o)
    BY <1>3 DEF Claim
  <2> QED BY <1>0, <2>1, ClaimNoneHandled, HandlerInv, ClaimDueInv
<1>4. CASE RecordSent \/ RecordUncertain \/ RecordFailed \/ RecordMove
  <2>1. CASE UNCHANGED storeVars
    BY <2>1, StoreStutterInv
  <2>2. CASE ~UNCHANGED storeVars
    <3>1. \E o : \/ \E w \in BOOLEAN : Mark(job, "sent", w, o)
                 \/ \E s \in Decided : Mark(job, s, FALSE, o)
      BY <1>4, <2>2 DEF RecordSent, RecordUncertain, RecordFailed, RecordMove,
        MarkSent, MarkUncertain, MarkFailed, MarkMoveOutcome, Decided
    <3>2. job \in Ids
      BY <1>4 DEF LoopType, Processing, PC, RecordSent, RecordUncertain, RecordFailed,
        RecordMove
    <3> QED BY <3>1, <3>2, MarkInv DEF Decided
  <2> QED BY <2>1, <2>2
<1>5. CASE Stop
  BY <1>5 DEF Stop, StoreInv, StoreTypeOK, Fresh, DiskIsBehind, Timely
<1>6. CASE Exit \/ CrashWorker
  <2>1. Die /\ crashes' \in Nat
    BY <1>0, <1>6 DEF Exit, CrashWorker, Crash, StoreTypeOK
  <2> QED BY <2>1, DieInv
<1>7. CASE RestartWorker
  BY <1>7, RestartInv DEF RestartWorker
<1>8. CASE TickWorker
  BY <1>8, TickInv DEF TickWorker
<1>9. CASE RunOnce \/ BuildRaw \/ SmtpAccepts \/ SmtpConfirms \/ SmtpFails \/ AppendSentCopy
           \/ MoveThrows \/ MoveBegins \/ MoveReturns
  BY <1>1, <1>9 DEF RunOnce, BuildRaw, SmtpAccepts, SmtpConfirms, SmtpFails, AppendSentCopy,
    MoveThrows, MoveBegins, MoveReturns
<1> QED BY <1>1, <1>2, <1>3, <1>4, <1>5, <1>6, <1>7, <1>8, <1>9
      DEF Next, Scheduler, Send, Move, vars

LEMMA LoopTypeStep == StoreTypeOK /\ LoopType /\ [Next]_vars => LoopType'
<1> SUFFICES ASSUME StoreTypeOK, LoopType, [Next]_vars PROVE LoopType'
  OBVIOUS
<1> USE DEF LoopType, PC, Processing, Results
<1>0. clock \in Nat
  BY BoundsAssumption DEF StoreTypeOK
<1>1. CASE UNCHANGED <<loopVars, mailVars>>
  BY <1>1 DEF loopVars, mailVars
<1>2. CASE RunOnce
  BY <1>0, <1>2 DEF RunOnce, Loop, mailVars
<1>3. CASE Claim
  BY <1>3 DEF Claim, Abandon, mailVars
<1>4. CASE BuildRaw \/ SmtpConfirms \/ SmtpFails \/ MoveThrows
  BY <1>4 DEF BuildRaw, SmtpConfirms, SmtpFails, MoveThrows, Goto, AfterSmtpError, mailVars
<1>5. CASE SmtpAccepts \/ MoveBegins
  BY <1>5 DEF SmtpAccepts, MoveBegins, Goto
<1>6. CASE AppendSentCopy
  BY <1>6 DEF AppendSentCopy
<1>7. CASE RecordSent \/ RecordUncertain \/ RecordFailed \/ RecordMove
  <2>1. UNCHANGED mailVars /\ (Loop \/ Abandon \/ Goto("markFailed"))
    BY <1>7 DEF RecordSent, RecordUncertain, RecordFailed, RecordMove
  <2>2. pc \in Processing
    BY <1>7 DEF RecordSent, RecordUncertain, RecordFailed, RecordMove
  <2> QED BY <1>0, <2>1, <2>2 DEF Loop, Abandon, Goto, mailVars
<1>8. CASE MoveReturns
  BY <1>8 DEF MoveReturns, Decided, mailVars
<1>9. CASE Stop
  BY <1>9 DEF Stop, mailVars
<1>10. CASE Exit \/ CrashWorker
  <2>1. ResetLoop /\ UNCHANGED mailVars
    BY <1>10 DEF Exit, CrashWorker
  <2> QED BY <2>1 DEF ResetLoop, mailVars
<1>11. CASE Handler \/ RestartWorker \/ TickWorker \/ UNCHANGED vars
  BY <1>1, <1>11 DEF Handler, RestartWorker, TickWorker, vars
<1> HIDE DEF LoopType, PC, Processing, Results
<1> QED BY <1>2, <1>3, <1>4, <1>5, <1>6, <1>7, <1>8, <1>9, <1>10, <1>11
      DEF Next, Scheduler, Send, Move

(* For any proposals, bounds, crashes and failed writes the Worker keeps   *)
(* its types (scheduler.ts, index.ts over store.ts).                       *)
THEOREM TypeCorrect == Spec => []TypeOK
<1>1. StoreInv /\ LoopType => TypeOK
  BY DEF StoreInv, LoopType, TypeOK
<1>2. StoreInv /\ LoopType /\ [Next]_vars => (StoreInv /\ LoopType)'
  BY WorkerStoreStep, LoopTypeStep DEF StoreInv
<1> QED BY <1>1, <1>2, WorkerInit, PTL DEF Spec

-----------------------------------------------------------------------------
(* IInv, proposal by proposal.                                             *)
Good(p) ==
  /\ EntryIsTrue(p, mem[p])
  /\ EntryIsTrue(p, disk[p])
  /\ FileLags(p)
  /\ HandedAfterWrite(p)

(* What a step does to a proposal that is not the scheduler's job: at most *)
(* what a handler does (see HandlerEffect).                                *)
Quiet(p) ==
  /\ Handled(mem[p], mem'[p])
  /\ disk'[p] # disk[p] => Handled(mem[p], disk'[p])
  /\ disk'[p] # disk[p] => \/ disk'[p] = mem'[p]
                           \/ Closed(disk'[p], mem'[p])
                           \/ Approved(disk'[p], mem'[p])
  /\ mem'[p].status \in {"approved", "scheduled"}
       => mem'[p] = mem[p] \/ p \in authorised'
  /\ disk'[p].status \in {"approved", "scheduled"}
       => disk'[p] \in {disk[p], mem[p]} \/ p \in authorised'

(* The claimed are out of the handlers' reach.                             *)
LEMMA QuietKeepsClaimed ==
  ASSUME NEW p \in Ids, Quiet(p)
  PROVE  /\ mem[p].status \in Claimed => mem'[p] = mem[p]
         /\ mem[p].status \notin Claimed => mem'[p].status \notin Claimed
         /\ disk'[p] # disk[p] /\ disk'[p].status \in Claimed => disk'[p] = mem[p]
         /\ disk'[p] # disk[p] /\ mem[p].status \in Claimed => disk'[p] = mem[p]
<1> USE DEF Claimed, Decided
<1>1. /\ mem[p].status \in Claimed => mem'[p] = mem[p]
      /\ mem[p].status \notin Claimed => mem'[p].status \notin Claimed
  BY DEF Quiet, Handled, Created, Closed, Approved
<1>2. ASSUME disk'[p] # disk[p]
      PROVE  /\ disk'[p].status \in Claimed => disk'[p] = mem[p]
             /\ mem[p].status \in Claimed => disk'[p] = mem[p]
  BY <1>2 DEF Quiet, Handled, Created, Closed, Approved
<1> QED BY <1>1, <1>2

LEMMA QuietGood ==
  ASSUME StoreTypeOK, NEW p \in Ids, Good(p), Quiet(p), up, up', clock' = clock,
         authorised \subseteq authorised', handed'[p] = handed[p], copied \subseteq copied'
  PROVE  /\ Good(p)'
         /\ mem[p].status \in Claimed => mem'[p] = mem[p]
         /\ disk[p].status \in Claimed => disk'[p].status \in Claimed
<1>1. /\ mem[p].status \in Claimed => mem'[p] = mem[p]
      /\ mem[p].status \notin Claimed => mem'[p].status \notin Claimed
      /\ disk'[p] # disk[p] /\ disk'[p].status \in Claimed => disk'[p] = mem[p]
      /\ disk'[p] # disk[p] /\ mem[p].status \in Claimed => disk'[p] = mem[p]
  BY QuietKeepsClaimed
<1>2. disk[p].status \in Claimed => disk'[p].status \in Claimed
  BY <1>1 DEF Good, FileLags
<1>3. EntryIsTrue(p, mem[p])'
  <2>1. CASE mem'[p] = mem[p]
    BY <2>1 DEF Good, EntryIsTrue
  <2>2. CASE mem'[p] # mem[p]
    <3>1. mem'[p].status \notin Claimed
      BY <1>1, <2>2
    <3>2. mem'[p].status = "approved" => mem'[p].scheduledFor = NoTime
      BY <2>2 DEF Quiet, Handled, Created, Closed, Approved, SameRequest
    <3> QED BY <2>2, <3>1, <3>2 DEF Quiet, EntryIsTrue, Claimed, Decided
  <2> QED BY <2>1, <2>2
<1>4. EntryIsTrue(p, disk[p])'
  <2>1. CASE disk'[p] = disk[p]
    BY <2>1 DEF Good, EntryIsTrue
  <2>2. CASE disk'[p] = mem[p]
    BY <2>2 DEF Good, EntryIsTrue
  <2>3. CASE disk'[p] # disk[p] /\ disk'[p] # mem[p]
    <3>1. disk'[p].status \notin Claimed
      BY <1>1, <2>3
    <3>2. disk'[p].status = "approved" => disk'[p].scheduledFor = NoTime
      BY <2>3 DEF Quiet, Handled, Created, Closed, Approved, SameRequest
    <3> QED BY <2>3, <3>1, <3>2 DEF Quiet, EntryIsTrue, Claimed, Decided
  <2> QED BY <2>1, <2>2, <2>3
<1>5. FileLags(p)'
  <2>1. CASE disk'[p] = disk[p]
    <3>1. mem[p].status \in {"cancelled", "expired"} => mem'[p] = mem[p]
      BY DEF Quiet, Handled, Created, Closed, Approved
    <3>2. mem[p].status # "absent" => mem'[p].status # "absent" /\ mem'[p].kind = mem[p].kind
      BY DEF Quiet, Handled, Created, Closed, Approved, SameRequest
    <3> QED BY <1>1, <2>1, <3>1, <3>2 DEF Good, FileLags, Claimed, Decided
  <2>2. CASE disk'[p] # disk[p]
    <3>1. \/ disk'[p] = mem'[p]
          \/ /\ disk'[p].status \notin Claimed \cup {"cancelled", "expired"}
             /\ mem'[p].status \notin Claimed \cup {"absent"}
             /\ mem'[p].kind = disk'[p].kind
      BY <2>2 DEF Quiet, Closed, Approved, SameRequest, Claimed, Decided
    <3> QED BY <3>1 DEF FileLags, Claimed, Decided
  <2> QED BY <2>1, <2>2
<1>6. HandedAfterWrite(p)'
  BY <1>2 DEF Good, HandedAfterWrite
<1> QED BY <1>1, <1>2, <1>3, <1>4, <1>5, <1>6 DEF Good

LEMMA HandlerQuiet ==
  ASSUME HandlerEffect
  PROVE  \A p \in Ids : Quiet(p)
BY DEF HandlerEffect, Quiet

(* IInv as the proofs use it.                                              *)
LEMMA IInvParts == IInv <=> LoopKnows /\ \A p \in Ids : Good(p)
BY DEF IInv, Good

LEMMA IdleKnows ==
  ASSUME up', pc' \notin Processing, calledAt' <= clock'
  PROVE  LoopKnows'
BY DEF LoopKnows

LEMMA HandlerLoop ==
  ASSUME StoreTypeOK, LoopType, IInv, HandlerEffect, UNCHANGED mailVars
  PROVE  /\ \A p \in Ids : Good(p)'
         /\ UNCHANGED loopVars => LoopKnows'
<1>1. /\ up /\ up' /\ clock' = clock
      /\ authorised \subseteq authorised'
      /\ handed' = handed /\ copied' = copied
      /\ mem' \in [Ids -> Entry] /\ disk' \in [Ids -> Entry]
  BY DEF HandlerEffect, mailVars
<1>2. ASSUME NEW p \in Ids
      PROVE  /\ Good(p)'
             /\ mem[p].status \in Claimed => mem'[p] = mem[p]
             /\ disk[p].status \in Claimed => disk'[p].status \in Claimed
  BY <1>1, QuietGood, HandlerQuiet, IInvParts
<1>3. ASSUME UNCHANGED loopVars PROVE LoopKnows'
  <2>1. CASE pc \in Processing
    <3>1. job \in Ids /\ mem'[job] = mem[job] /\ disk'[job].status \in Claimed
      BY <1>2, <2>1 DEF IInv, LoopKnows
    <3> QED BY <1>1, <1>3, <3>1 DEF IInv, LoopKnows, loopVars
  <2>2. CASE pc \notin Processing
    BY <1>1, <1>3, <2>2, IdleKnows DEF IInv, LoopKnows, loopVars
  <2> QED BY <2>1, <2>2
<1> QED BY <1>2, <1>3

(* The claim of p and the file's claim of p are one write.                 *)
LEMMA ClaimDueGood ==
  ASSUME StoreTypeOK, LoopType, IInv, NEW p \in Ids, NEW o, ClaimDue(p, calledAt, o),
         UNCHANGED mailVars
  PROVE  /\ \A q \in Ids : Good(q)'
         /\ o = "ok" => disk'[p].status = "sending"
         /\ mem'[p] = [mem[p] EXCEPT !.status = "sending"]
         /\ mem'[p].status = "sending"
         /\ mem'[p].kind = mem[p].kind
         /\ handed[p] = 0
<1>0. /\ up /\ up' /\ clock' = clock /\ authorised' = authorised
      /\ handed' = handed /\ copied' = copied /\ "sending" \in Status
      /\ mem[p] \in Entry /\ clock \in Nat /\ calledAt \in Nat
  BY BoundsAssumption DEF ClaimDue, mailVars, Status, StoreTypeOK, LoopType
<1>1. /\ mem' \in [Ids -> Entry]
      /\ disk' \in [Ids -> Entry]
      /\ disk' \in {disk, mem'}
      /\ o = "ok" => disk' = mem'
      /\ Due(mem[p], calledAt)
      /\ mem'[p] = [mem[p] EXCEPT !.status = "sending"]
      /\ \A q \in Ids : q # p => mem'[q] = mem[q] \/ Closed(mem[q], mem'[q])
  BY ClaimDueEffect
<1>2. ASSUME NEW q \in Ids, q # p PROVE Good(q)'
  <2>1. Quiet(q)
    BY <1>1, <1>2 DEF Quiet, Handled, Closed
  <2> QED BY <1>0, <1>1, <2>1, QuietGood, IInvParts
<1>3. /\ mem'[p].status = "sending"
      /\ mem'[p].kind = mem[p].kind
      /\ mem'[p].scheduledFor = mem[p].scheduledFor
  BY <1>0, <1>1, StatusUpdate
<1>4. mem[p].status \in {"approved", "scheduled"}
  BY <1>1 DEF Due
<1>5. p \in authorised
  BY <1>4 DEF IInv, EntryIsTrue
<1>6. mem[p].scheduledFor <= clock
  <2>1. CASE mem[p].status = "approved"
    BY <1>0, <2>1 DEF IInv, EntryIsTrue, NoTime
  <2>2. CASE mem[p].status = "scheduled"
    <3>1. mem[p].scheduledFor <= calledAt /\ calledAt <= clock
      BY <1>1, <2>2 DEF Due, IInv, LoopKnows
    <3> QED BY <1>0, <3>1 DEF Entry, Time, NoTime
  <2> QED BY <1>4, <2>1, <2>2
<1>7. EntryIsTrue(p, mem[p])'
  BY <1>0, <1>3, <1>5, <1>6 DEF EntryIsTrue
<1>8. disk[p].status \notin Claimed
  BY <1>0, <1>4 DEF IInv, FileLags, Claimed, Decided
<1>9. handed[p] = 0
  BY <1>8 DEF IInv, HandedAfterWrite, LoopType
<1>10. CASE disk' = disk
  <2>1. EntryIsTrue(p, disk[p])'
    BY <1>0, <1>10 DEF IInv, EntryIsTrue
  <2>2. FileLags(p)'
    BY <1>0, <1>3, <1>4, <1>8, <1>10 DEF IInv, FileLags, Claimed, Decided
  <2>3. HandedAfterWrite(p)'
    BY <1>0, <1>9 DEF HandedAfterWrite
  <2>4. Good(p)' /\ (o = "ok" => disk'[p].status = "sending")
    BY <1>1, <1>3, <1>7, <2>1, <2>2, <2>3 DEF Good
  <2> QED BY <1>1, <1>2, <1>3, <1>9, <2>4
<1>11. CASE disk' = mem'
  <2>1. EntryIsTrue(p, disk[p])'
    BY <1>7, <1>11
  <2>2. FileLags(p)'
    BY <1>3, <1>11 DEF FileLags, Claimed, Decided
  <2>3. HandedAfterWrite(p)'
    BY <1>0, <1>9 DEF HandedAfterWrite
  <2>4. Good(p)' /\ (o = "ok" => disk'[p].status = "sending")
    BY <1>1, <1>3, <1>7, <1>11, <2>1, <2>2, <2>3 DEF Good
  <2> QED BY <1>1, <1>2, <1>3, <1>9, <2>4
<1> QED BY <1>1, <1>10, <1>11

LEMMA ClaimIInv ==
  ASSUME StoreTypeOK, LoopType, IInv, Claim
  PROVE  IInv'
<1>1. PICK o \in Outcomes :
        \/ ClaimNone(calledAt, o) /\ Abandon
        \/ \E p \in Ids :
             /\ ClaimDue(p, calledAt, o)
             /\ IF o = "ok"
                THEN /\ pc' = IF mem[p].kind = "send" THEN "build" ELSE "move"
                     /\ job' = p
                     /\ calledAt' = 0
                     /\ UNCHANGED <<stopped, result>>
                ELSE Abandon
  BY DEF Claim
<1>2. UNCHANGED mailVars /\ clock \in Nat
  BY BoundsAssumption DEF Claim, StoreTypeOK
<1>3. ASSUME Abandon, up', clock' = clock PROVE LoopKnows'
  BY <1>2, <1>3, IdleKnows DEF Abandon, Processing, PC
<1>4. CASE ClaimNone(calledAt, o) /\ Abandon
  <2>1. HandlerEffect
    BY <1>4, ClaimNoneHandled
  <2>2. \A p \in Ids : Good(p)'
    BY <1>2, <2>1, HandlerLoop
  <2>3. LoopKnows'
    BY <1>3, <1>4, <2>1 DEF HandlerEffect
  <2> QED BY <2>2, <2>3 DEF IInv, Good
<1>5. ASSUME NEW p \in Ids, ClaimDue(p, calledAt, o),
             IF o = "ok"
             THEN /\ pc' = IF mem[p].kind = "send" THEN "build" ELSE "move"
                  /\ job' = p
                  /\ calledAt' = 0
                  /\ UNCHANGED <<stopped, result>>
             ELSE Abandon
      PROVE  IInv'
  <2>1. /\ \A q \in Ids : Good(q)'
        /\ o = "ok" => disk'[p].status = "sending"
        /\ mem'[p].status = "sending"
        /\ mem'[p].kind = mem[p].kind
        /\ handed[p] = 0
    BY <1>2, <1>5, ClaimDueGood
  <2>2. up' /\ clock' = clock /\ handed' = handed
    BY <1>2, <1>5 DEF ClaimDue, mailVars
  <2>3. CASE o # "ok"
    <3>1. LoopKnows'
      BY <1>3, <1>5, <2>2, <2>3
    <3> QED BY <2>1, <3>1 DEF IInv, Good
  <2>4. CASE o = "ok"
    <3>1. mem[p].kind \in {"send", "move"}
      BY DEF StoreTypeOK, Entry
    <3>2. LoopKnows'
      BY <1>2, <1>5, <2>1, <2>2, <2>4, <3>1 DEF LoopKnows, Claimed, Processing, PC
    <3> QED BY <2>1, <3>2 DEF IInv, Good
  <2> QED BY <2>3, <2>4
<1> QED BY <1>1, <1>4, <1>5

-----------------------------------------------------------------------------
(* Recording the outcome of the job.                                       *)

(* The verdict to be recorded is true of what the mail servers did.        *)
Truthful(p, s, w) ==
  /\ s = "sent" => handed[p] = 1
  /\ s = "failed" /\ mem[p].kind = "send" => handed[p] = 0
  /\ s = "sent" /\ mem[p].kind = "send" /\ ~w => p \in copied

LEMMA MarkGood ==
  ASSUME StoreTypeOK, LoopType, IInv, NEW p \in Ids, NEW s \in Decided,
         NEW w \in BOOLEAN, NEW o, Mark(p, s, w, o), Truthful(p, s, w),
         disk[p].status \in Claimed, UNCHANGED mailVars
  PROVE  /\ \A q \in Ids : Good(q)'
         /\ disk'[p].status \in Claimed
         /\ mem'[p].status = s
         /\ mem'[p].kind = mem[p].kind
<1>0. /\ up /\ up' /\ clock' = clock /\ authorised' = authorised
      /\ handed' = handed /\ copied' = copied /\ mem[p] \in Entry
  BY DEF Mark, mailVars, StoreTypeOK
<1>m. Marked(p, s, w, o)
  BY MarkEffect, Zenon
<1>1. /\ mem' \in [Ids -> Entry]
      /\ disk' \in [Ids -> Entry]
      /\ disk' \in {disk, mem'}
      /\ mem[p].status = "sending"
      /\ mem'[p] = [mem[p] EXCEPT !.status = s, !.warned = w]
      /\ \A q \in Ids : q # p => mem'[q] = mem[q]
  BY <1>m DEF Marked
<1>2. ASSUME NEW q \in Ids, q # p PROVE Good(q)'
  <2>1. Quiet(q)
    BY <1>1, <1>2 DEF Quiet, Handled
  <2> QED BY <1>0, <1>1, <2>1, QuietGood, IInvParts
<1>3. /\ mem'[p].status = s
      /\ mem'[p].warned = w
      /\ mem'[p].kind = mem[p].kind
      /\ mem'[p].scheduledFor = mem[p].scheduledFor
  BY <1>0, <1>1 DEF Entry
<1>4. p \in authorised /\ mem[p].scheduledFor <= clock
  BY <1>1 DEF IInv, EntryIsTrue, Claimed
<1>5. EntryIsTrue(p, mem[p])'
  BY <1>0, <1>3, <1>4 DEF EntryIsTrue, Truthful, Decided
<1>6. disk[p].status = "sending"
  BY <1>0, <1>1 DEF IInv, FileLags, Claimed, Decided
<1>7. CASE disk' = disk
  <2>1. EntryIsTrue(p, disk[p])'
    BY <1>0, <1>7 DEF IInv, EntryIsTrue
  <2>2. disk[p].kind = mem[p].kind
    BY <1>0, <1>6 DEF IInv, FileLags
  <2>3. FileLags(p)'
    BY <1>3, <1>6, <1>7, <2>2 DEF FileLags, Claimed, Decided
  <2>4. HandedAfterWrite(p)'
    BY <1>0, <1>7 DEF IInv, HandedAfterWrite
  <2>5. Good(p)'
    BY <1>5, <2>1, <2>3, <2>4 DEF Good
  <2> QED BY <1>2, <1>3, <1>7, <2>5
<1>8. CASE disk' = mem'
  <2>1. EntryIsTrue(p, disk[p])'
    BY <1>5, <1>8
  <2>2. disk'[p].status \in Claimed
    BY <1>3, <1>8 DEF Claimed
  <2>3. FileLags(p)'
    BY <1>3, <1>8 DEF FileLags, Claimed, Decided
  <2>4. HandedAfterWrite(p)'
    BY <1>0, <2>2 DEF IInv, HandedAfterWrite
  <2>5. Good(p)'
    BY <1>5, <2>1, <2>3, <2>4 DEF Good
  <2> QED BY <1>2, <1>3, <2>2, <2>5
<1> QED BY <1>1, <1>7, <1>8

(* After a mark the loop goes on, gives up, or tries markFailed, which     *)
(* finds the job decided.                                                  *)
LEMMA RecordIInv ==
  ASSUME StoreTypeOK, LoopType, IInv, NEW s \in Decided, NEW w \in BOOLEAN, NEW o,
         job \in Ids, Mark(job, s, w, o), Truthful(job, s, w),
         disk[job].status \in Claimed, UNCHANGED mailVars,
         Loop \/ Abandon \/ Goto("markFailed")
  PROVE  IInv'
<1>1. /\ \A q \in Ids : Good(q)'
      /\ disk'[job].status \in Claimed
      /\ mem'[job].status = s
  BY MarkGood, Zenon
<1>2. /\ up' /\ clock' = clock /\ clock \in Nat
  BY BoundsAssumption DEF Mark, StoreTypeOK
<1>3. CASE Loop \/ Abandon
  <2>1. LoopKnows'
    BY <1>2, <1>3, IdleKnows DEF Loop, Abandon, Processing
  <2> QED BY <1>1, <2>1 DEF IInv, Good
<1>4. CASE Goto("markFailed")
  <2>1. LoopKnows'
    BY <1>1, <1>2, <1>4 DEF IInv, LoopKnows, Goto, Processing, PC, Claimed, Decided
  <2> QED BY <1>1, <2>1 DEF IInv, Good
<1> QED BY <1>3, <1>4

LEMMA RecordStepIInv ==
  ASSUME StoreTypeOK, LoopType, IInv,
         RecordSent \/ RecordUncertain \/ RecordFailed \/ RecordMove
  PROVE  IInv'
<1>0. /\ pc \in Processing /\ job \in Ids /\ disk[job].status \in Claimed
      /\ UNCHANGED mailVars
      /\ "sent" \in Decided /\ "failed" \in Decided /\ "uncertain" \in Decided
  BY DEF RecordSent, RecordUncertain, RecordFailed, RecordMove, Processing, PC,
    IInv, LoopKnows, Decided
<1>1. CASE RecordSent
  <2>1. PICK o \in Outcomes : /\ Mark(job, "sent", result = "warning", o)
                              /\ Loop \/ Goto("markFailed")
    BY <1>1 DEF RecordSent, MarkSent
  <2>2. (result = "warning") \in BOOLEAN
    OBVIOUS
  <2>3. Truthful(job, "sent", result = "warning")
    BY <1>0, <1>1 DEF RecordSent, IInv, LoopKnows, Truthful
  <2> QED BY <1>0, <2>1, <2>2, <2>3, RecordIInv, Zenon
<1>2. CASE RecordUncertain
  <2>1. PICK o \in Outcomes : Mark(job, "uncertain", FALSE, o) /\ (Loop \/ Abandon)
    BY <1>2 DEF RecordUncertain, MarkUncertain
  <2>2. Truthful(job, "uncertain", FALSE)
    BY DEF Truthful
  <2> QED BY <1>0, <2>1, <2>2, RecordIInv, Zenon
<1>3. CASE RecordFailed
  <2>1. CASE Markable(job)
    <3>1. PICK o \in Outcomes : Mark(job, "failed", FALSE, o) /\ (Loop \/ Abandon)
      BY <1>3, <2>1 DEF RecordFailed, MarkFailed
    <3>2. Truthful(job, "failed", FALSE)
      BY <1>0, <1>3, <2>1 DEF RecordFailed, Markable, IInv, LoopKnows, Truthful
    <3> QED BY <1>0, <3>1, <3>2, RecordIInv, Zenon
  <2>2. CASE ~Markable(job)
    <3>1. Abandon /\ UNCHANGED storeVars /\ UNCHANGED mailVars
      BY <1>3, <2>2 DEF RecordFailed
    <3>2. up /\ clock \in Nat
      BY <1>0, BoundsAssumption DEF IInv, LoopKnows, Processing, StoreTypeOK
    <3>3. LoopKnows'
      BY <3>1, <3>2, IdleKnows DEF Abandon, storeVars, Processing
    <3>4. \A p \in Ids : Good(p)'
      BY <3>1 DEF storeVars, mailVars, IInv, Good, EntryIsTrue, FileLags, HandedAfterWrite
    <3> QED BY <3>3, <3>4 DEF IInv, Good
  <2> QED BY <2>1, <2>2
<1>4. CASE RecordMove
  <2>1. PICK o \in Outcomes : /\ mem[job].kind = "move" /\ result \in Decided
                              /\ Mark(job, result, FALSE, o)
                              /\ Loop \/ Goto("markFailed")
    BY <1>4 DEF RecordMove, MarkMoveOutcome
  <2>2. Truthful(job, result, FALSE)
    BY <1>0, <1>4, <2>1 DEF RecordMove, IInv, LoopKnows, Truthful
  <2> QED BY <1>0, <2>1, <2>2, RecordIInv, Zenon
<1> QED BY <1>1, <1>2, <1>3, <1>4

-----------------------------------------------------------------------------
(* The steps that leave the store alone.                                   *)

(* The mail server acts on the job, whose claim memory and file both show. *)
LEMMA MailStepGood ==
  ASSUME LoopType, IInv, UNCHANGED storeVars, copied \subseteq copied',
         \/ handed' = handed
         \/ /\ pc \in {"smtp", "move"}
            /\ handed' = [handed EXCEPT ![job] = @ + 1]
  PROVE  \A p \in Ids : Good(p)'
<1>0. mem' = mem /\ disk' = disk /\ up' = up /\ clock' = clock /\ authorised' = authorised
  BY DEF storeVars
<1>1. ASSUME NEW p \in Ids, handed'[p] = handed[p] PROVE Good(p)'
  <2>1. EntryIsTrue(p, mem[p])' /\ EntryIsTrue(p, disk[p])'
    BY <1>0, <1>1 DEF IInv, EntryIsTrue
  <2>2. FileLags(p)' /\ HandedAfterWrite(p)'
    BY <1>0, <1>1 DEF IInv, FileLags, HandedAfterWrite
  <2> QED BY <2>1, <2>2 DEF Good
<1>2. CASE pc \in {"smtp", "move"} /\ handed' = [handed EXCEPT ![job] = @ + 1]
  <2>1. /\ job \in Ids /\ up /\ handed[job] = 0
        /\ mem[job].status = "sending" /\ disk[job].status \in Claimed
    BY <1>2 DEF IInv, LoopKnows, Processing, PC
  <2>2. disk[job].status = "sending"
    BY <2>1 DEF IInv, FileLags, Claimed, Decided
  <2>3. handed'[job] = 1 /\ \A p \in Ids : p # job => handed'[p] = handed[p]
    BY <1>2, <2>1 DEF LoopType
  <2>4. PICK p \in Ids : p = job
    BY <2>1
  <2>5. EntryIsTrue(p, mem[p])' /\ EntryIsTrue(p, disk[p])'
    BY <1>0, <2>1, <2>2, <2>4 DEF IInv, EntryIsTrue, Claimed
  <2>6. FileLags(p)' /\ HandedAfterWrite(p)'
    BY <1>0, <2>1, <2>3, <2>4 DEF IInv, FileLags, HandedAfterWrite
  <2> QED BY <1>1, <2>3, <2>4, <2>5, <2>6 DEF Good
<1> QED BY <1>1, <1>2

LEMMA MailStepIInv ==
  ASSUME StoreTypeOK, LoopType, IInv,
         \/ RunOnce \/ BuildRaw \/ SmtpAccepts \/ SmtpConfirms \/ SmtpFails
         \/ AppendSentCopy \/ MoveThrows \/ MoveBegins \/ MoveReturns
  PROVE  IInv'
<1>0. /\ UNCHANGED storeVars /\ clock' = clock /\ clock \in Nat
      /\ mem' = mem /\ disk' = disk /\ up' = up
  BY BoundsAssumption DEF StoreTypeOK, storeVars, RunOnce, BuildRaw, SmtpAccepts,
    SmtpConfirms, SmtpFails, AppendSentCopy, MoveThrows, MoveBegins, MoveReturns
<1> USE DEF Processing, PC
<1>1. CASE RunOnce
  <2>1. LoopKnows'
    BY <1>0, <1>1, IdleKnows DEF RunOnce, Loop
  <2> QED BY <1>0, <1>1, <2>1, MailStepGood DEF RunOnce, mailVars, IInv, Good
<1>2. CASE BuildRaw \/ SmtpConfirms \/ SmtpFails \/ MoveThrows
  <2>1. LoopKnows'
    BY <1>0, <1>2 DEF BuildRaw, SmtpConfirms, SmtpFails, MoveThrows, Goto, AfterSmtpError,
      mailVars, IInv, LoopKnows
  <2>2. UNCHANGED mailVars
    BY <1>2 DEF BuildRaw, SmtpConfirms, SmtpFails, MoveThrows
  <2> QED BY <1>0, <2>1, <2>2, MailStepGood DEF mailVars, IInv, Good
<1>3. CASE SmtpAccepts \/ MoveBegins
  <2>1. /\ pc \in {"smtp", "move"} /\ handed' = [handed EXCEPT ![job] = @ + 1]
        /\ copied' = copied /\ Goto(IF pc = "smtp" THEN "accepted" ELSE "moved")
    BY <1>0, <1>3 DEF SmtpAccepts, MoveBegins
  <2>2. job \in Ids /\ handed[job] = 0
    BY <2>1 DEF IInv, LoopKnows
  <2>3. handed'[job] = 1
    BY <2>1, <2>2 DEF LoopType
  <2>4. LoopKnows'
    BY <1>0, <2>1, <2>3 DEF Goto, IInv, LoopKnows
  <2> QED BY <1>0, <2>1, <2>4, MailStepGood DEF IInv, Good
<1>4. CASE AppendSentCopy
  <2>1. copied \subseteq copied' /\ handed' = handed
    BY <1>4 DEF AppendSentCopy
  <2>2. LoopKnows'
    BY <1>0, <1>4 DEF AppendSentCopy, IInv, LoopKnows
  <2> QED BY <1>0, <2>1, <2>2, MailStepGood DEF IInv, Good
<1>5. CASE MoveReturns
  <2>1. UNCHANGED mailVars
    BY <1>5 DEF MoveReturns
  <2>2. LoopKnows'
    BY <1>0, <1>5, <2>1 DEF MoveReturns, IInv, LoopKnows, Decided, mailVars
  <2> QED BY <1>0, <2>1, <2>2, MailStepGood DEF mailVars, IInv, Good
<1> HIDE DEF Processing, PC
<1> QED BY <1>1, <1>2, <1>3, <1>4, <1>5

(* The process ends: memory and program counter are lost, file and mail    *)
(* servers stay.                                                           *)
LEMMA DieIInv ==
  ASSUME StoreTypeOK, LoopType, IInv, Die, ResetLoop, UNCHANGED mailVars
  PROVE  IInv'
<1>1. /\ up' = FALSE /\ mem' = Nothing /\ disk' = disk /\ clock' = clock
      /\ authorised' = authorised /\ handed' = handed /\ copied' = copied
      /\ clock \in Nat
  BY BoundsAssumption DEF Die, mailVars, StoreTypeOK
<1>2. LoopKnows'
  BY <1>1 DEF ResetLoop, LoopKnows, Processing
<1>3. ASSUME NEW p \in Ids PROVE Good(p)'
  <2>1. mem'[p].status = "absent"
    BY <1>1, NothingAbsent
  <2>2. EntryIsTrue(p, mem[p])'
    BY <2>1 DEF EntryIsTrue, Claimed, Decided
  <2>3. EntryIsTrue(p, disk[p])'
    BY <1>1 DEF IInv, EntryIsTrue
  <2>4. FileLags(p)'
    BY <1>1, <2>1 DEF FileLags, Decided
  <2>5. HandedAfterWrite(p)'
    BY <1>1 DEF IInv, HandedAfterWrite
  <2> QED BY <2>2, <2>3, <2>4, <2>5 DEF Good
<1> QED BY <1>2, <1>3 DEF IInv, Good

(* initialize turns interrupted work uncertain: claimed stays claimed.     *)
LEMMA RestartIInv ==
  ASSUME StoreTypeOK, LoopType, IInv, RestartWorker
  PROVE  IInv'
<1>0. PICK o \in Outcomes : Restart(o)
  BY DEF RestartWorker
<1>1. /\ mem' \in [Ids -> Entry]
      /\ disk' \in [Ids -> Entry]
      /\ up' \in BOOLEAN
      /\ up' => mem' = disk'
      /\ ~up' => mem' = Nothing
      /\ \A q \in Ids : Reloaded(disk[q], disk'[q])
  BY <1>0, RestartEffect
<1>2. /\ ~up /\ clock' = clock /\ authorised' = authorised
      /\ UNCHANGED loopVars /\ handed' = handed /\ copied' = copied
  BY <1>0 DEF Restart, RestartWorker, mailVars
<1>3. LoopKnows'
  BY <1>1, <1>2 DEF IInv, LoopKnows, loopVars, Processing
<1>4. ASSUME NEW p \in Ids PROVE Good(p)'
  <2>1. disk[p] \in Entry /\ "uncertain" \in Status
    BY DEF StoreTypeOK, Status, Terminal, Decided
  <2>2. /\ disk'[p].status = disk[p].status => disk'[p] = disk[p]
        /\ disk'[p].status \in Claimed <=> disk[p].status \in Claimed
        /\ disk'[p].status # disk[p].status
             => /\ disk'[p].status \in {"uncertain", "cancelled", "expired"}
                /\ disk'[p].scheduledFor = disk[p].scheduledFor
    <3>1. CASE disk'[p] = disk[p]
      BY <3>1
    <3>2. CASE Closed(disk[p], disk'[p])
      BY <3>2 DEF Closed, SameRequest, Claimed, Decided
    <3>3. CASE /\ disk[p].status = "sending"
               /\ disk'[p] = [disk[p] EXCEPT !.status = "uncertain"]
      <4>1. disk'[p].status = "uncertain" /\ disk'[p].scheduledFor = disk[p].scheduledFor
        BY <2>1, <3>3, StatusUpdate
      <4> QED BY <3>3, <4>1 DEF Claimed, Decided
    <3> QED BY <1>1, <3>1, <3>2, <3>3 DEF Reloaded
  <2>3. EntryIsTrue(p, disk[p])'
    BY <1>2, <2>2 DEF IInv, EntryIsTrue, Claimed, Decided
  <2>4. HandedAfterWrite(p)'
    BY <1>2, <2>2 DEF IInv, HandedAfterWrite
  <2>5. CASE up'
    BY <1>1, <2>3, <2>4, <2>5 DEF Good, FileLags, Claimed
  <2>6. CASE ~up'
    <3>1. mem'[p].status = "absent"
      BY <1>1, <2>6, NothingAbsent
    <3>2. EntryIsTrue(p, mem[p])' /\ FileLags(p)'
      BY <2>6, <3>1 DEF EntryIsTrue, FileLags, Claimed, Decided
    <3> QED BY <2>3, <2>4, <3>2 DEF Good
  <2> QED BY <2>5, <2>6
<1> QED BY <1>3, <1>4 DEF IInv, Good

(* Time passes, or shutdown raises its flag: nothing that IInv relates.    *)
LEMMA QuietStepIInv ==
  ASSUME StoreTypeOK, LoopType, IInv, TickWorker \/ Stop \/ UNCHANGED vars
  PROVE  IInv'
<1>1. /\ UNCHANGED <<up, mem, disk, authorised, pc, calledAt, job, result, handed, copied>>
      /\ clock' \in {clock, clock + 1} /\ clock \in Nat /\ calledAt \in Nat
      /\ up \/ stopped' = stopped
  BY BoundsAssumption DEF TickWorker, Tick, Stop, vars, storeVars, loopVars, mailVars,
    StoreTypeOK, LoopType
<1>2. LoopKnows'
  BY <1>1 DEF IInv, LoopKnows
<1>3. ASSUME NEW p \in Ids PROVE Good(p)'
  <2>1. mem[p].scheduledFor \in Int /\ disk[p].scheduledFor \in Int
    BY DEF StoreTypeOK, Entry, Time, NoTime
  <2>2. EntryIsTrue(p, mem[p])' /\ EntryIsTrue(p, disk[p])'
    BY <1>1, <2>1 DEF IInv, EntryIsTrue
  <2>3. FileLags(p)' /\ HandedAfterWrite(p)'
    BY <1>1 DEF IInv, FileLags, HandedAfterWrite
  <2> QED BY <2>2, <2>3 DEF Good
<1> QED BY <1>2, <1>3 DEF IInv, Good

-----------------------------------------------------------------------------
(* IInv is inductive, and the safety properties of the runs follow.        *)
LEMMA InitIInv == Init => IInv
<1> SUFFICES ASSUME Init PROVE IInv
  OBVIOUS
<1>1. clock = 0 /\ calledAt = 0 /\ up /\ pc = "idle"
  BY DEF Init, StoreInit
<1>2. LoopKnows
  BY <1>1 DEF LoopKnows, Processing
<1>3. ASSUME NEW p \in Ids PROVE Good(p)
  <2>1. mem[p].status = "absent" /\ disk[p].status = "absent" /\ handed[p] = 0
    BY NothingAbsent DEF Init, StoreInit
  <2> QED BY <2>1 DEF Init, StoreInit, Good, EntryIsTrue, FileLags, HandedAfterWrite,
        Claimed, Decided
<1> QED BY <1>2, <1>3 DEF IInv, Good

LEMMA StepIInv == StoreInv /\ LoopType /\ IInv /\ [Next]_vars => IInv'
<1> SUFFICES ASSUME StoreInv, LoopType, IInv, [Next]_vars PROVE IInv'
  OBVIOUS
<1>0. StoreTypeOK /\ Fresh
  BY DEF StoreInv
<1>1. CASE Handler
  <2>1. HandlerEffect /\ UNCHANGED loopVars /\ UNCHANGED mailVars
    BY <1>0, <1>1, HandlerStepEffect DEF Handler
  <2> QED BY <1>0, <2>1, HandlerLoop DEF IInv, Good
<1>2. CASE Claim
  BY <1>0, <1>2, ClaimIInv
<1>3. CASE RecordSent \/ RecordUncertain \/ RecordFailed \/ RecordMove
  BY <1>0, <1>3, RecordStepIInv
<1>4. CASE \/ RunOnce \/ BuildRaw \/ SmtpAccepts \/ SmtpConfirms \/ SmtpFails
           \/ AppendSentCopy \/ MoveThrows \/ MoveBegins \/ MoveReturns
  BY <1>0, <1>4, MailStepIInv
<1>5. CASE Exit \/ CrashWorker
  <2>1. Die /\ ResetLoop /\ UNCHANGED mailVars
    BY <1>5 DEF Exit, CrashWorker, Crash
  <2> QED BY <1>0, <2>1, DieIInv
<1>6. CASE RestartWorker
  BY <1>0, <1>6, RestartIInv
<1>7. CASE TickWorker \/ Stop \/ UNCHANGED vars
  BY <1>0, <1>7, QuietStepIInv
<1> QED BY <1>1, <1>2, <1>3, <1>4, <1>5, <1>6, <1>7 DEF Next, Scheduler, Send, Move

(* File, memory, program counter and mail servers agree in every state.    *)
THEOREM InvariantCorrect == Spec => []IInv
<1>1. StoreInv /\ LoopType /\ IInv /\ [Next]_vars => (StoreInv /\ LoopType /\ IInv)'
  BY WorkerStoreStep, LoopTypeStep, StepIInv DEF StoreInv
<1> QED BY <1>1, WorkerInit, InitIInv, PTL DEF Spec

(* No crash, restart or failed write makes the Worker hand a proposal to   *)
(* the mail servers twice (store.ts claimDue and initialize, scheduler.ts).*)
THEOREM AtMostOnceCorrect == Spec => []AtMostOnce
<1>1. IInv => AtMostOnce
  BY DEF IInv, HandedAfterWrite, AtMostOnce
<1> QED BY <1>1, InvariantCorrect, PTL

(* Nothing unapproved and nothing before its time leaves the Worker.       *)
THEOREM OnlyAsAuthorisedCorrect == Spec => []OnlyAsAuthorised
<1>1. IInv => OnlyAsAuthorised
  BY DEF IInv, HandedAfterWrite, EntryIsTrue, OnlyAsAuthorised
<1> QED BY <1>1, InvariantCorrect, PTL

(* The claim reaches outbox.json before the mail server acts, for good.    *)
THEOREM WriteAheadCorrect == Spec => []WriteAhead
<1>1. IInv => WriteAhead
  BY DEF IInv, HandedAfterWrite, WriteAhead, Claimed
<1> QED BY <1>1, InvariantCorrect, PTL

(* The statuses that callers read and the file keeps tell the truth about  *)
(* what the mail servers did.                                              *)
THEOREM VerdictIsTrueCorrect == Spec => []VerdictIsTrue
<1>1. TypeOK /\ IInv => VerdictIsTrue
  <2> SUFFICES ASSUME TypeOK, IInv, NEW p \in Ids
               PROVE  \A e \in {mem[p], disk[p]} :
                        /\ e.status = "sent" => handed[p] = 1
                        /\ e.status = "failed" /\ e.kind = "send" => handed[p] = 0
                        /\ e.status \in {"cancelled", "expired"} => handed[p] = 0
    BY DEF VerdictIsTrue
  <2>1. EntryIsTrue(p, mem[p]) /\ EntryIsTrue(p, disk[p])
    BY DEF IInv
  <2>2. handed[p] = 0 \/ (handed[p] = 1 /\ disk[p].status \in Claimed)
    BY DEF IInv, HandedAfterWrite
  <2>3. disk[p].status \in {"cancelled", "expired"} => handed[p] = 0
    BY <2>2 DEF Claimed, Decided
  <2>4. mem[p].status \in {"cancelled", "expired"} => handed[p] = 0
    <3>1. CASE up
      BY <2>2, <3>1 DEF IInv, FileLags, Claimed, Decided
    <3>2. CASE ~up
      BY <3>2, NothingAbsent DEF IInv, LoopKnows
    <3> QED BY <3>1, <3>2
  <2> QED BY <2>1, <2>3, <2>4 DEF EntryIsTrue
<1> QED BY <1>1, TypeCorrect, InvariantCorrect, PTL

(* A message reported sent without a warning is in the Sent mailbox        *)
(* (sent-copy.ts, and the warning of markSent).                            *)
THEOREM SentCopyIsKeptCorrect == Spec => []SentCopyIsKept
<1>1. IInv => SentCopyIsKept
  BY DEF IInv, EntryIsTrue, SentCopyIsKept
<1> QED BY <1>1, InvariantCorrect, PTL
=============================================================================
