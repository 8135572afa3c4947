----------------------------- MODULE DurableProofs -----------------------------
(***************************************************************************)
(* What callers were told stays true while writes of outbox.json succeed   *)
(* (MaxFaults = 0), however often the process dies: cancelled and expired  *)
(* proposals are not carried out, and no later answer contradicts an       *)
(* earlier one.  The run cancel_lost shows that it needs the assumption.   *)
(***************************************************************************)
EXTENDS WorkerProofs

(* Then memory is the file, except for expiries that createMove found and  *)
(* did not write.                                                          *)
InStep(p) == mem[p] \in {disk[p], Expire(disk, clock)[p]}

Kept(p) ==
  /\ up => InStep(p)
  /\ told[p] # "absent" => Reaches(told[p], Standing(p))

DurableInv == \A p \in Ids : Kept(p)

(* The store answers a caller, if at all, with what memory says now.       *)
Answered(p) == told'[p] \in {told[p], mem'[p].status}

LEMMA WritesSucceed ==
  ASSUME MaxFaults = 0, StoreTypeOK PROVE Outcomes = {"ok"}
BY DEF Outcomes, StoreTypeOK

(* Expiring twice is expiring once.                                        *)
LEMMA ExpireAgain ==
  ASSUME StoreTypeOK, NEW p \in Ids, InStep(p)
  PROVE  Expire(mem, clock)[p] = Expire(disk, clock)[p]
<1>1. Expire(disk, clock) \in [Ids -> Entry] /\ "expired" \in Status
  BY ExpireType DEF StoreTypeOK, Status, Terminal
<1>2. CASE Lapsed(disk[p], clock)
  <2>1. Expire(disk, clock)[p] = [disk[p] EXCEPT !.status = "expired"]
    BY <1>2 DEF Expire
  <2>2. Expire(disk, clock)[p].status = "expired"
    BY <1>1, <2>1, StatusUpdate DEF StoreTypeOK
  <2> QED BY <2>2 DEF InStep, Expire, Lapsed
<1>3. CASE ~Lapsed(disk[p], clock)
  BY <1>3 DEF InStep, Expire
<1> QED BY <1>2, <1>3

(* An expiry is one edge of the diagram, now or a tick later.              *)
LEMMA ExpireEdge ==
  ASSUME StoreTypeOK, NEW p \in Ids, NEW now
  PROVE  Edge(disk[p].status, Expire(disk, now)[p].status)
<1>1. "expired" \in Status
  BY DEF Status, Terminal
<1>2. \/ Expire(disk, now)[p] = disk[p]
      \/ /\ disk[p].status = "pending_approval"
         /\ Expire(disk, now)[p] = [disk[p] EXCEPT !.status = "expired"]
  BY ExpireType DEF StoreTypeOK
<1>3. disk[p] \in Entry
  BY DEF StoreTypeOK
<1>4. CASE Expire(disk, now)[p] = disk[p]
  BY <1>4 DEF Edge
<1>5. CASE /\ disk[p].status = "pending_approval"
           /\ Expire(disk, now)[p] = [disk[p] EXCEPT !.status = "expired"]
  <2>1. Expire(disk, now)[p].status = "expired"
    BY <1>1, <1>3, <1>5, StatusUpdate
  <2> QED BY <1>5, <2>1 DEF Edge
<1> QED BY <1>2, <1>4, <1>5

-----------------------------------------------------------------------------
(* The operations of a running store: the file becomes what memory is, or  *)
(* memory alone notices that windows have closed.                          *)
Written == disk' = mem'
Noticed == disk' = disk /\ mem' \in {mem, Expire(mem, clock)}

Operation ==
  /\ up /\ up' /\ clock' = clock
  /\ Written \/ Noticed
  /\ \A p \in Ids : Edge(mem[p].status, mem'[p].status) /\ Answered(p)

LEMMA OperationKeeps ==
  ASSUME StoreTypeOK, StoreTypeOK', DurableInv, Operation
  PROVE  DurableInv'
<1> SUFFICES ASSUME NEW p \in Ids PROVE Kept(p)'
  BY DEF DurableInv
<1>1. Kept(p) /\ up /\ up'
  BY DEF DurableInv, Operation
<1>2. InStep(p)'
  <2>1. CASE Written
    BY <2>1 DEF InStep, Written
  <2>2. CASE disk' = disk /\ clock' = clock /\ mem' = mem
    BY <1>1, <2>2 DEF Kept, InStep
  <2>3. CASE disk' = disk /\ clock' = clock /\ mem' = Expire(mem, clock)
    BY <1>1, <2>3, ExpireAgain DEF Kept, InStep
  <2> QED BY <2>1, <2>2, <2>3 DEF Operation, Noticed
<1>3. told'[p] # "absent" => Reaches(told'[p], mem'[p].status)
  <2>1. CASE told'[p] = mem'[p].status
    BY <2>1 DEF Reaches
  <2>2. CASE told'[p] = told[p]
    <3>1. /\ told[p] \in Status \cup {"absent"}
          /\ mem[p].status \in Status \cup {"absent"}
          /\ mem'[p].status \in Status \cup {"absent"}
      BY EntryStatus DEF StoreTypeOK
    <3>2. Edge(mem[p].status, mem'[p].status)
      BY DEF Operation
    <3> QED BY <1>1, <2>2, <3>1, <3>2, ReachesEdge DEF Kept, Standing
  <2> QED BY <2>1, <2>2 DEF Operation, Answered
<1> QED BY <1>1, <1>2, <1>3 DEF Kept, Standing

LEMMA RefreshOperates ==
  ASSUME NEW now, Refresh(now, "ok")
  PROVE  Written \/ Noticed
BY DEF Refresh, Persist, Written, Noticed

LEMMA HandlerOperates ==
  ASSUME MaxFaults = 0, StoreTypeOK, Fresh, HandlerStep
  PROVE  Operation
<1>1. HandlerEffect
  BY HandlerStepEffect
<1>2. up /\ up' /\ clock' = clock
  BY <1>1 DEF HandlerEffect
<1>3. \A p \in Ids : Edge(mem[p].status, mem'[p].status)
  BY <1>1, HandledEdge DEF HandlerEffect, StoreTypeOK
<1>4. PICK p \in Ids :
        \/ \E d \in Drafts : Create(p, d, "ok") \/ CreateMove(p, d, "ok") \/ RepeatMove(p, d)
        \/ Get(p, "ok")
        \/ \E now \in (clock - QueueLag) .. clock : Approve(p, now, "ok")
        \/ Cancel(p, "ok")
  BY WritesSucceed DEF HandlerStep
<1>5. told \in [Ids -> Status \cup {"absent"}] /\ mem \in [Ids -> Entry]
  BY DEF StoreTypeOK
<1>6. ASSUME \/ told' = told
             \/ \E s : told' = [told EXCEPT ![p] = s] /\ mem'[p].status = s
      PROVE  \A q \in Ids : Answered(q)
  BY <1>5, <1>6 DEF Answered
<1>7. ASSUME NEW d \in Drafts, CreateWith(p, d, "ok")
      PROVE  (Written \/ Noticed) /\ \A q \in Ids : Answered(q)
  <2>1. mem' = [Expire(mem, clock) EXCEPT ![p] = NewEntry(d)] /\ disk' = mem'
    BY <1>7 DEF CreateWith, Persist
  <2>2. mem'[p].status = "pending_approval"
    BY <1>5, <2>1, ExpireType DEF NewEntry
  <2> QED BY <1>6, <1>7, <2>1, <2>2 DEF CreateWith, Answer, Written
<1>8. ASSUME NEW d \in Drafts, RepeatMove(p, d)
      PROVE  (Written \/ Noticed) /\ \A q \in Ids : Answered(q)
  BY <1>6, <1>8 DEF RepeatMove, Noticed
<1>9. ASSUME Get(p, "ok")
      PROVE  (Written \/ Noticed) /\ \A q \in Ids : Answered(q)
  BY <1>6, <1>9, RefreshOperates DEF Get, Answer
<1>10. ASSUME NEW now, NEW acceptable, Refuse(now, "ok", acceptable)
       PROVE  (Written \/ Noticed) /\ \A q \in Ids : Answered(q)
  BY <1>6, <1>10, RefreshOperates DEF Refuse
<1>11. ASSUME NEW now, Approve(p, now, "ok")
       PROVE  (Written \/ Noticed) /\ \A q \in Ids : Answered(q)
  <2> DEFINE status == IF mem[p].scheduledFor # NoTime THEN "scheduled" ELSE "approved"
             seen   == Expire(mem, now)
             next   == [seen EXCEPT ![p].status = status, ![p].approvedAt = now]
  <2>1. CASE Refuse(now, "ok", Approvable(seen[p]))
    BY <1>10, <2>1
  <2>2. CASE Persist(Flushed(now), next, "ok") /\ Answer(p, status, "ok")
    <3>1. seen \in [Ids -> Entry] /\ seen[p] \in Entry
      BY <1>5, ExpireType
    <3>2. next[p] = [seen[p] EXCEPT !.status = status, !.approvedAt = now]
      BY <3>1
    <3>3. next[p].status = status
      BY <3>1, <3>2 DEF Entry
    <3>4. mem' = next /\ disk' = mem'
      BY <2>2 DEF Persist
    <3> QED BY <1>6, <2>2, <3>3, <3>4 DEF Answer, Written
  <2> QED BY <1>11, <2>1, <2>2 DEF Approve
<1>12. ASSUME Cancel(p, "ok")
       PROVE  (Written \/ Noticed) /\ \A q \in Ids : Answered(q)
  <2> DEFINE seen == Expire(mem, clock)
             next == [seen EXCEPT ![p].status = "cancelled"]
  <2>1. CASE Refuse(clock, "ok", Cancellable(seen[p]) \/ seen[p].status = "cancelled")
    BY <1>10, <2>1
  <2>2. CASE /\ seen[p].status = "cancelled"
             /\ Refresh(clock, "ok")
             /\ Answer(p, "cancelled", "ok")
    <3>1. mem' = seen
      BY <2>2, RefreshType
    <3> QED BY <1>6, <2>2, <3>1, RefreshOperates DEF Answer
  <2>3. CASE Persist(Flushed(clock), next, "ok") /\ Answer(p, "cancelled", "ok")
    <3>1. seen \in [Ids -> Entry] /\ seen[p] \in Entry /\ "cancelled" \in Status
      BY <1>5, ExpireType DEF Status, Terminal
    <3>2. next[p] = [seen[p] EXCEPT !.status = "cancelled"]
      BY <3>1
    <3>3. next[p].status = "cancelled"
      BY <3>1, <3>2, StatusUpdate
    <3>4. mem' = next /\ disk' = mem'
      BY <2>3 DEF Persist
    <3> QED BY <1>6, <2>3, <3>3, <3>4 DEF Answer, Written
  <2> QED BY <1>12, <2>1, <2>2, <2>3 DEF Cancel
<1>13. (Written \/ Noticed) /\ \A q \in Ids : Answered(q)
  <2>1. CASE \E d \in Drafts :
               Create(p, d, "ok") \/ CreateMove(p, d, "ok") \/ RepeatMove(p, d)
    BY <1>7, <1>8, <2>1 DEF Create, CreateMove
  <2>2. CASE ~ \E d \in Drafts :
               Create(p, d, "ok") \/ CreateMove(p, d, "ok") \/ RepeatMove(p, d)
    BY <1>4, <1>9, <1>11, <1>12, <2>2
  <2> QED BY <2>1, <2>2
<1> QED BY <1>2, <1>3, <1>13 DEF Operation

LEMMA ClaimOperates ==
  ASSUME MaxFaults = 0, StoreTypeOK, Claim
  PROVE  Operation
<1>1. \/ ClaimNone(calledAt, "ok")
      \/ \E p \in Ids : ClaimDue(p, calledAt, "ok")
  BY WritesSucceed DEF Claim
<1>2. CASE ClaimNone(calledAt, "ok")
  <2>1. HandlerEffect
    BY <1>2, ClaimNoneHandled
  <2>2. Written \/ Noticed
    BY <1>2, RefreshOperates DEF ClaimNone
  <2>3. \A p \in Ids : Edge(mem[p].status, mem'[p].status)
    BY <2>1, HandledEdge DEF HandlerEffect, StoreTypeOK
  <2> QED BY <1>2, <2>1, <2>2, <2>3 DEF ClaimNone, HandlerEffect, Operation, Answered
<1>3. ASSUME NEW p \in Ids, ClaimDue(p, calledAt, "ok") PROVE Operation
  <2>1. /\ disk' = mem'
        /\ Due(mem[p], calledAt)
        /\ mem'[p] = [mem[p] EXCEPT !.status = "sending"]
        /\ \A q \in Ids : q # p => mem'[q] = mem[q] \/ Closed(mem[q], mem'[q])
    BY <1>3, ClaimDueEffect
  <2>2. mem'[p].status = "sending"
    BY <2>1, StatusUpdate DEF StoreTypeOK, Status
  <2>3. \A q \in Ids : Edge(mem[q].status, mem'[q].status)
    BY <2>1, <2>2 DEF Due, Closed, Edge
  <2> QED BY <1>3, <2>1, <2>3 DEF ClaimDue, Operation, Written, Answered
<1> QED BY <1>1, <1>2, <1>3

LEMMA MarkOperates ==
  ASSUME StoreTypeOK, NEW p \in Ids, NEW s \in Decided, NEW w \in BOOLEAN,
         Mark(p, s, w, "ok")
  PROVE  Operation
<1>1. Marked(p, s, w, "ok")
  BY MarkEffect, Zenon
<1>2. mem'[p].status = s
  BY <1>1 DEF Marked, StoreTypeOK, Entry
<1>3. \A q \in Ids : Edge(mem[q].status, mem'[q].status)
  BY <1>1, <1>2 DEF Marked, Edge, Decided
<1> QED BY <1>1, <1>3 DEF Mark, Marked, Operation, Written, Answered

LEMMA RecordOperates ==
  ASSUME MaxFaults = 0, StoreTypeOK, LoopType,
         RecordSent \/ RecordUncertain \/ RecordFailed \/ RecordMove
  PROVE  Operation \/ UNCHANGED storeVars
<1>1. job \in Ids
  BY DEF LoopType, Processing, PC, RecordSent, RecordUncertain, RecordFailed, RecordMove
<1>2. CASE UNCHANGED storeVars
  BY <1>2
<1>3. CASE ~UNCHANGED storeVars
  <2>1. \/ \E w \in BOOLEAN : Mark(job, "sent", w, "ok")
        \/ \E s \in Decided : Mark(job, s, FALSE, "ok")
    BY <1>3, WritesSucceed DEF RecordSent, RecordUncertain, RecordFailed, RecordMove,
      MarkSent, MarkUncertain, MarkFailed, MarkMoveOutcome, Decided
  <2>2. PICK s \in Decided, w \in BOOLEAN : Mark(job, s, w, "ok")
    BY <2>1 DEF Decided
  <2> QED BY <1>1, <2>2, MarkOperates
<1> QED BY <1>2, <1>3

-----------------------------------------------------------------------------
(* The process and the clock.                                              *)

(* A death, a start and a tick take each proposal one edge further at most *)
(* from where it stands.                                                   *)
LEMMA DieEdge ==
  ASSUME StoreTypeOK, NEW p \in Ids, InStep(p), Die
  PROVE  Edge(Standing(p), Standing(p)')
<1>1. Standing(p) = mem[p].status /\ Standing(p)' = Expire(disk, clock)[p].status
  BY DEF Die, Standing
<1> QED BY <1>1, ExpireEdge DEF InStep, Edge

LEMMA RestartEdge ==
  ASSUME StoreTypeOK, NEW p \in Ids, Restart("ok")
  PROVE  Edge(Standing(p), Standing(p)')
<1>1. Expire(disk, clock)[p] \in Entry /\ "uncertain" \in Status
  BY ExpireType DEF StoreTypeOK, Status, Terminal, Decided
<1>2. /\ Standing(p) = Expire(disk, clock)[p].status
      /\ Standing(p)' = Recovered(Expire(disk, clock)[p]).status
  BY DEF Restart, Standing
<1> QED BY <1>1, <1>2, StatusUpdate DEF Recovered, Edge, Decided

LEMMA LaterExpiry ==
  ASSUME StoreTypeOK, NEW p \in Ids
  PROVE  \/ Expire(disk, clock)[p] = disk[p]
         \/ Expire(disk, clock + 1)[p] = Expire(disk, clock)[p]
<1>1. clock \in Nat /\ Ttl \in Nat /\ disk[p] \in Entry
  BY BoundsAssumption DEF StoreTypeOK
<1>2. Lapsed(disk[p], clock) => Lapsed(disk[p], clock + 1)
  BY <1>1 DEF Lapsed, Entry
<1> QED BY <1>2 DEF Expire

LEMMA TickEdge ==
  ASSUME StoreTypeOK, NEW p \in Ids, Tick
  PROVE  Edge(Standing(p), Standing(p)')
<1>1. up' = up /\ mem' = mem /\ disk' = disk /\ clock' = clock + 1
  BY DEF Tick
<1>2. CASE up
  BY <1>1, <1>2 DEF Standing, Edge
<1>3. CASE ~up
  <2>1. /\ Standing(p) = Expire(disk, clock)[p].status
        /\ Standing(p)' = Expire(disk, clock + 1)[p].status
    BY <1>1, <1>3 DEF Standing
  <2> QED BY <2>1, LaterExpiry, ExpireEdge DEF Edge
<1> QED BY <1>2, <1>3

LEMMA StandingEdge ==
  ASSUME StoreTypeOK, StoreTypeOK', NEW p \in Ids, Kept(p), told' = told,
         Standing(p) \in Status \cup {"absent"},
         Standing(p)' \in Status \cup {"absent"},
         Edge(Standing(p), Standing(p)'), (up => InStep(p))'
  PROVE  Kept(p)'
BY ReachesEdge DEF Kept, StoreTypeOK

LEMMA StandingStatus ==
  ASSUME StoreTypeOK, NEW p \in Ids PROVE Standing(p) \in Status \cup {"absent"}
BY EntryStatus, ExpireType DEF Standing, StoreTypeOK

LEMMA DieKeeps ==
  ASSUME StoreTypeOK, StoreTypeOK', DurableInv, Die
  PROVE  DurableInv'
<1> SUFFICES ASSUME NEW p \in Ids PROVE Kept(p)'
  BY DEF DurableInv
<1>1. up /\ ~up' /\ disk' = disk /\ clock' = clock /\ told' = told
  BY DEF Die
<1>2. Kept(p) /\ InStep(p)
  BY <1>1 DEF DurableInv, Kept
<1>3. Edge(Standing(p), Standing(p)')
  BY <1>2, DieEdge
<1>4. Standing(p) \in Status \cup {"absent"} /\ Standing(p)' \in Status \cup {"absent"}
  BY <1>1, StandingStatus, EntryStatus, ExpireType DEF Standing, StoreTypeOK
<1> QED BY <1>1, <1>2, <1>3, <1>4, StandingEdge

LEMMA RestartKeeps ==
  ASSUME MaxFaults = 0, StoreTypeOK, StoreTypeOK', DurableInv, RestartWorker
  PROVE  DurableInv'
<1> SUFFICES ASSUME NEW p \in Ids PROVE Kept(p)'
  BY DEF DurableInv
<1>1. Restart("ok")
  BY WritesSucceed DEF RestartWorker
<1>2. /\ ~up /\ up' /\ told' = told
      /\ mem'[p] = Recovered(Expire(disk, clock)[p])
      /\ disk'[p] = mem'[p]
  BY <1>1 DEF Restart
<1>3. Kept(p)
  BY DEF DurableInv
<1>4. Edge(Standing(p), Standing(p)')
  BY <1>1, RestartEdge
<1>5. Standing(p) \in Status \cup {"absent"} /\ Standing(p)' \in Status \cup {"absent"}
  BY <1>2, StandingStatus, EntryStatus DEF Standing, StoreTypeOK
<1> QED BY <1>2, <1>3, <1>4, <1>5, StandingEdge DEF InStep

LEMMA TickKeeps ==
  ASSUME StoreTypeOK, StoreTypeOK', DurableInv, Tick
  PROVE  DurableInv'
<1> SUFFICES ASSUME NEW p \in Ids PROVE Kept(p)'
  BY DEF DurableInv
<1>1. up' = up /\ mem' = mem /\ disk' = disk /\ told' = told /\ clock' = clock + 1
  BY DEF Tick
<1>2. Kept(p)
  BY DEF DurableInv
<1>3. (up => InStep(p))'
  BY <1>1, <1>2, LaterExpiry DEF Kept, InStep
<1>4. Edge(Standing(p), Standing(p)')
  BY TickEdge
<1>5. Standing(p) \in Status \cup {"absent"} /\ Standing(p)' \in Status \cup {"absent"}
  BY <1>1, StandingStatus, EntryStatus, ExpireType DEF Standing, StoreTypeOK
<1> QED BY <1>1, <1>2, <1>3, <1>4, <1>5, StandingEdge

-----------------------------------------------------------------------------
(* Every step of the Worker is an operation, a death, a start or a tick.   *)
LEMMA StepKinds ==
  ASSUME MaxFaults = 0, StoreInv, LoopType, [Next]_vars
  PROVE  \/ Operation
         \/ Die
         \/ RestartWorker
         \/ Tick
         \/ UNCHANGED <<clock, up, mem, disk, told>>
<1>0. StoreTypeOK /\ Fresh
  BY DEF StoreInv
<1>1. CASE Handler
  BY <1>0, <1>1, HandlerOperates DEF Handler
<1>2. CASE Claim
  BY <1>0, <1>2, ClaimOperates
<1>3. CASE RecordSent \/ RecordUncertain \/ RecordFailed \/ RecordMove
  BY <1>0, <1>3, RecordOperates DEF storeVars
<1>4. CASE \/ RunOnce \/ BuildRaw \/ SmtpAccepts \/ SmtpConfirms \/ SmtpFails
           \/ AppendSentCopy \/ MoveThrows \/ MoveBegins \/ MoveReturns
  BY <1>4 DEF RunOnce, BuildRaw, SmtpAccepts, SmtpConfirms, SmtpFails, AppendSentCopy,
    MoveThrows, MoveBegins, MoveReturns, storeVars
<1>5. CASE Exit \/ CrashWorker \/ RestartWorker \/ TickWorker
  BY <1>5 DEF Exit, CrashWorker, Crash, TickWorker
<1>6. CASE Stop \/ UNCHANGED vars
  BY <1>6 DEF Stop, vars, storeVars
<1> QED BY <1>1, <1>2, <1>3, <1>4, <1>5, <1>6 DEF Next, Scheduler, Send, Move

LEMMA DurableStep ==
  ASSUME MaxFaults = 0, StoreInv, StoreInv', LoopType, DurableInv, [Next]_vars
  PROVE  DurableInv'
<1>0. StoreTypeOK /\ StoreTypeOK'
  BY DEF StoreInv
<1>1. CASE UNCHANGED <<clock, up, mem, disk, told>>
  BY <1>1 DEF DurableInv, Kept, InStep, Standing
<1> QED BY <1>0, <1>1, StepKinds, OperationKeeps, DieKeeps, RestartKeeps, TickKeeps

LEMMA DurableInit == Init => DurableInv
BY DEF Init, StoreInit, DurableInv, Kept, InStep

LEMMA AnswersLastStep ==
  ASSUME MaxFaults = 0, StoreInv, StoreInv', LoopType, DurableInv, [Next]_vars,
         NEW p \in Ids, told[p] # "absent"
  PROVE  Reaches(told[p], told'[p])
<1>1. Kept(p)'
  BY DurableStep DEF DurableInv
<1>2. CASE told'[p] = told[p]
  BY <1>2 DEF Reaches
<1>3. CASE Operation /\ told'[p] = mem'[p].status
  <2>1. Reaches(told[p], mem[p].status) /\ Edge(mem[p].status, mem'[p].status)
    BY <1>3 DEF DurableInv, Kept, Standing, Operation
  <2>2. /\ told[p] \in Status \cup {"absent"}
        /\ mem[p].status \in Status \cup {"absent"}
        /\ mem'[p].status \in Status \cup {"absent"}
    BY EntryStatus DEF StoreInv, StoreTypeOK
  <2> QED BY <1>3, <2>1, <2>2, ReachesEdge
<1> QED BY <1>2, <1>3, StepKinds DEF Operation, Answered, Die, RestartWorker, Restart, Tick

LEMMA DurableCorrect ==
  ASSUME MaxFaults = 0
  PROVE  Spec => [](StoreInv /\ LoopType /\ IInv /\ DurableInv)
<1>1. StoreInv /\ LoopType /\ IInv /\ DurableInv /\ [Next]_vars
        => (StoreInv /\ LoopType /\ IInv /\ DurableInv)'
  BY WorkerStoreStep, LoopTypeStep, StepIInv, DurableStep DEF StoreInv
<1> QED BY <1>1, WorkerInit, InitIInv, DurableInit, PTL DEF Spec

(* While writes succeed, a proposal that a caller was told is cancelled or *)
(* expired is not carried out, in this process or a later one.             *)
THEOREM CancelSticksCorrect ==
  ASSUME MaxFaults = 0 PROVE Spec => []CancelSticks
<1>1. StoreInv /\ LoopType /\ IInv /\ DurableInv => CancelSticks
  <2> SUFFICES ASSUME StoreInv, IInv, DurableInv, NEW p \in Ids,
                      told[p] \in {"cancelled", "expired"}
               PROVE  handed[p] = 0
    BY DEF CancelSticks
  <2>1. Standing(p) = told[p] /\ (up => InStep(p))
    BY DEF DurableInv, Kept, Reaches, Future
  <2>2. handed[p] = 0 \/ disk[p].status \in Claimed
    BY DEF IInv, HandedAfterWrite
  <2>3. Edge(disk[p].status, Expire(disk, clock)[p].status)
    BY ExpireEdge DEF StoreInv
  <2>4. told[p] \in {disk[p].status, Expire(disk, clock)[p].status}
    BY <2>1 DEF Standing, InStep
  <2> QED BY <2>2, <2>3, <2>4 DEF Edge, Claimed, Decided
<1> QED BY <1>1, DurableCorrect, PTL

(* While writes succeed, what one answer said of a proposal, a later       *)
(* answer repeats or continues, across deaths and starts of the Worker.    *)
THEOREM AnswersLastCorrect ==
  ASSUME MaxFaults = 0 PROVE Spec => AnswersLast
<1>1. /\ StoreInv /\ LoopType /\ IInv /\ DurableInv
      /\ (StoreInv /\ LoopType /\ IInv /\ DurableInv)'
      /\ [Next]_vars
      => [\A p \in Ids : told[p] # "absent" => Reaches(told[p], told'[p])]_storeVars
  BY AnswersLastStep
<1> QED BY <1>1, DurableCorrect, PTL DEF Spec, AnswersLast

-----------------------------------------------------------------------------
(* Nothing is left behind in "sending".                                    *)

InHand(p) == mem[p].status = "sending" => pc \in Processing /\ job = p

SendingIsInHand == \A p \in Ids : InHand(p)

(* Who never was "sending" does not become it, except by a claim.          *)
LEMMA HandlersClaimNothing ==
  ASSUME StoreTypeOK, HandlerEffect, NEW p \in Ids, mem'[p].status = "sending"
  PROVE  mem[p].status = "sending"
BY DEF HandlerEffect, Handled, Created, Closed, Approved

LEMMA ClaimInHand ==
  ASSUME MaxFaults = 0, StoreTypeOK, SendingIsInHand, Claim, NEW p \in Ids
  PROVE  InHand(p)'
<1> DEFINE Taken(q) ==
             /\ ClaimDue(q, calledAt, "ok")
             /\ pc' = IF mem[q].kind = "send" THEN "build" ELSE "move"
             /\ job' = q
<1>1. mem[p].status # "sending"
  BY DEF SendingIsInHand, InHand, Claim, Processing
<1>2. \/ ClaimNone(calledAt, "ok")
      \/ \E q \in Ids : Taken(q)
  BY WritesSucceed DEF Claim
<1>3. CASE ClaimNone(calledAt, "ok")
  BY <1>1, <1>3, ClaimNoneHandled, HandlersClaimNothing DEF InHand
<1>4. ASSUME NEW q \in Ids, Taken(q) PROVE InHand(p)'
  <2>1. CASE p = q
    BY <1>4, <2>1 DEF InHand, Processing, PC
  <2>2. CASE p # q
    <3>1. mem'[p] = mem[p] \/ Closed(mem[p], mem'[p])
      BY <1>4, <2>2, ClaimDueEffect
    <3> QED BY <1>1, <3>1 DEF Closed, InHand
  <2> QED BY <2>1, <2>2
<1> QED BY <1>2, <1>3, <1>4

LEMMA RecordInHand ==
  ASSUME MaxFaults = 0, StoreTypeOK, LoopType, SendingIsInHand, NEW p \in Ids,
         RecordSent \/ RecordUncertain \/ RecordFailed \/ RecordMove
  PROVE  InHand(p)'
<1>1. job \in Ids
  BY DEF LoopType, Processing, PC, RecordSent, RecordUncertain, RecordFailed, RecordMove
<1>2. CASE RecordFailed /\ ~Markable(job)
  <2>1. mem' = mem /\ mem[job].status # "sending"
    BY <1>2 DEF RecordFailed, Markable, storeVars
  <2> QED BY <2>1 DEF SendingIsInHand, InHand
<1>3. CASE ~(RecordFailed /\ ~Markable(job))
  <2>1. \/ \E w \in BOOLEAN : Mark(job, "sent", w, "ok")
        \/ \E s \in Decided : Mark(job, s, FALSE, "ok")
    BY <1>3, WritesSucceed DEF RecordSent, RecordUncertain, RecordFailed, RecordMove,
      MarkSent, MarkUncertain, MarkFailed, MarkMoveOutcome, Decided
  <2>2. PICK s \in Decided, w \in BOOLEAN : Mark(job, s, w, "ok")
    BY <2>1 DEF Decided
  <2>3. Marked(job, s, w, "ok")
    BY <1>1, <2>2, MarkEffect, Zenon
  <2>4. mem'[job].status = s
    BY <1>1, <2>3 DEF Marked, StoreTypeOK, Entry
  <2>5. p # job => mem[p].status # "sending" /\ mem'[p] = mem[p]
    BY <2>3 DEF SendingIsInHand, InHand, Marked
  <2> QED BY <2>4, <2>5 DEF InHand, Decided
<1> QED BY <1>2, <1>3

LEMMA SendingStep ==
  ASSUME MaxFaults = 0, StoreInv, LoopType, IInv, IInv', SendingIsInHand, [Next]_vars,
         NEW p \in Ids
  PROVE  InHand(p)'
<1>0. StoreTypeOK /\ Fresh
  BY DEF StoreInv
<1>1. CASE Handler
  <2>1. HandlerEffect /\ UNCHANGED <<pc, job>>
    BY <1>0, <1>1, HandlerStepEffect DEF Handler, loopVars
  <2> QED BY <1>0, <2>1, HandlersClaimNothing DEF SendingIsInHand, InHand
<1>2. CASE Claim
  BY <1>0, <1>2, ClaimInHand
<1>3. CASE RecordSent \/ RecordUncertain \/ RecordFailed \/ RecordMove
  BY <1>0, <1>3, RecordInHand
<1>4. CASE RunOnce
  BY <1>4 DEF RunOnce, storeVars, SendingIsInHand, InHand, Processing
<1>5. CASE \/ BuildRaw \/ SmtpAccepts \/ SmtpConfirms \/ SmtpFails
           \/ AppendSentCopy \/ MoveThrows \/ MoveBegins \/ MoveReturns
  <2>1. mem' = mem /\ job' = job /\ pc' \in Processing
    BY <1>5 DEF BuildRaw, SmtpAccepts, SmtpConfirms, SmtpFails, AfterSmtpError,
      AppendSentCopy, MoveThrows, MoveBegins, MoveReturns, Goto, storeVars, Processing, PC
  <2> QED BY <2>1 DEF SendingIsInHand, InHand
<1>6. CASE Exit \/ CrashWorker
  <2>1. mem' = Nothing
    BY <1>6 DEF Exit, CrashWorker, Crash, Die
  <2> QED BY <2>1 DEF InHand, Nothing, Absent
<1>7. CASE RestartWorker
  <2>1. mem'[p] = Recovered(Expire(disk, clock)[p])
    BY <1>7, WritesSucceed, <1>0 DEF RestartWorker, Restart
  <2>2. Expire(disk, clock)[p] \in Entry /\ "uncertain" \in Status
    BY <1>0, ExpireType DEF StoreTypeOK, Status, Terminal, Decided
  <2> QED BY <2>1, <2>2, StatusUpdate DEF Recovered, InHand
<1>8. CASE TickWorker \/ Stop \/ UNCHANGED vars
  BY <1>8 DEF TickWorker, Tick, Stop, vars, storeVars, loopVars, SendingIsInHand, InHand
<1> QED
  BY <1>1, <1>2, <1>3, <1>4, <1>5, <1>6, <1>7, <1>8 DEF Next, Scheduler, Send, Move

(* While writes succeed, no proposal is left in "sending": the only one    *)
(* that says so is the one the scheduler has in hand, whose processing     *)
(* ends with a verdict (scheduler.ts:102-118).  The run worker_stuck shows *)
(* that it needs the assumption.                                           *)
THEOREM NothingIsLeftSending ==
  ASSUME MaxFaults = 0 PROVE Spec => []SendingIsInHand
<1>1. Init => SendingIsInHand
  BY DEF Init, StoreInit, Nothing, Absent, SendingIsInHand, InHand
<1> DEFINE Inv == StoreInv /\ LoopType /\ IInv /\ DurableInv
<1>2. Inv /\ Inv' /\ SendingIsInHand /\ [Next]_vars => SendingIsInHand'
  BY SendingStep DEF SendingIsInHand
<1>3. Spec => []Inv
  BY DurableCorrect
<1> HIDE DEF Inv
<1> QED BY <1>1, <1>2, <1>3, PTL DEF Spec

-----------------------------------------------------------------------------
(* Refinement.                                                             *)

(* An edge of the diagram is a step of ProposalLife, or none.              *)
LEMMA EdgeIsLife ==
  ASSUME NEW s \in Status \cup {"absent"}, NEW t \in Status \cup {"absent"}, Edge(s, t)
  PROVE  \/ LifeOf(t) = LifeOf(s)
         \/ LifeOf(s) = "absent" /\ LifeOf(t) = "pending_approval"
         \/ Life!CanBecome(LifeOf(s), LifeOf(t))
BY DEF Edge, LifeOf, Life!CanBecome, Claimed, Decided, Status, Terminal

LEMMA StandingStep ==
  ASSUME MaxFaults = 0, StoreInv, LoopType, DurableInv, [Next]_vars, NEW p \in Ids
  PROVE  Edge(Standing(p), Standing(p)')
<1>0. StoreTypeOK
  BY DEF StoreInv
<1>1. CASE Operation
  BY <1>1 DEF Operation, Standing
<1>2. CASE Die
  BY <1>0, <1>2, DieEdge DEF DurableInv, Kept, Die
<1>3. CASE RestartWorker
  BY <1>0, <1>3, RestartEdge, WritesSucceed DEF RestartWorker
<1>4. CASE Tick
  BY <1>0, <1>4, TickEdge
<1>5. CASE UNCHANGED <<clock, up, mem, disk, told>>
  BY <1>5 DEF Standing, Edge
<1> QED BY <1>1, <1>2, <1>3, <1>4, <1>5, StepKinds

(* While writes succeed, the store is for its callers what the approval    *)
(* routes take it for: each proposal lives as ProposalLife says, whatever  *)
(* the scheduler does and however often the process dies.                  *)
THEOREM ImplementsLifeCorrect ==
  ASSUME MaxFaults = 0 PROVE Spec => ImplementsLife
<1>1. Init => Life!LifeInit
  BY DEF Init, StoreInit, Nothing, Absent, Standing, LifeOf, Claimed, Decided, Life!LifeInit
<1> DEFINE Known == \A p \in Ids : Standing(p) \in Status \cup {"absent"}
<1>2. StoreInv => Known
  BY StandingStatus DEF StoreInv
<1>3. ASSUME StoreInv, LoopType, DurableInv, [Next]_vars, Known, Known'
      PROVE  [Life!LifeNext]_[p \in Ids |-> LifeOf(Standing(p))]
  <2> SUFFICES ASSUME NEW p \in Ids
               PROVE  \/ LifeOf(Standing(p)') = LifeOf(Standing(p))
                      \/ LifeOf(Standing(p)) = "absent"
                         /\ LifeOf(Standing(p)') = "pending_approval"
                      \/ Life!CanBecome(LifeOf(Standing(p)), LifeOf(Standing(p)'))
    BY DEF Life!LifeNext, Life!Born
  <2> QED BY <1>3, StandingStep, EdgeIsLife
<1> HIDE DEF Known
<1> QED BY <1>1, <1>2, <1>3, DurableCorrect, PTL DEF Spec, ImplementsLife, Life!LifeSpec
=============================================================================
