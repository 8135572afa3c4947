------------------------------ MODULE MoveProofs ------------------------------
(***************************************************************************)
(* Theorems about MoveExecution, for any messages, mailboxes, batches and  *)
(* requests, and any number of crashes, renumberings and moves of other    *)
(* clients.                                                                *)
(***************************************************************************)
EXTENDS MoveExecution, SequenceTheorems, TLAPS

-----------------------------------------------------------------------------
(* Types.                                                                  *)

LEMMA SnapshotType ==
  ASSUME NEW r \in Request, NEW m \in Messages
  PROVE  Snapshot(r, m) \in Item
BY DEF Snapshot, Item, Request

LEMMA ReportType ==
  ASSUME NEW item \in Item, NEW r \in {"pending", "moved", "failed", "uncertain"},
         NEW u \in Nat
  PROVE  [item EXCEPT !.result = r, !.destUid = u] \in Item
BY DEF Item

LEMMA CurrentType ==
  ASSUME TypeOK, job # NoBatch, MoreItems
  PROVE  Current \in Item /\ Len(results) + 1 \in DOMAIN items[job]
<1>1. job \in Batches /\ items[job] \in Seq(Item) /\ results \in Seq(Item)
  BY DEF TypeOK
<1>2. Len(results) \in Nat /\ Len(items[job]) \in Nat
  BY <1>1, LenProperties
<1> QED BY <1>1, <1>2 DEF MoreItems, Current

LEMMA PlaceType ==
  ASSUME TypeOK, NEW m \in Messages, NEW b \in Mailboxes, Place(m, b)
  PROVE  /\ box' \in [Messages -> Mailboxes \cup {NoMailbox}]
         /\ uid' \in [Messages -> Nat]
         /\ uidNext' \in [Mailboxes -> Nat]
         /\ uid'[m] = uidNext[b]
BY DEF TypeOK, Place

LEMMA TypeInit == Init => TypeOK
BY MailAssumption DEF Init, TypeOK, BatchStatus

LEMMA TypeStep ==
  ASSUME TypeOK, OneJob, InHand, BatchesKept, [Next]_vars
  PROVE  TypeOK'
<1> USE DEF mailVars, batchVars, loopVars, bounds
<1>1. CASE ForeignClient
  <2>1. PICK m \in Messages :
          /\ box[m] # NoMailbox
          /\ \/ \E b \in Mailboxes \ {box[m]} : Place(m, b)
             \/ box' = [box EXCEPT ![m] = NoMailbox] /\ UNCHANGED <<uid, uidNext>>
    BY <1>1 DEF ForeignClient
  <2>2. /\ box' \in [Messages -> Mailboxes \cup {NoMailbox}]
        /\ uid' \in [Messages -> Nat]
        /\ uidNext' \in [Mailboxes -> Nat]
    BY <2>1, PlaceType DEF TypeOK
  <2>3. /\ foreign' = foreign + 1
        /\ UNCHANGED <<batchVars, loopVars, carried, renumbers, crashes>>
    BY <1>1 DEF ForeignClient
  <2> QED BY <2>2, <2>3 DEF TypeOK
<1>2. ASSUME NEW b \in Mailboxes, Renumber(b) PROVE TypeOK'
  <2>1. PICK f \in [Messages -> 1..MaxUid] :
          uid' = [m \in Messages |-> IF box[m] = b THEN f[m] ELSE uid[m]]
    BY <1>2 DEF Renumber
  <2>2. MaxUid \in Nat /\ \A m \in Messages : f[m] \in Nat
    BY MailAssumption
  <2>3. uid' \in [Messages -> Nat] /\ uidNext' \in [Mailboxes -> Nat]
    BY <1>2, <2>1, <2>2 DEF Renumber, TypeOK
  <2> QED BY <1>2, <2>3 DEF Renumber, TypeOK
<1>3. ASSUME NEW b \in Batches, RequestMove(b) PROVE TypeOK'
  BY <1>3, PolicyAssumption DEF RequestMove, StartBatch, TypeOK, BatchStatus
<1>4. ASSUME NEW b \in Batches, RequestRestore(b) PROVE TypeOK'
  <2>0. PICK o \in Batches :
          /\ Reversible(items[o])
          /\ \E n \in 1..Len(items[o]) : \E pick \in [1..n -> Moved(items[o])] :
               StartBatch(b, [i \in 1..n |-> Reverse(items[o][pick[i]])], o)
    BY <1>4 DEF RequestRestore
  <2>1. PICK n \in 1..Len(items[o]) : \E pick \in [1..n -> Moved(items[o])] :
          StartBatch(b, [i \in 1..n |-> Reverse(items[o][pick[i]])], o)
    BY <2>0
  <2>2. PICK pick \in [1..n -> Moved(items[o])] :
          StartBatch(b, [i \in 1..n |-> Reverse(items[o][pick[i]])], o)
    BY <2>1
  <2>3. n \in Nat /\ items[o] \in Seq(Item)
    BY LenProperties DEF TypeOK
  <2>4. \A i \in 1..n : Reverse(items[o][pick[i]]) \in Request
    <3> TAKE i \in 1..n
    <3>1. pick[i] \in DOMAIN items[o] /\ items[o][pick[i]].destUid # 0
      BY <2>0, <2>2 DEF Moved, Reversible
    <3>2. items[o][pick[i]] \in Item
      BY <2>3, <3>1, ElementOfSeq
    <3> QED BY <3>1, <3>2 DEF Item, Request, Reverse
  <2>5. [i \in 1..n |-> Reverse(items[o][pick[i]])] \in Seq(Request)
    BY <2>3, <2>4, IsASeq
  <2> QED BY <2>2, <2>5 DEF StartBatch, TypeOK, BatchStatus
<1>5. ASSUME NEW b \in Batches, PrepareItem(b) PROVE TypeOK'
  <2>1. requests[b] \in Seq(Request) /\ requests[b] # <<>> /\ items[b] \in Seq(Item)
    BY <1>5 DEF TypeOK, BatchesKept, PrepareItem
  <2>2. Head(requests[b]) \in Request /\ Tail(requests[b]) \in Seq(Request)
    BY <2>1, HeadTailProperties
  <2>3. PICK m \in Messages :
          items' = [items EXCEPT ![b] = Append(@, Snapshot(Head(requests[b]), m))]
    BY <1>5 DEF PrepareItem, Found
  <2>4. Append(items[b], Snapshot(Head(requests[b]), m)) \in Seq(Item)
    BY <2>1, <2>2, SnapshotType, AppendProperties
  <2>5. items' \in [Batches -> Seq(Item)]
    BY <2>3, <2>4 DEF TypeOK
  <2>6. requests' \in [Batches -> Seq(Request)] /\ status' \in [Batches -> BatchStatus]
    BY <1>5, <2>2 DEF PrepareItem, TypeOK, BatchStatus
  <2> QED BY <1>5, <2>5, <2>6 DEF PrepareItem, TypeOK
<1>6. ASSUME NEW b \in Batches, PrepareFails(b) \/ Approve(b) \/ Claim(b) PROVE TypeOK'
  <2>1. <<>> \in Seq(Item) /\ <<>> \in Seq(Request)
    OBVIOUS
  <2> QED BY <1>6, <2>1 DEF PrepareFails, Forget, Approve, Claim, TypeOK, BatchStatus
<1>7. CASE Connect \/ ConnectFails \/ FetchItem \/ MarkMoveOutcome
  <2>1. <<>> \in Seq(Item) /\ NoBatch \in Batches \cup {NoBatch}
    OBVIOUS
  <2>2. Verdict(results) \in BatchStatus /\ "failed" \in BatchStatus
    BY DEF Verdict, BatchStatus, Verdicts
  <2>3. CASE MarkMoveOutcome
    <3>1. items' \in [Batches -> Seq(Item)] /\ status' \in [Batches -> BatchStatus]
      BY <2>2, <2>3 DEF MarkMoveOutcome, TypeOK
    <3> QED BY <2>1, <2>3, <3>1 DEF MarkMoveOutcome, Leave, TypeOK
  <2>4. CASE ConnectFails
    <3>1. status' \in [Batches -> BatchStatus]
      BY <2>2, <2>4 DEF ConnectFails, TypeOK
    <3> QED BY <2>1, <2>4, <3>1 DEF ConnectFails, Leave, TypeOK
  <2>5. CASE Connect \/ FetchItem
    BY <2>5 DEF Connect, FetchItem, TypeOK
  <2> QED BY <1>7, <2>3, <2>4, <2>5
<1>8. CASE RejectItem \/ FetchFails \/ MoveConfirmed \/ MoveUnconfirmed
  <2>1. job # NoBatch /\ MoreItems
    BY <1>8 DEF RejectItem, FetchFails, MoveConfirmed, MoveUnconfirmed, OneJob, InHand
  <2>2. PICK r \in {"moved", "failed", "uncertain"}, u \in Nat : Report(r, u)
    <3>1. landed \in Nat /\ 0 \in Nat
      BY DEF TypeOK
    <3> QED BY <1>8, <3>1 DEF RejectItem, FetchFails, MoveConfirmed, MoveUnconfirmed
  <2>3. [Current EXCEPT !.result = r, !.destUid = u] \in Item
    BY <2>1, CurrentType, ReportType
  <2>4. results' \in Seq(Item)
    BY <2>2, <2>3, AppendProperties DEF Report, TypeOK
  <2>5. phase' \in {"fetch"} /\ landed' \in Nat
    BY <1>8 DEF RejectItem, FetchFails, MoveConfirmed, MoveUnconfirmed, TypeOK
  <2> QED BY <1>8, <2>4, <2>5 DEF RejectItem, FetchFails, MoveConfirmed, MoveUnconfirmed, TypeOK
<1>9. CASE ServerMoves
  <2>1. job \in Batches /\ MoreItems
    BY <1>9 DEF ServerMoves, OneJob, InHand, TypeOK
  <2>2. Current \in Item /\ Len(results) + 1 \in Nat
    BY <2>1, CurrentType, LenProperties, MailAssumption DEF TypeOK
  <2>3. CASE \E m \in Found(Current.src, Current.uid) :
               /\ Place(m, Current.dst)
               /\ landed' = uid'[m]
               /\ CarryOut(m, uid'[m])
    <3>1. PICK m \in Messages :
               /\ Place(m, Current.dst)
               /\ landed' = uid'[m]
               /\ CarryOut(m, uid'[m])
      BY <2>3 DEF Found
    <3>2. Current.dst \in Mailboxes
      BY <2>2 DEF Item
    <3>3. /\ box' \in [Messages -> Mailboxes \cup {NoMailbox}]
          /\ uid' \in [Messages -> Nat]
          /\ uidNext' \in [Mailboxes -> Nat]
          /\ uid'[m] \in Nat
      BY <3>1, <3>2, PlaceType
    <3> QED BY <1>9, <2>1, <2>2, <3>1, <3>3 DEF ServerMoves, CarryOut, TypeOK
  <2>4. CASE /\ landed' = 0
             /\ CarryOut(NoMessage, 0)
             /\ UNCHANGED mailVars
    BY <1>9, <2>1, <2>2, <2>4 DEF ServerMoves, CarryOut, TypeOK
  <2> QED BY <1>9, <2>3, <2>4 DEF ServerMoves
<1>10. CASE Restart \/ RestartFails
  <2>1. <<>> \in Seq(Item) /\ <<>> \in Seq(Request)
    OBVIOUS
  <2>2. CASE Restart
    <3>1. status' \in [Batches -> BatchStatus]
      BY <2>2 DEF Restart, TypeOK, BatchStatus, Verdicts
    <3>2. /\ requests' \in [Batches -> Seq(Request)] /\ items' \in [Batches -> Seq(Item)]
          /\ restores' \in [Batches -> Batches \cup {NoBatch}]
      BY <2>1, <2>2 DEF Restart, TypeOK
    <3> QED BY <2>1, <2>2, <3>1, <3>2 DEF Restart, Dies, Leave, TypeOK
  <2>3. CASE RestartFails
    BY <2>1, <2>3 DEF RestartFails, Dies, Leave, TypeOK
  <2> QED BY <1>10, <2>2, <2>3
<1>11. CASE UNCHANGED vars
  BY <1>11 DEF vars, TypeOK
<1> QED BY <1>1, <1>2, <1>3, <1>4, <1>5, <1>6, <1>7, <1>8, <1>9, <1>10, <1>11
    DEF Next, Propose, ExecuteMoveItems

-----------------------------------------------------------------------------
(* The invariant, for steps that change one batch that nobody executes.    *)

Unclaimed == {"none", "preparing", "pending_approval", "approved"}

LEMMA UnclaimedFacts ==
  ASSUME TypeOK, IInv, NEW b \in Batches, status[b] \in Unclaimed, phase # "down"
  PROVE  /\ job # b
         /\ \A c \in carried : c.batch # b
         /\ \A q \in Batches : restores[q] # NoBatch => restores[q] # b
         /\ \A i \in DOMAIN items[b] : items[b][i].result = "pending"
BY MailAssumption DEF IInv, OneJob, CarriedInOrder, RestoresKept, BatchesKept, Unclaimed,
  Verdicts, TypeOK

OnlyChanges(b) ==
  /\ UNCHANGED <<mailVars, loopVars, carried, bounds>>
  /\ \A q \in Batches : q # b => /\ status'[q] = status[q] /\ items'[q] = items[q]
                                 /\ requests'[q] = requests[q] /\ restores'[q] = restores[q]

BatchKept(b) ==
  /\ status[b] = "none" => items[b] = <<>>
  /\ status[b] = "preparing" => requests[b] # <<>>
  /\ status[b] \notin {"none", "preparing"} => items[b] # <<>> /\ requests[b] = <<>>
  /\ status[b] \notin Verdicts => \A i \in DOMAIN items[b] : items[b][i].result = "pending"

RestoreKept(b) ==
  restores[b] # NoBatch =>
    /\ status[restores[b]] \in Verdicts
    /\ status[b] # "none"
    /\ \A i \in Moved(items[restores[b]]) : \/ \E j \in DOMAIN items[b] : Prepared(b, i, j)
                                            \/ \E j \in DOMAIN requests[b] : Planned(b, i, j)
    /\ \A j \in DOMAIN items[b] : \E i \in Moved(items[restores[b]]) : Prepared(b, i, j)
    /\ \A j \in DOMAIN requests[b] : \E i \in Moved(items[restores[b]]) : Planned(b, i, j)

LEMMA KeptByBatch ==
  /\ BatchesKept <=> \A b \in Batches : BatchKept(b)
  /\ RestoresKept <=> \A b \in Batches : RestoreKept(b)
  /\ BatchesKept' <=> \A b \in Batches : BatchKept(b)'
  /\ RestoresKept' <=> \A b \in Batches : RestoreKept(b)'
BY DEF BatchesKept, BatchKept, RestoresKept, RestoreKept

(* A restore keeps its plan when neither it nor its original changes.      *)
LEMMA RestoreUntouched ==
  ASSUME TypeOK, NEW q \in Batches, RestoreKept(q), UNCHANGED <<carried, restores>>,
         renumbers' = 0 => renumbers = 0,
         items'[q] = items[q], requests'[q] = requests[q],
         status'[q] = "none" => status[q] = "none",
         restores[q] # NoBatch =>
           items'[restores[q]] = items[restores[q]] /\ status'[restores[q]] \in Verdicts
  PROVE  RestoreKept(q)'
BY DEF RestoreKept, Prepared, Planned, Moved

ItemIsTrue(b, i) ==
  LET item == items[b][i]
  IN  /\ ResultIsTrue(b, i, item)
      /\ status[b] = "failed" /\ item.result # "moved" => ~WasCarried(b, i)
      /\ status[b] = "sent" => item.result = "moved"
      /\ status[b] \in {"preparing", "pending_approval", "approved"} => ~WasCarried(b, i)

LEMMA TrueByItem ==
  /\ ResultsAreTrue <=> \A b \in Batches : \A i \in DOMAIN items[b] : ItemIsTrue(b, i)
  /\ ResultsAreTrue' <=> \A b \in Batches : \A i \in DOMAIN items'[b] : ItemIsTrue(b, i)'
BY DEF ResultsAreTrue, ItemIsTrue

LEMMA ResultsUntouched ==
  ASSUME ResultsSoFar, UNCHANGED <<job, results, carried>>,
         job # NoBatch => items'[job] = items[job],
         phase' = "connect" => phase = "connect"
  PROVE  ResultsSoFar'
<1>1. job = NoBatch => results' = <<>>
  BY DEF ResultsSoFar
<1>2. ASSUME job # NoBatch
      PROVE  /\ Len(results') <= Len(items'[job'])
             /\ phase' = "connect" => results' = <<>>
             /\ \A i \in DOMAIN results' :
                  /\ results'[i].result # "pending"
                  /\ SameItem(i)'
                  /\ ResultIsTrue(job, i, results[i])'
  <2>1. /\ Len(results) <= Len(items[job])
        /\ phase = "connect" => results = <<>>
        /\ \A i \in DOMAIN results : results[i].result # "pending" /\ SameItem(i)
                                     /\ ResultIsTrue(job, i, results[i])
    BY <1>2 DEF ResultsSoFar
  <2>2. \A i \in DOMAIN results : ResultIsTrue(job, i, results[i])'
    BY <2>1 DEF ResultIsTrue, WasCarried
  <2> QED BY <1>2, <2>1, <2>2 DEF SameItem
<1> QED BY <1>1, <1>2 DEF ResultsSoFar

LEMMA ProposalStep ==
  ASSUME TypeOK, IInv, NEW b \in Batches, OnlyChanges(b), phase # "down",
         status[b] \in Unclaimed, status'[b] \in Unclaimed,
         BatchKept(b)', RestoreKept(b)'
  PROVE  IInv'
<1> USE DEF OnlyChanges, mailVars, loopVars, bounds
<1>0. /\ job # b
      /\ \A c \in carried : c.batch # b /\ c.batch \in Batches
      /\ \A q \in Batches : restores[q] # NoBatch => restores[q] # b
  BY UnclaimedFacts DEF TypeOK
<1>1. UNCHANGED <<box, uid, uidNext, phase, job, results, landed, carried, renumbers>>
  OBVIOUS
<1>2. \A c \in carried : items'[c.batch] = items[c.batch] /\ status'[c.batch] = status[c.batch]
  BY <1>0
<1>3. job # NoBatch => items'[job] = items[job]
  BY <1>0 DEF TypeOK
<1>4. UidsGrow'
  BY <1>1, <1>2 DEF IInv, UidsGrow, Found
<1>5. OneJob'
  BY <1>0, <1>1 DEF IInv, OneJob, Unclaimed
<1>6. BatchesKept'
  <2>1. \A q \in Batches : q # b => BatchKept(q)'
    BY KeptByBatch DEF IInv, BatchKept
  <2> QED BY <2>1, KeptByBatch
<1>7. CarriedInOrder'
  BY <1>1, <1>2 DEF IInv, CarriedInOrder
<1>8. ResultsSoFar'
  BY <1>1, <1>3, ResultsUntouched DEF IInv
<1>9. InHand'
  <2>1. phase \in {"move", "answer"} => job # NoBatch
    BY DEF IInv, OneJob
  <2> QED BY <1>1, <1>3, <2>1 DEF IInv, InHand, MoreItems, Current, Found, SameMessage
<1>10. RestoresKept'
  <2>1. ASSUME NEW q \in Batches, q # b PROVE RestoreKept(q)'
    <3>1. RestoreKept(q)
      BY KeptByBatch DEF IInv
    <3>2. restores[q] # NoBatch => restores[q] \in Batches /\ restores[q] # b
      BY <1>0 DEF TypeOK
    <3>3. /\ items'[q] = items[q] /\ requests'[q] = requests[q] /\ restores'[q] = restores[q]
          /\ status'[q] = status[q]
          /\ restores[q] # NoBatch => /\ items'[restores[q]] = items[restores[q]]
                                      /\ status'[restores[q]] = status[restores[q]]
      BY <2>1, <3>2
    <3> QED BY <1>1, <3>1, <3>3 DEF RestoreKept, Prepared, Planned, Moved
  <2> QED BY <2>1, KeptByBatch
<1>11. MovesOnlyApproved'
  BY <1>1, <1>2 DEF IInv, MovesOnlyApproved
<1>12. ResultsAreTrue'
  <2>1. ASSUME NEW q \in Batches, NEW i \in DOMAIN items'[q], q # b PROVE ItemIsTrue(q, i)'
    <3>1. items'[q] = items[q] /\ status'[q] = status[q] /\ ItemIsTrue(q, i)
      BY <2>1, TrueByItem DEF IInv
    <3> QED BY <1>1, <3>1 DEF ItemIsTrue, ResultIsTrue, WasCarried
  <2>2. ASSUME NEW i \in DOMAIN items'[b] PROVE ItemIsTrue(b, i)'
    <3>1. items'[b][i].result = "pending"
      BY DEF BatchKept, Unclaimed, Verdicts
    <3>2. ~WasCarried(b, i)'
      BY <1>0, <1>1 DEF WasCarried
    <3> QED BY <3>1, <3>2 DEF ItemIsTrue, ResultIsTrue, Unclaimed
  <2> QED BY <2>1, <2>2, TrueByItem
<1> QED BY <1>4, <1>5, <1>6, <1>7, <1>8, <1>9, <1>10, <1>11, <1>12 DEF IInv

LEMMA StartBatchStep ==
  ASSUME TypeOK, IInv, NEW b \in Batches, phase # "down",
         NEW list \in Seq(Request), NEW original \in Batches \cup {NoBatch},
         StartBatch(b, list, original), RestoreKept(b)'
  PROVE  IInv'
<1>1. list # <<>>
  <2>1. Len(list) # 0
    BY DEF StartBatch, ValidMove
  <2> QED BY <2>1, EmptySeq
<1>2. /\ status[b] = "none" /\ status'[b] = "preparing" /\ requests'[b] = list
      /\ items'[b] = items[b] /\ OnlyChanges(b)
  BY DEF StartBatch, OnlyChanges, TypeOK
<1>3. items[b] = <<>>
  BY <1>2 DEF IInv, BatchesKept
<1>4. BatchKept(b)'
  BY <1>1, <1>2, <1>3 DEF BatchKept, Verdicts
<1> QED BY <1>2, <1>4, ProposalStep DEF Unclaimed

LEMMA RequestMoveStep ==
  ASSUME TypeOK, IInv, NEW b \in Batches, phase # "down", RequestMove(b)
  PROVE  IInv'
<1>1. PICK list \in MoveRequests : StartBatch(b, list, NoBatch)
  BY DEF RequestMove
<1>2. list \in Seq(Request)
  BY PolicyAssumption
<1>3. restores'[b] = NoBatch
  BY <1>1 DEF StartBatch, TypeOK
<1>4. RestoreKept(b)'
  BY <1>3 DEF RestoreKept
<1> QED BY <1>1, <1>2, <1>4, StartBatchStep

LEMMA RequestRestoreStep ==
  ASSUME TypeOK, IInv, NEW b \in Batches, phase # "down", RequestRestore(b)
  PROVE  IInv'
<1>1. PICK o \in Batches :
        /\ Reversible(items[o])
        /\ \E n \in 1..Len(items[o]) : \E pick \in [1..n -> Moved(items[o])] :
             /\ Lists(pick, Moved(items[o]))
             /\ StartBatch(b, [i \in 1..n |-> Reverse(items[o][pick[i]])], o)
  BY DEF RequestRestore
<1>2. PICK n \in 1..Len(items[o]) : \E pick \in [1..n -> Moved(items[o])] :
        /\ Lists(pick, Moved(items[o]))
        /\ StartBatch(b, [i \in 1..n |-> Reverse(items[o][pick[i]])], o)
  BY <1>1
<1>3. PICK pick \in [1..n -> Moved(items[o])] :
        /\ Lists(pick, Moved(items[o]))
        /\ StartBatch(b, [i \in 1..n |-> Reverse(items[o][pick[i]])], o)
  BY <1>2
<1> DEFINE list == [i \in 1..n |-> Reverse(items[o][pick[i]])]
<1>4. n \in Nat /\ n >= 1 /\ items[o] \in Seq(Item)
  BY LenProperties DEF TypeOK
<1>5. \A i \in 1..n : pick[i] \in Moved(items[o]) /\ list[i] \in Request
  <2> TAKE i \in 1..n
  <2>1. pick[i] \in DOMAIN items[o] /\ items[o][pick[i]].destUid # 0
    BY <1>1 DEF Moved, Reversible
  <2>2. items[o][pick[i]] \in Item
    BY <1>4, <2>1, ElementOfSeq
  <2> QED BY <2>1, <2>2 DEF Item, Request, Reverse
<1>6. list \in Seq(Request)
  BY <1>4, <1>5, IsASeq
<1>7. /\ status[b] = "none" /\ status'[b] = "preparing" /\ restores'[b] = o
      /\ requests'[b] = list /\ items' = items
      /\ \A q \in Batches : q # b => status'[q] = status[q]
  BY <1>3 DEF StartBatch, TypeOK
<1>8. status[o] \in Verdicts /\ o # b
  <2>1. 1 \in 1..n
    BY <1>4
  <2>2. pick[1] \in DOMAIN items[o] /\ items[o][pick[1]].result = "moved"
    BY <1>5, <2>1 DEF Moved
  <2>3. status[o] \in Verdicts
    BY <2>2 DEF IInv, BatchesKept
  <2> QED BY <1>7, <2>3 DEF Verdicts
<1>9. RestoreKept(b)'
  <2>1. \A j \in 1..n : Planned(b, pick[j], j)'
    BY <1>7 DEF Planned
  <2>2. DOMAIN requests'[b] = 1..n
    BY <1>7
  <2>3. \A i \in Moved(items[o]) : \E j \in 1..n : pick[j] = i
    BY <1>3 DEF Lists
  <2>4. items'[b] = <<>> /\ Moved(items'[o]) = Moved(items[o])
    BY <1>7 DEF IInv, BatchesKept
  <2>5. status'[o] \in Verdicts /\ status'[b] # "none"
    BY <1>7, <1>8
  <2>6. \A i \in Moved(items[o]) : \E j \in DOMAIN requests'[b] : Planned(b, i, j)'
    BY <2>1, <2>2, <2>3
  <2>7. \A j \in DOMAIN requests'[b] : \E i \in Moved(items[o]) : Planned(b, i, j)'
    BY <1>5, <2>1, <2>2
  <2> QED BY <1>7, <2>4, <2>5, <2>6, <2>7 DEF RestoreKept
<1> HIDE DEF list
<1>10. StartBatch(b, list, o)
  BY <1>3 DEF list
<1> QED BY <1>6, <1>9, <1>10, StartBatchStep

(* The message found under a restore's request is the one that was moved.  *)
LEMMA FoundIsMoved ==
  ASSUME TypeOK, IInv, NEW b \in Batches, restores[b] # NoBatch, requests[b] # <<>>,
         NEW i \in Moved(items[restores[b]]), Planned(b, i, 1),
         NEW m \in Found(Head(requests[b]).src, Head(requests[b]).uid), renumbers = 0
  PROVE  \E c \in carried : c.batch = restores[b] /\ c.index = i /\ c.msg = m
<1>1. PICK o \in Batches : o = restores[b]
  BY DEF TypeOK
<1>2. requests[b] \in Seq(Request) /\ items[o] \in Seq(Item)
  BY DEF TypeOK
<1>3. Head(requests[b]) = Reverse(items[o][i]) /\ Head(requests[b]) \in Request
  <2>1. Head(requests[b]) = requests[b][1]
    BY <1>2, HeadTailProperties
  <2> QED BY <1>1, <1>2, <2>1, HeadTailProperties DEF Planned
<1>4. /\ i \in DOMAIN items[o] /\ items[o][i].result = "moved"
      /\ items[o][i].destUid # 0
      /\ m \in Found(items[o][i].dst, items[o][i].destUid)
  BY <1>1, <1>3 DEF Moved, Reverse, Request
<1>5. PICK c \in carried :
        c.batch = o /\ c.index = i /\ c.msg # NoMessage /\ c.uid = items[o][i].destUid
  BY <1>4 DEF IInv, ResultsAreTrue, ResultIsTrue
<1>6. \A n \in Found(items[o][i].dst, items[o][i].destUid) : n = c.msg
  BY <1>5 DEF IInv, UidsGrow
<1> QED BY <1>1, <1>4, <1>5, <1>6

LEMMA PrepareItemStep ==
  ASSUME TypeOK, IInv, NEW b \in Batches, phase # "down", PrepareItem(b)
  PROVE  IInv'
<1> DEFINE r == Head(requests[b])
<1>0. PICK n \in Nat : n = Len(items[b])
  BY LenProperties DEF TypeOK
<1>1. PICK m \in Found(r.src, r.uid) : items' = [items EXCEPT ![b] = Append(@, Snapshot(r, m))]
  BY DEF PrepareItem
<1>2. /\ requests[b] \in Seq(Request) /\ requests[b] # <<>> /\ items[b] \in Seq(Item)
      /\ m \in Messages /\ status[b] = "preparing"
  BY DEF TypeOK, IInv, BatchesKept, PrepareItem, Found
<1>3. /\ r \in Request /\ r = requests[b][1] /\ requests'[b] = Tail(requests[b])
      /\ Len(requests'[b]) = Len(requests[b]) - 1
      /\ DOMAIN requests'[b] = 1..(Len(requests[b]) - 1)
      /\ \A j \in 1..(Len(requests[b]) - 1) : requests'[b][j] = requests[b][j + 1]
  <2>1. requests'[b] = Tail(requests[b])
    BY DEF PrepareItem, TypeOK
  <2> QED BY <1>2, <2>1, HeadTailProperties, LenProperties
<1>4. /\ items'[b] = Append(items[b], Snapshot(r, m))
      /\ n \in Nat /\ DOMAIN items[b] = 1..n /\ DOMAIN items'[b] = 1..(n + 1)
      /\ \A j \in 1..n : items'[b][j] = items[b][j]
      /\ items'[b][n + 1] = Snapshot(r, m)
  <2>1. items'[b] = Append(items[b], Snapshot(r, m))
    BY <1>1 DEF TypeOK
  <2>2. Snapshot(r, m) \in Item
    BY <1>2, <1>3, SnapshotType
  <2> QED BY <1>0, <1>2, <2>1, <2>2, AppendProperties, LenProperties
<1>5. OnlyChanges(b)
  BY <1>1 DEF PrepareItem, OnlyChanges, TypeOK
<1>6. /\ status'[b] \in {"preparing", "pending_approval"}
      /\ status'[b] = "preparing" => Len(requests[b]) # 1
      /\ status'[b] # "preparing" => Len(requests[b]) = 1
  BY DEF PrepareItem, TypeOK
<1>7. Len(requests[b]) \in Nat /\ Len(requests[b]) # 0
  BY <1>2, EmptySeq, LenProperties
<1>8. BatchKept(b)'
  <2>1. items'[b] # <<>>
    BY <1>4
  <2>2. \A j \in DOMAIN items[b] : items[b][j].result = "pending"
    BY <1>2 DEF IInv, BatchesKept, Verdicts
  <2>3. \A j \in DOMAIN items'[b] : items'[b][j].result = "pending"
    <3> TAKE j \in DOMAIN items'[b]
    <3>1. j \in 1..n \/ j = n + 1
      BY <1>4
    <3> QED BY <1>4, <2>2, <3>1 DEF Snapshot
  <2>4. requests'[b] \in Seq(Request)
    BY <1>2, <1>3, HeadTailProperties
  <2>5. requests'[b] = <<>> <=> status'[b] # "preparing"
    <3>1. Len(requests'[b]) = 0 <=> status'[b] # "preparing"
      BY <1>3, <1>6, <1>7
    <3> QED BY <2>4, <3>1, EmptySeq
  <2> QED BY <1>6, <2>1, <2>3, <2>5 DEF BatchKept
<1>9. RestoreKept(b)'
  <2> SUFFICES ASSUME restores'[b] # NoBatch PROVE RestoreKept(b)'
    BY DEF RestoreKept
  <2>0. PICK o \in Batches : o = restores[b] /\ o = restores'[b]
    BY DEF PrepareItem, TypeOK
  <2>1. /\ RestoreKept(b) /\ restores[b] # NoBatch
        /\ o # b /\ items'[o] = items[o] /\ status'[o] = status[o] /\ status[o] \in Verdicts
    <3>1. RestoreKept(b) /\ restores[b] # NoBatch
      BY <2>0, KeptByBatch DEF IInv, PrepareItem
    <3>2. o # b
      BY <2>0, <3>1, <1>2, UnclaimedFacts DEF Unclaimed
    <3> QED BY <1>5, <2>0, <3>1, <3>2 DEF OnlyChanges, RestoreKept
  <2>2. \A i, j : j \in 1..n /\ Prepared(b, i, j) => Prepared(b, i, j)'
    BY <1>4, <1>5, <2>0, <2>1 DEF Prepared, OnlyChanges, bounds
  <2>3. \A i, j : j \in 1..(Len(requests[b]) - 1) => (Planned(b, i, j + 1) <=> Planned(b, i, j)')
    BY <1>3, <2>0, <2>1 DEF Planned
  <2>4. ASSUME NEW i \in Moved(items[o]), Planned(b, i, 1) PROVE Prepared(b, i, n + 1)'
    <3>1. items'[b][n + 1].dst = items'[o][i].src
      BY <1>3, <1>4, <2>0, <2>1, <2>4 DEF Planned, Reverse, Snapshot
    <3>2. items'[b][n + 1].who = m
      BY <1>4 DEF Snapshot
    <3>3. ASSUME renumbers = 0
          PROVE  \E c \in carried : c.batch = restores[b] /\ c.index = i /\ c.msg = m
      <4>1. /\ m \in Found(Head(requests[b]).src, Head(requests[b]).uid)
            /\ i \in Moved(items[restores[b]])
        BY <1>1, <2>0, <2>4
      <4> QED BY <1>2, <2>1, <2>4, <3>3, <4>1, FoundIsMoved
    <3>4. restores'[b] = restores[b] /\ renumbers' = renumbers /\ carried' = carried
      BY <1>5, <2>0 DEF OnlyChanges, bounds
    <3> QED BY <2>0, <3>1, <3>2, <3>3, <3>4 DEF Prepared
  <2>5. /\ \A i \in Moved(items[o]) : \/ \E j \in 1..n : Prepared(b, i, j)
                                      \/ \E j \in DOMAIN requests[b] : Planned(b, i, j)
        /\ \A j \in 1..n : \E i \in Moved(items[o]) : Prepared(b, i, j)
        /\ \A j \in DOMAIN requests[b] : \E i \in Moved(items[o]) : Planned(b, i, j)
    BY <1>4, <2>0, <2>1 DEF RestoreKept
  <2>6. DOMAIN requests[b] = 1..Len(requests[b])
    BY <1>2, LenProperties
  <2>7. \A i \in Moved(items[o]) : \/ \E j \in 1..(n + 1) : Prepared(b, i, j)'
                                   \/ \E j \in DOMAIN requests'[b] : Planned(b, i, j)'
    <3> TAKE i \in Moved(items[o])
    <3>1. ASSUME NEW j \in 1..n, Prepared(b, i, j)
          PROVE  \E k \in 1..(n + 1) : Prepared(b, i, k)'
      <4>1. j \in 1..(n + 1)
        BY <1>4
      <4> QED BY <2>2, <3>1, <4>1
    <3>2. ASSUME NEW j \in 1..Len(requests[b]), Planned(b, i, j)
          PROVE  \/ Prepared(b, i, n + 1)'
                 \/ \E k \in DOMAIN requests'[b] : Planned(b, i, k)'
      <4>1. CASE j = 1
        BY <2>4, <3>2, <4>1
      <4>2. CASE j # 1
        <5>1. j - 1 \in 1..(Len(requests[b]) - 1) /\ (j - 1) + 1 = j
          BY <1>7, <4>2
        <5> QED BY <1>3, <2>3, <3>2, <5>1
      <4> QED BY <4>1, <4>2
    <3>3. n + 1 \in 1..(n + 1)
      BY <1>4
    <3> QED BY <2>5, <2>6, <3>1, <3>2, <3>3
  <2>8. \A j \in 1..(n + 1) : \E i \in Moved(items[o]) : Prepared(b, i, j)'
    <3> TAKE j \in 1..(n + 1)
    <3>1. CASE j \in 1..n
      <4>1. PICK i \in Moved(items[o]) : Prepared(b, i, j)
        BY <2>5, <3>1
      <4> QED BY <2>2, <3>1, <4>1
    <3>2. CASE j = n + 1
      <4>1. 1 \in DOMAIN requests[b]
        BY <1>7, <2>6
      <4>2. PICK i \in Moved(items[o]) : Planned(b, i, 1)
        BY <2>5, <4>1
      <4> QED BY <2>4, <3>2, <4>2
    <3> QED BY <1>4, <3>1, <3>2
  <2>9. \A j \in DOMAIN requests'[b] : \E i \in Moved(items[o]) : Planned(b, i, j)'
    <3> TAKE j \in DOMAIN requests'[b]
    <3>1. j \in 1..(Len(requests[b]) - 1) /\ j + 1 \in DOMAIN requests[b]
      BY <1>3, <1>7, <2>6
    <3> QED BY <2>3, <2>5, <3>1
  <2>10. Moved(items'[o]) = Moved(items[o]) /\ status'[b] # "none" /\ status'[o] \in Verdicts
    BY <1>6, <2>1
  <2> QED BY <1>4, <2>0, <2>7, <2>8, <2>9, <2>10 DEF RestoreKept
<1> HIDE DEF r
<1>10. status[b] \in Unclaimed /\ status'[b] \in Unclaimed
  BY <1>2, <1>6 DEF Unclaimed
<1> QED BY <1>5, <1>8, <1>9, <1>10, ProposalStep

LEMMA PrepareFailsStep ==
  ASSUME TypeOK, IInv, NEW b \in Batches, phase # "down", PrepareFails(b)
  PROVE  IInv'
<1>1. /\ status[b] = "preparing" /\ status'[b] = "none" /\ requests'[b] = <<>>
      /\ items'[b] = <<>> /\ restores'[b] = NoBatch /\ OnlyChanges(b)
  BY DEF PrepareFails, Forget, OnlyChanges, TypeOK
<1>2. BatchKept(b)' /\ RestoreKept(b)'
  BY <1>1 DEF BatchKept, RestoreKept
<1> QED BY <1>1, <1>2, ProposalStep DEF Unclaimed

LEMMA ApproveStep ==
  ASSUME TypeOK, IInv, NEW b \in Batches, phase # "down", Approve(b)
  PROVE  IInv'
<1>1. /\ status[b] = "pending_approval" /\ status'[b] = "approved"
      /\ UNCHANGED <<requests, items, restores, carried, renumbers>> /\ OnlyChanges(b)
  BY DEF Approve, OnlyChanges, bounds, TypeOK
<1>2. BatchKept(b)'
  BY <1>1, KeptByBatch DEF IInv, BatchKept, Verdicts
<1>3. RestoreKept(b)'
  <2>1. RestoreKept(b)
    BY KeptByBatch DEF IInv
  <2>2. restores[b] # NoBatch => restores[b] \in Batches /\ restores[b] # b
    BY <1>1, UnclaimedFacts DEF Unclaimed, TypeOK
  <2>3. restores[b] # NoBatch => status'[restores[b]] \in Verdicts
    BY <1>1, <2>1, <2>2 DEF OnlyChanges, RestoreKept
  <2> QED BY <1>1, <2>1, <2>3, RestoreUntouched
<1> QED BY <1>1, <1>2, <1>3, ProposalStep DEF Unclaimed

-----------------------------------------------------------------------------
(* The invariant, for steps of the mailboxes' other clients.               *)

LEMMA CarriedItem ==
  ASSUME TypeOK, CarriedInOrder, NEW c \in carried
  PROVE  /\ c.batch \in Batches /\ c.uid \in Nat /\ c.msg \in Messages \cup {NoMessage}
         /\ items[c.batch] \in Seq(Item) /\ items[c.batch][c.index] \in Item
         /\ items[c.batch][c.index].dst \in Mailboxes
<1>1. /\ c.batch \in Batches /\ c.uid \in Nat /\ c.msg \in Messages \cup {NoMessage}
      /\ items[c.batch] \in Seq(Item) /\ c.index \in DOMAIN items[c.batch]
  BY DEF TypeOK, CarriedInOrder
<1>2. items[c.batch][c.index] \in Item
  BY <1>1, ElementOfSeq
<1> QED BY <1>1, <1>2 DEF Item

LEMMA HandType ==
  ASSUME TypeOK, OneJob, InHand, phase \in {"move", "answer"}
  PROVE  /\ job \in Batches /\ MoreItems /\ Current \in Item
         /\ Current.src \in Mailboxes /\ Current.dst \in Mailboxes /\ Current.uid \in Nat
         /\ Len(results) + 1 \in DOMAIN items[job]
<1>1. job \in Batches /\ job # NoBatch /\ MoreItems
  BY MailAssumption DEF OneJob, InHand, TypeOK
<1>2. Current \in Item /\ Len(results) + 1 \in DOMAIN items[job]
  BY <1>1, CurrentType
<1> QED BY <1>1, <1>2 DEF Item

LEMMA MailboxStep ==
  ASSUME TypeOK, IInv, UNCHANGED <<batchVars, loopVars, carried>>,
         renumbers' = 0 => renumbers = 0,
         UidsGrow',
         phase = "move" =>
           /\ Current.uid < uidNext'[Current.src]
           /\ \A m \in Messages : box'[m] = Current.src /\ uid'[m] = Current.uid
                                    => m \in Found(Current.src, Current.uid)
  PROVE  IInv'
<1> USE DEF batchVars, loopVars
<1>1. OneJob' /\ BatchesKept' /\ CarriedInOrder' /\ ResultsSoFar'
  <2>1. OneJob' /\ BatchesKept'
    BY DEF IInv, OneJob, BatchesKept
  <2>2. CarriedInOrder'
    BY DEF IInv, CarriedInOrder
  <2>3. ResultsSoFar'
    BY ResultsUntouched DEF IInv
  <2> QED BY <2>1, <2>2, <2>3
<1>2. InHand'
  <2>1. CASE phase = "move"
    BY <2>1 DEF IInv, InHand, MoreItems, Current, Found, SameMessage
  <2>2. CASE phase # "move"
    BY <2>2 DEF IInv, InHand, MoreItems, Current
  <2> QED BY <2>1, <2>2
<1>3. RestoresKept'
  <2>1. ASSUME NEW q \in Batches PROVE RestoreKept(q)'
    <3>1. RestoreKept(q)
      BY KeptByBatch DEF IInv
    <3>2. restores[q] # NoBatch => status'[restores[q]] \in Verdicts
      BY <3>1 DEF RestoreKept
    <3> QED BY <3>1, <3>2, RestoreUntouched
  <2> QED BY <2>1, KeptByBatch
<1>4. MovesOnlyApproved' /\ ResultsAreTrue'
  BY DEF IInv, MovesOnlyApproved, ResultsAreTrue, ResultIsTrue, WasCarried
<1> QED BY <1>1, <1>2, <1>3, <1>4 DEF IInv

Grown ==
  /\ \A m \in Messages : box[m] \in Mailboxes => uid[m] < uidNext[box[m]]
  /\ \A m, n \in Messages :
       box[m] \in Mailboxes /\ box[m] = box[n] /\ uid[m] = uid[n] => m = n

SafeUid(c) ==
  c.msg # NoMessage =>
    /\ c.uid < uidNext[items[c.batch][c.index].dst]
    /\ \A m \in Found(items[c.batch][c.index].dst, c.uid) : m = c.msg

LEMMA UidsGrowParts ==
  /\ UidsGrow <=> Grown /\ (renumbers = 0 => \A c \in carried : SafeUid(c))
  /\ UidsGrow' <=> Grown' /\ (renumbers' = 0 => \A c \in carried' : SafeUid(c)')
BY DEF UidsGrow, Grown, SafeUid

(* A message put into a mailbox takes no UID that matters to anybody.      *)
LEMMA PlaceKeeps ==
  ASSUME TypeOK, IInv, NEW m \in Messages, NEW b \in Mailboxes, Place(m, b),
         items' = items
  PROVE  /\ Grown'
         /\ renumbers = 0 => \A c \in carried : SafeUid(c)'
         /\ \A d \in Mailboxes : uidNext[d] <= uidNext'[d]
         /\ \A d \in Mailboxes, u \in Nat : \A n \in Messages :
              u < uidNext[d] /\ box'[n] = d /\ uid'[n] = u => n \in Found(d, u)
         /\ uid'[m] = uidNext[b] /\ uid'[m] < uidNext'[b] /\ box'[m] = b
<1>1. /\ box' = [box EXCEPT ![m] = b] /\ uid' = [uid EXCEPT ![m] = uidNext[b]]
      /\ uidNext' = [uidNext EXCEPT ![b] = @ + 1]
      /\ box \in [Messages -> Mailboxes \cup {NoMailbox}] /\ uid \in [Messages -> Nat]
      /\ uidNext \in [Mailboxes -> Nat]
  BY DEF Place, TypeOK
<1>2. \A d \in Mailboxes : uidNext'[d] \in Nat /\ uidNext[d] <= uidNext'[d]
  BY <1>1
<1>3. /\ uid'[m] = uidNext[b] /\ uid'[m] < uidNext'[b] /\ box'[m] = b
  BY <1>1
<1>4. \A d \in Mailboxes, u \in Nat : \A n \in Messages :
        u < uidNext[d] /\ box'[n] = d /\ uid'[n] = u => n \in Found(d, u)
  <2> SUFFICES ASSUME NEW d \in Mailboxes, NEW u \in Nat, NEW n \in Messages,
                      u < uidNext[d], box'[n] = d, uid'[n] = u
               PROVE  n \in Found(d, u)
    OBVIOUS
  <2>1. n # m
    BY <1>1, <1>3
  <2> QED BY <1>1, <2>1 DEF Found
<1>5. ASSUME NEW n \in Messages, box'[n] \in Mailboxes PROVE uid'[n] < uidNext'[box'[n]]
  <2>1. CASE n = m
    BY <1>3, <2>1
  <2>2. CASE n # m
    <3>1. box'[n] = box[n] /\ uid'[n] = uid[n] /\ uid[n] \in Nat
      BY <1>1, <2>2
    <3>2. uid[n] < uidNext[box[n]]
      BY <1>5, <3>1 DEF IInv, UidsGrow
    <3>3. uidNext[box[n]] <= uidNext'[box[n]] /\ uidNext[box[n]] \in Nat
          /\ uidNext'[box[n]] \in Nat
      BY <1>1, <1>2, <1>5, <3>1
    <3> QED BY <3>1, <3>2, <3>3
  <2> QED BY <2>1, <2>2
<1>6. ASSUME NEW c \in carried, renumbers = 0, c.msg # NoMessage
      PROVE  LET dst == items[c.batch][c.index].dst
             IN  /\ c.uid < uidNext'[dst]
                 /\ \A n \in Messages : box'[n] = dst /\ uid'[n] = c.uid => n = c.msg
  <2> DEFINE dst == items[c.batch][c.index].dst
  <2>1. dst \in Mailboxes /\ c.uid \in Nat
    BY CarriedItem DEF IInv
  <2>2. c.uid < uidNext[dst] /\ \A n \in Found(dst, c.uid) : n = c.msg
    BY <1>6 DEF IInv, UidsGrow
  <2>3. uidNext[dst] \in Nat /\ uidNext'[dst] \in Nat /\ uidNext[dst] <= uidNext'[dst]
    BY <1>1, <1>2, <2>1
  <2>4. c.uid < uidNext'[dst]
    BY <2>1, <2>2, <2>3
  <2>5. \A n \in Messages : box'[n] = dst /\ uid'[n] = c.uid => n = c.msg
    BY <1>4, <2>1, <2>2
  <2> QED BY <2>4, <2>5
<1>7. ASSUME NEW n \in Messages, NEW k \in Messages, box'[n] \in Mailboxes,
             box'[n] = box'[k], uid'[n] = uid'[k]
      PROVE  n = k
  <2>1. \A x \in Messages : x # m => box'[x] = box[x] /\ uid'[x] = uid[x]
    BY <1>1
  <2>2. CASE n # m /\ k # m
    <3>1. box'[n] = box[n] /\ uid'[n] = uid[n] /\ box'[k] = box[k] /\ uid'[k] = uid[k]
      BY <2>1, <2>2
    <3>2. box[n] \in Mailboxes /\ box[n] = box[k] /\ uid[n] = uid[k]
      BY <1>7, <3>1
    <3> QED BY <3>2 DEF IInv, UidsGrow
  <2>3. ASSUME NEW x \in Messages, x # m, box'[x] = b, uid'[x] = uidNext[b] PROVE FALSE
    <3>1. uidNext[b] \in Nat /\ uid[x] < uidNext[b] /\ uid[x] = uidNext[b]
      BY <1>1, <2>1, <2>3 DEF IInv, UidsGrow
    <3> QED BY <3>1
  <2>4. CASE n = m /\ k # m
    BY <1>3, <1>7, <2>3, <2>4
  <2>5. CASE k = m /\ n # m
    BY <1>3, <1>7, <2>3, <2>5
  <2> QED BY <2>2, <2>4, <2>5
<1>8. Grown' /\ (renumbers = 0 => \A c \in carried : SafeUid(c)')
  BY <1>5, <1>6, <1>7 DEF Grown, SafeUid, Found
<1> QED BY <1>2, <1>3, <1>4, <1>8

LEMMA ForeignStep ==
  ASSUME TypeOK, IInv, ForeignClient
  PROVE  IInv'
<1>1. UNCHANGED <<batchVars, loopVars, carried, renumbers>>
  BY DEF ForeignClient
<1>2. PICK m \in Messages :
        \/ \E b \in Mailboxes \ {box[m]} : Place(m, b)
        \/ box' = [box EXCEPT ![m] = NoMailbox] /\ UNCHANGED <<uid, uidNext>>
  BY DEF ForeignClient
<1>3. phase = "move" =>
        /\ Current.src \in Mailboxes /\ Current.uid \in Nat /\ Current.uid < uidNext[Current.src]
  BY HandType DEF IInv, InHand
<1>4. ASSUME NEW b \in Mailboxes, Place(m, b) PROVE IInv'
  <2>0. items' = items /\ carried' = carried /\ renumbers' = renumbers
    BY <1>1 DEF batchVars
  <2>1. /\ Grown' /\ (renumbers = 0 => \A c \in carried : SafeUid(c)')
        /\ \A d \in Mailboxes : uidNext[d] <= uidNext'[d]
        /\ \A d \in Mailboxes, u \in Nat : \A n \in Messages :
             u < uidNext[d] /\ box'[n] = d /\ uid'[n] = u => n \in Found(d, u)
    BY <1>4, <2>0, PlaceKeeps
  <2>4. UidsGrow'
    BY <2>0, <2>1, UidsGrowParts
  <2>2. uidNext' \in [Mailboxes -> Nat] /\ uidNext \in [Mailboxes -> Nat]
    BY <1>4, PlaceType DEF TypeOK
  <2>3. phase = "move" =>
          /\ Current.uid < uidNext'[Current.src]
          /\ \A n \in Messages : box'[n] = Current.src /\ uid'[n] = Current.uid
                                   => n \in Found(Current.src, Current.uid)
    BY <1>3, <2>1, <2>2
  <2> QED BY <1>1, <2>3, <2>4, MailboxStep
<1>5. CASE box' = [box EXCEPT ![m] = NoMailbox] /\ UNCHANGED <<uid, uidNext>>
  <2>1. \A n \in Messages : box'[n] = box[n] \/ box'[n] = NoMailbox
    BY <1>5 DEF TypeOK
  <2>2. \A n \in Messages : box'[n] \in Mailboxes => box'[n] = box[n]
    BY <2>1, MailAssumption
  <2>3. UidsGrow'
    <3>1. \A n \in Messages : box'[n] \in Mailboxes => uid'[n] < uidNext'[box'[n]]
      BY <1>5, <2>2 DEF IInv, UidsGrow
    <3>2. \A d \in Mailboxes, u \in Nat : \A n \in Messages :
            box'[n] = d /\ uid'[n] = u => n \in Found(d, u)
      BY <1>5, <2>2 DEF Found
    <3>3. ASSUME NEW c \in carried, renumbers = 0, c.msg # NoMessage
          PROVE  LET dst == items[c.batch][c.index].dst
                 IN  /\ c.uid < uidNext[dst]
                     /\ \A n \in Messages : box'[n] = dst /\ uid'[n] = c.uid => n = c.msg
      <4>1. items[c.batch][c.index].dst \in Mailboxes /\ c.uid \in Nat
        BY CarriedItem DEF IInv
      <4> QED BY <3>2, <3>3, <4>1 DEF IInv, UidsGrow
    <3>4. \A n, k \in Messages :
            box'[n] \in Mailboxes /\ box'[n] = box'[k] /\ uid'[n] = uid'[k] => n = k
      BY <1>5, <2>2 DEF IInv, UidsGrow
    <3> QED BY <1>1, <1>5, <3>1, <3>3, <3>4 DEF UidsGrow, Found, batchVars
  <2>4. phase = "move" =>
          /\ Current.uid < uidNext'[Current.src]
          /\ \A n \in Messages : box'[n] = Current.src /\ uid'[n] = Current.uid
                                   => n \in Found(Current.src, Current.uid)
    BY <1>3, <1>5, <2>2 DEF Found
  <2> QED BY <1>1, <2>3, <2>4, MailboxStep
<1> QED BY <1>2, <1>4, <1>5

LEMMA RenumberStep ==
  ASSUME TypeOK, IInv, NEW b \in Mailboxes, Renumber(b)
  PROVE  IInv'
<1>1. /\ UNCHANGED <<box, batchVars, loopVars, carried>> /\ renumbers' = renumbers + 1
      /\ renumbers \in Nat /\ ~Selected(b)
      /\ uidNext' = [uidNext EXCEPT ![b] = MaxUid + 1]
      /\ uidNext \in [Mailboxes -> Nat] /\ uid \in [Messages -> Nat] /\ MaxUid \in Nat
  BY MailAssumption DEF Renumber, TypeOK
<1>2. PICK f \in [Messages -> 1..MaxUid] :
        /\ uid' = [m \in Messages |-> IF box[m] = b THEN f[m] ELSE uid[m]]
        /\ \A m, n \in Messages : box[m] = b /\ box[n] = b /\ f[m] = f[n] => m = n
  BY DEF Renumber
<1>3. renumbers' # 0
  BY <1>1
<1>4. ASSUME NEW m \in Messages, box'[m] \in Mailboxes PROVE uid'[m] < uidNext'[box'[m]]
  <2>1. CASE box[m] = b
    <3>1. uid'[m] = f[m] /\ f[m] \in 1..MaxUid /\ uidNext'[box'[m]] = MaxUid + 1
      BY <1>1, <1>2, <2>1
    <3> QED BY <1>1, <3>1
  <2>2. CASE box[m] # b
    <3>1. uid'[m] = uid[m] /\ uidNext'[box'[m]] = uidNext[box[m]]
      BY <1>1, <1>2, <1>4, <2>2
    <3> QED BY <1>1, <1>4, <3>1 DEF IInv, UidsGrow
  <2> QED BY <2>1, <2>2
<1>n. \A m, n \in Messages :
        box'[m] \in Mailboxes /\ box'[m] = box'[n] /\ uid'[m] = uid'[n] => m = n
  BY <1>1, <1>2 DEF IInv, UidsGrow
<1>5. UidsGrow'
  BY <1>3, <1>4, <1>n DEF UidsGrow
<1>6. ASSUME phase = "move"
      PROVE  /\ Current.uid < uidNext'[Current.src]
             /\ \A m \in Messages : box'[m] = Current.src /\ uid'[m] = Current.uid
                                      => m \in Found(Current.src, Current.uid)
  <2>1. Current.src # b /\ Current.src \in Mailboxes /\ Current.uid < uidNext[Current.src]
    BY <1>1, <1>6, HandType DEF IInv, InHand, Selected, Current
  <2> QED BY <1>1, <1>2, <2>1 DEF Found
<1> QED BY <1>1, <1>3, <1>5, <1>6, MailboxStep

-----------------------------------------------------------------------------
(* The invariant, for the steps of executeMoveItems.                       *)

(* Steps that change the program counter and the results in hand.          *)
LEMMA LoopStep ==
  ASSUME TypeOK, IInv, UNCHANGED <<mailVars, batchVars, job, carried, bounds>>,
         phase \notin {"idle", "down"}, phase' \notin {"idle", "down"},
         CarriedInOrder', ResultsSoFar', InHand'
  PROVE  IInv'
<1> USE DEF mailVars, batchVars, bounds
<1>1. UidsGrow' /\ OneJob' /\ BatchesKept'
  BY DEF IInv, UidsGrow, Found, OneJob, BatchesKept
<1>2. RestoresKept'
  BY DEF IInv, RestoresKept, Prepared, Planned, Moved
<1>3. MovesOnlyApproved' /\ ResultsAreTrue'
  BY DEF IInv, MovesOnlyApproved, ResultsAreTrue, ResultIsTrue, WasCarried
<1> QED BY <1>1, <1>2, <1>3 DEF IInv

LEMMA ConnectStep ==
  ASSUME TypeOK, IInv, Connect
  PROVE  IInv'
<1>1. /\ UNCHANGED <<mailVars, batchVars, job, results, landed, carried, bounds>>
      /\ phase = "connect" /\ phase' = "fetch"
  BY DEF Connect
<1>2. CarriedInOrder' /\ InHand'
  BY <1>1 DEF IInv, CarriedInOrder, InHand, batchVars
<1>3. ResultsSoFar'
  BY <1>1, ResultsUntouched DEF IInv, batchVars
<1> QED BY <1>1, <1>2, <1>3, LoopStep

LEMMA FetchItemStep ==
  ASSUME TypeOK, IInv, FetchItem
  PROVE  IInv'
<1>1. /\ UNCHANGED <<mailVars, batchVars, job, results, landed, carried, bounds>>
      /\ phase = "fetch" /\ phase' = "move" /\ MoreItems
  BY DEF FetchItem
<1>2. CarriedInOrder'
  BY <1>1 DEF IInv, CarriedInOrder, batchVars
<1>3. ResultsSoFar'
  BY <1>1, ResultsUntouched DEF IInv, batchVars
<1>4. PICK m \in Found(Current.src, Current.uid) : SameMessage(Current, m)
  BY DEF FetchItem
<1>5. Current.src \in Mailboxes
  <2>1. job # NoBatch
    BY <1>1 DEF IInv, OneJob
  <2> QED BY <1>1, <2>1, CurrentType DEF Item
<1>6. Current.uid < uidNext[Current.src]
  BY <1>4, <1>5 DEF Found, IInv, UidsGrow
<1>7. \A n \in Found(Current.src, Current.uid) : n = m
  BY <1>4, <1>5 DEF Found, IInv, UidsGrow
<1>8. InHand'
  BY <1>1, <1>4, <1>6, <1>7 DEF InHand, MoreItems, Current, Found, SameMessage, mailVars, batchVars
<1> QED BY <1>1, <1>2, <1>3, <1>8, LoopStep

(* Reporting a true result.                                                *)
LEMMA ReportStep ==
  ASSUME TypeOK, IInv, phase \in {"fetch", "move", "answer"}, MoreItems, phase' = "fetch",
         UNCHANGED <<mailVars, batchVars, job, carried, bounds>>,
         NEW r \in {"moved", "failed", "uncertain"}, NEW u \in Nat, Report(r, u),
         ResultIsTrue(job, Len(results) + 1, [Current EXCEPT !.result = r, !.destUid = u])
  PROVE  IInv'
<1> USE DEF batchVars
<1>0. PICK item \in Item : item = [Current EXCEPT !.result = r, !.destUid = u]
  <2>1. job # NoBatch
    BY DEF IInv, OneJob
  <2> QED BY <2>1, CurrentType, ReportType
<1>1. /\ job \in Batches /\ items[job] \in Seq(Item) /\ results \in Seq(Item)
      /\ Len(results) \in Nat /\ Len(items[job]) \in Nat
      /\ Current \in Item
  <2>1. job # NoBatch
    BY DEF IInv, OneJob
  <2> QED BY <2>1, CurrentType, LenProperties DEF TypeOK
<1>2. PICK n \in Nat : n = Len(results)
  BY <1>1
<1>3. /\ results' = Append(results, item)
      /\ Len(results') = n + 1 /\ DOMAIN results = 1..n /\ DOMAIN results' = 1..(n + 1)
      /\ \A i \in 1..n : results'[i] = results[i]
      /\ results'[n + 1] = item
  <2>1. results' = Append(results, item)
    BY <1>0 DEF Report
  <2> QED BY <1>1, <1>2, <2>1, AppendProperties, LenProperties
<1>4. n + 1 <= Len(items[job])
  BY <1>1, <1>2 DEF MoreItems
<1>5. CarriedInOrder'
  <2>1. \A c \in carried : c.batch = job => c.index <= n + 1
    <3> SUFFICES ASSUME NEW c \in carried, c.batch = job PROVE c.index <= n + 1
      OBVIOUS
    <3>1. c.index \in Nat
      BY DEF TypeOK
    <3>2. c.index <= Len(results) + (IF phase = "answer" THEN 1 ELSE 0)
      BY DEF IInv, CarriedInOrder
    <3> QED BY <1>2, <3>1, <3>2
  <2> QED BY <1>2, <1>3, <2>1 DEF IInv, CarriedInOrder
<1>6. \A i \in 1..(n + 1) :
        results'[i].result # "pending" /\ SameItem(i)' /\ ResultIsTrue(job, i, results[i])'
  <2>1. ASSUME NEW i \in 1..n
        PROVE  results'[i].result # "pending" /\ SameItem(i)' /\ ResultIsTrue(job, i, results[i])'
    <3>1. results[i].result # "pending" /\ SameItem(i) /\ ResultIsTrue(job, i, results[i])
      BY <1>1, <1>3, MailAssumption DEF IInv, ResultsSoFar
    <3>2. results'[i] = results[i]
      BY <1>3
    <3>3. ResultIsTrue(job, i, results[i])'
      BY <3>1, <3>2 DEF ResultIsTrue, WasCarried
    <3> QED BY <3>1, <3>2, <3>3 DEF SameItem
  <2>2. /\ item.result = r /\ item.destUid = u
        /\ Current = items[job][n + 1]
    BY <1>0, <1>1, <1>2 DEF Item, Current
  <2>3. SameItem(n + 1)'
    BY <1>0, <1>3, <2>2 DEF SameItem
  <2>4. ResultIsTrue(job, n + 1, item)
    BY <1>0, <1>2
  <2>5. ResultIsTrue(job, n + 1, results[n + 1])'
    BY <1>3, <2>4 DEF ResultIsTrue, WasCarried
  <2>6. ASSUME NEW i \in 1..(n + 1), i \notin 1..n PROVE i = n + 1
    BY <2>6
  <2> QED BY <1>3, <2>1, <2>2, <2>3, <2>5, <2>6
<1>7. ResultsSoFar'
  <2>1. job' # NoBatch
    BY <1>1, MailAssumption
  <2> QED BY <1>3, <1>4, <1>6, <2>1 DEF ResultsSoFar
<1>8. InHand'
  BY DEF InHand
<1> QED BY <1>5, <1>7, <1>8, LoopStep

LEMMA ReportsStep ==
  ASSUME TypeOK, IInv, RejectItem \/ FetchFails \/ MoveConfirmed \/ MoveUnconfirmed
  PROVE  IInv'
<1>0. /\ job # NoBatch /\ MoreItems
      /\ phase \in {"fetch", "move", "answer"} /\ phase' = "fetch"
      /\ UNCHANGED <<mailVars, batchVars, job, carried, bounds>>
  BY DEF RejectItem, FetchFails, MoveConfirmed, MoveUnconfirmed, IInv, OneJob, InHand
<1>1. Current \in Item /\ Len(results) \in Nat
  BY <1>0, CurrentType, LenProperties DEF TypeOK
<1>2. ASSUME NEW r \in {"moved", "failed", "uncertain"}, NEW u \in Nat
      PROVE  /\ [Current EXCEPT !.result = r, !.destUid = u].result = r
             /\ [Current EXCEPT !.result = r, !.destUid = u].destUid = u
  BY <1>1 DEF Item
<1>3. CASE RejectItem \/ FetchFails
  <2>1. Report("failed", 0) /\ phase = "fetch"
    BY <1>3 DEF RejectItem, FetchFails
  <2>2. ~WasCarried(job, Len(results) + 1)
    <3> SUFFICES ASSUME NEW c \in carried, c.batch = job, c.index = Len(results) + 1
                 PROVE  FALSE
      BY DEF WasCarried
    <3>1. c.index <= Len(results) + 0
      BY <2>1 DEF IInv, CarriedInOrder
    <3> QED BY <1>1, <3>1
  <2>3. ResultIsTrue(job, Len(results) + 1, [Current EXCEPT !.result = "failed", !.destUid = 0])
    BY <1>2, <2>2 DEF ResultIsTrue
  <2> QED BY <1>0, <2>1, <2>3, ReportStep
<1>4. CASE MoveConfirmed
  <2>1. PICK u \in {landed, 0} : Report("moved", u)
    BY <1>4 DEF MoveConfirmed
  <2>2. u \in Nat /\ phase = "answer"
    BY <1>4 DEF TypeOK, MoveConfirmed
  <2>3. PICK c \in carried : /\ c.batch = job /\ c.index = Len(results) + 1
                             /\ c.uid = landed /\ (landed # 0 => c.msg # NoMessage)
    BY <2>2 DEF IInv, InHand
  <2>4. ResultIsTrue(job, Len(results) + 1, [Current EXCEPT !.result = "moved", !.destUid = u])
    BY <1>2, <2>2, <2>3 DEF ResultIsTrue, WasCarried
  <2> QED BY <1>0, <2>1, <2>2, <2>4, ReportStep
<1>5. CASE MoveUnconfirmed
  <2>1. Report("uncertain", 0)
    BY <1>5 DEF MoveUnconfirmed
  <2>2. ResultIsTrue(job, Len(results) + 1, [Current EXCEPT !.result = "uncertain", !.destUid = 0])
    BY <1>2 DEF ResultIsTrue
  <2> QED BY <1>0, <2>1, <2>2, ReportStep
<1> QED BY <1>3, <1>4, <1>5

LEMMA ServerMovesStep ==
  ASSUME TypeOK, IInv, ServerMoves
  PROVE  IInv'
<1> USE DEF batchVars, bounds
<1>1. /\ phase = "move" /\ phase' = "answer"
      /\ UNCHANGED <<batchVars, job, results, bounds>>
  BY DEF ServerMoves
<1>2. /\ job \in Batches /\ MoreItems /\ Current \in Item
      /\ Current.src \in Mailboxes /\ Current.dst \in Mailboxes /\ Current.uid \in Nat
      /\ Len(results) + 1 \in DOMAIN items[job] /\ status[job] = "sending"
      /\ Len(results) \in Nat
  BY <1>1, HandType, LenProperties DEF IInv, OneJob, TypeOK
<1>3. PICK n \in Nat : n = Len(results)
  BY <1>2
(* The server's two ways.                                                  *)
<1>4. \E m \in Messages \cup {NoMessage}, u \in Nat :
        /\ carried' = carried \cup {[batch |-> job, index |-> n + 1, msg |-> m, uid |-> u]}
        /\ landed' = u
        /\ u # 0 => m # NoMessage
        /\ m # NoMessage => m \in Messages /\ SameMessage(Current, m)
        /\ Grown' /\ (renumbers = 0 => \A c \in carried : SafeUid(c)')
        /\ m # NoMessage => /\ u < uidNext'[Current.dst]
                            /\ box'[m] = Current.dst /\ uid'[m] = u
  <2>1. CASE \E m \in Found(Current.src, Current.uid) :
               Place(m, Current.dst) /\ landed' = uid'[m] /\ CarryOut(m, uid'[m])
    <3>1. PICK m \in Found(Current.src, Current.uid) :
            Place(m, Current.dst) /\ landed' = uid'[m] /\ CarryOut(m, uid'[m])
      BY <2>1
    <3>2. m \in Messages /\ m # NoMessage /\ SameMessage(Current, m)
      BY <1>1, MailAssumption DEF Found, IInv, InHand
    <3>3. /\ Grown' /\ (renumbers = 0 => \A c \in carried : SafeUid(c)')
          /\ uid'[m] < uidNext'[Current.dst] /\ box'[m] = Current.dst
      BY <1>1, <1>2, <3>1, <3>2, PlaceKeeps
    <3>4. uid'[m] \in Nat
      BY <1>2, <3>1, <3>2, PlaceType
    <3> QED BY <1>3, <3>1, <3>2, <3>3, <3>4 DEF CarryOut
  <2>2. CASE landed' = 0 /\ CarryOut(NoMessage, 0) /\ UNCHANGED mailVars
    <3>1. Grown' /\ (renumbers = 0 => \A c \in carried : SafeUid(c)')
      BY <1>1, <2>2, UidsGrowParts DEF IInv, Grown, SafeUid, Found, mailVars
    <3> QED BY <1>3, <2>2, <3>1 DEF CarryOut
  <2> QED BY <2>1, <2>2 DEF ServerMoves
<1>5. PICK m \in Messages \cup {NoMessage}, u \in Nat :
        /\ carried' = carried \cup {[batch |-> job, index |-> n + 1, msg |-> m, uid |-> u]}
        /\ landed' = u
        /\ u # 0 => m # NoMessage
        /\ m # NoMessage => m \in Messages /\ SameMessage(Current, m)
        /\ Grown' /\ (renumbers = 0 => \A c \in carried : SafeUid(c)')
        /\ m # NoMessage => /\ u < uidNext'[Current.dst]
                            /\ box'[m] = Current.dst /\ uid'[m] = u
  BY <1>4
<1>6. PICK new : new = [batch |-> job, index |-> n + 1, msg |-> m, uid |-> u]
  OBVIOUS
<1>7. /\ new.batch = job /\ new.index = n + 1 /\ new.msg = m /\ new.uid = u
      /\ carried' = carried \cup {new}
      /\ Current = items[job][n + 1]
  BY <1>3, <1>5, <1>6 DEF Current
<1>8. UidsGrow'
  <2>1. SafeUid(new)'
    <3>1. ASSUME m # NoMessage, NEW k \in Messages, box'[k] = Current.dst, uid'[k] = u
          PROVE  k = m
      BY <1>2, <1>5, <3>1 DEF Grown
    <3> QED BY <1>1, <1>5, <1>7, <3>1 DEF SafeUid, Found
  <2> QED BY <1>1, <1>5, <1>7, <2>1, UidsGrowParts
<1>9. OneJob' /\ BatchesKept'
  BY <1>1 DEF IInv, OneJob, BatchesKept
<1>10. CarriedInOrder'
  <2>1. \A c \in carried : c.batch = job => c.index <= n + 1
    <3> SUFFICES ASSUME NEW c \in carried, c.batch = job PROVE c.index <= n + 1
      OBVIOUS
    <3>1. c.index \in Nat /\ c.index <= Len(results) + 0
      BY <1>1 DEF TypeOK, IInv, CarriedInOrder
    <3> QED BY <1>3, <3>1
  <2> QED BY <1>1, <1>2, <1>3, <1>7, <2>1 DEF IInv, CarriedInOrder
<1>11. \A b, i : WasCarried(b, i)' <=> WasCarried(b, i) \/ (b = job /\ i = n + 1)
  BY <1>7 DEF WasCarried
<1>12. ResultsSoFar'
  <2>1. /\ job # NoBatch /\ Len(results) <= Len(items[job]) /\ results \in Seq(Item)
        /\ \A i \in DOMAIN results : results[i].result # "pending" /\ SameItem(i)
                                     /\ ResultIsTrue(job, i, results[i])
    BY <1>2, MailAssumption DEF IInv, ResultsSoFar, TypeOK
  <2>2. \A i \in DOMAIN results : ResultIsTrue(job, i, results[i])'
    <3> TAKE i \in DOMAIN results
    <3>1. i # n + 1
      BY <1>3, <2>1, LenProperties
    <3> QED BY <1>1, <1>7, <1>11, <2>1, <3>1 DEF ResultIsTrue
  <2> QED BY <1>1, <2>1, <2>2 DEF ResultsSoFar, SameItem
<1>13. InHand'
  BY <1>1, <1>2, <1>3, <1>5, <1>7 DEF InHand, MoreItems
<1>14. RestoresKept'
  <2>1. \A q \in Batches : \A i, j : Prepared(q, i, j) => Prepared(q, i, j)'
    BY <1>1, <1>7 DEF Prepared
  <2>2. \A q \in Batches : \A i, j : Planned(q, i, j) => Planned(q, i, j)'
    BY <1>1 DEF Planned
  <2> QED BY <1>1, <2>1, <2>2 DEF IInv, RestoresKept
<1>15. MovesOnlyApproved'
  <2>1. m # NoMessage => \/ Current.mid # NoId /\ Current.mid = MessageId[m]
                         \/ Current.mid = NoId /\ Current.head = Headers[m]
    BY <1>5 DEF SameMessage
  <2> QED BY <1>1, <1>7, <2>1 DEF IInv, MovesOnlyApproved
<1>16. ResultsAreTrue'
  <2>1. ASSUME NEW b \in Batches, NEW i \in DOMAIN items[b] PROVE ItemIsTrue(b, i)'
    <3>1. CASE b = job
      <4>1. items[b][i].result = "pending"
        BY <1>2, <3>1 DEF IInv, BatchesKept, Verdicts
      <4> QED BY <1>1, <1>2, <3>1, <4>1 DEF ItemIsTrue, ResultIsTrue
    <3>2. CASE b # job
      <4>1. ItemIsTrue(b, i)
        BY TrueByItem DEF IInv
      <4> QED BY <1>1, <1>7, <1>11, <3>2, <4>1 DEF ItemIsTrue, ResultIsTrue
    <3> QED BY <3>1, <3>2
  <2> QED BY <1>1, <2>1, TrueByItem
<1> QED BY <1>8, <1>9, <1>10, <1>12, <1>13, <1>14, <1>15, <1>16 DEF IInv

LEMMA ClaimStep ==
  ASSUME TypeOK, IInv, NEW b \in Batches, Claim(b)
  PROVE  IInv'
<1>1. /\ phase = "idle" /\ status[b] = "approved" /\ phase' = "connect" /\ job' = b
      /\ status' = [status EXCEPT ![b] = "sending"]
      /\ UNCHANGED <<mailVars, requests, items, restores, results, landed, carried, bounds>>
  BY DEF Claim
<1>2. /\ job = NoBatch /\ results = <<>> /\ status'[b] = "sending"
      /\ \A q \in Batches : q # b => status'[q] = status[q]
      /\ \A c \in carried : c.batch # b
      /\ \A q \in Batches : restores[q] # NoBatch => restores[q] # b
  BY <1>1, UnclaimedFacts DEF Unclaimed, IInv, OneJob, ResultsSoFar, TypeOK
<1>3. UidsGrow'
  BY <1>1 DEF IInv, UidsGrow, Found, mailVars, bounds
<1>4. OneJob'
  BY <1>1, <1>2, MailAssumption DEF IInv, OneJob
<1>5. BatchesKept'
  BY <1>1, <1>2 DEF IInv, BatchesKept, Verdicts
<1>6. CarriedInOrder'
  <2>1. \A c \in carried : c.batch \in Batches
    BY DEF TypeOK
  <2> QED BY <1>1, <1>2, <2>1 DEF IInv, CarriedInOrder
<1>7. ResultsSoFar'
  <2>1. Len(items[b]) \in Nat /\ Len(<<>>) = 0 /\ DOMAIN <<>> = {}
    BY LenProperties DEF TypeOK
  <2> QED BY <1>1, <1>2, <2>1 DEF ResultsSoFar
<1>8. InHand'
  BY <1>1 DEF InHand
<1>9. RestoresKept'
  <2>1. ASSUME NEW q \in Batches PROVE RestoreKept(q)'
    <3>1. RestoreKept(q)
      BY KeptByBatch DEF IInv
    <3>2. restores[q] # NoBatch => restores[q] \in Batches /\ restores[q] # b
      BY <1>2 DEF TypeOK
    <3>3. restores[q] # NoBatch => status'[restores[q]] \in Verdicts
      BY <1>2, <3>1, <3>2 DEF RestoreKept
    <3>4. status'[q] = "none" => status[q] = "none"
      BY <1>2
    <3> QED BY <1>1, <3>1, <3>3, <3>4, RestoreUntouched DEF bounds
  <2> QED BY <2>1, KeptByBatch
<1>10. MovesOnlyApproved'
  BY <1>1 DEF IInv, MovesOnlyApproved
<1>11. ResultsAreTrue'
  <2>1. ASSUME NEW q \in Batches, NEW i \in DOMAIN items[q] PROVE ItemIsTrue(q, i)'
    <3>1. ItemIsTrue(q, i)
      BY TrueByItem DEF IInv
    <3>2. status'[q] = status[q] \/ status'[q] = "sending"
      BY <1>2
    <3> QED BY <1>1, <3>1, <3>2 DEF ItemIsTrue, ResultIsTrue, WasCarried
  <2> QED BY <1>1, <2>1, TrueByItem
<1> QED BY <1>3, <1>4, <1>5, <1>6, <1>7, <1>8, <1>9, <1>10, <1>11 DEF IInv

-----------------------------------------------------------------------------
(* The invariant, for the ways in which a batch ends.                      *)

(* The batch in hand ends: with the results, or as it was if it was never  *)
(* begun.                                                                  *)
LEMMA EndStep ==
  ASSUME TypeOK, IInv, job # NoBatch, NEW list \in Seq(Item), NEW verdict \in Verdicts,
         UNCHANGED <<mailVars, requests, restores, carried, bounds>>,
         phase' = "idle", job' = NoBatch, results' = <<>>,
         items' = [items EXCEPT ![job] = list], status' = [status EXCEPT ![job] = verdict],
         Len(list) = Len(items[job]),
         \A i \in DOMAIN list :
           /\ list[i] = [items[job][i] EXCEPT !.result = list[i].result,
                                              !.destUid = list[i].destUid]
           /\ ResultIsTrue(job, i, list[i])
           /\ verdict = "failed" /\ list[i].result # "moved" => ~WasCarried(job, i)
           /\ verdict = "sent" => list[i].result = "moved"
  PROVE  IInv'
<1> USE DEF bounds
<1>1. /\ job \in Batches /\ status[job] = "sending" /\ items[job] \in Seq(Item)
      /\ items'[job] = list /\ status'[job] = verdict
      /\ \A b \in Batches : b # job => items'[b] = items[b] /\ status'[b] = status[b]
  BY DEF IInv, OneJob, TypeOK
<1>2. DOMAIN list = DOMAIN items[job]
  <2>1. DOMAIN list = 1..Len(list)
    BY LenProperties
  <2>2. DOMAIN items[job] = 1..Len(items[job])
    BY <1>1, LenProperties
  <2> QED BY <2>1, <2>2
<1>3. \A i \in DOMAIN list :
        /\ list[i].src = items[job][i].src /\ list[i].uid = items[job][i].uid
        /\ list[i].dst = items[job][i].dst /\ list[i].mid = items[job][i].mid
        /\ list[i].head = items[job][i].head /\ list[i].who = items[job][i].who
  <2> TAKE i \in DOMAIN list
  <2>1. items[job][i] \in Item
    <3>1. i \in 1..Len(items[job])
      BY <1>1, <1>2, LenProperties
    <3> QED BY <1>1, <3>1, ElementOfSeq
  <2>2. list[i] = [items[job][i] EXCEPT !.result = list[i].result, !.destUid = list[i].destUid]
    OBVIOUS
  <2> QED BY <2>1, <2>2 DEF Item
<1>4. \A b \in Batches : DOMAIN items'[b] = DOMAIN items[b]
  BY <1>1, <1>2
<1>5. \A b \in Batches : \A i \in DOMAIN items[b] :
        /\ items'[b][i].dst = items[b][i].dst /\ items'[b][i].mid = items[b][i].mid
        /\ items'[b][i].head = items[b][i].head /\ items'[b][i].who = items[b][i].who
  <2> SUFFICES ASSUME NEW b \in Batches, NEW i \in DOMAIN items[b]
               PROVE  /\ items'[b][i].dst = items[b][i].dst /\ items'[b][i].mid = items[b][i].mid
                      /\ items'[b][i].head = items[b][i].head
                      /\ items'[b][i].who = items[b][i].who
    OBVIOUS
  <2>1. CASE b # job
    BY <1>1, <2>1
  <2>2. CASE b = job
    <3>1. items'[b] = list /\ i \in DOMAIN list
      BY <1>1, <1>2, <2>2
    <3> QED BY <1>3, <2>2, <3>1
  <2> QED BY <2>1, <2>2
<1>6. \A c \in carried : c.batch \in Batches /\ c.index \in DOMAIN items[c.batch]
  BY DEF TypeOK, IInv, CarriedInOrder
<1>7. UidsGrow'
  <2>1. \A c \in carried : items'[c.batch][c.index].dst = items[c.batch][c.index].dst
    <3> TAKE c \in carried
    <3>1. c.batch \in Batches /\ c.index \in DOMAIN items[c.batch]
      BY <1>6
    <3> QED BY <1>5, <3>1
  <2>2. Grown /\ (renumbers = 0 => \A c \in carried : SafeUid(c))
    BY UidsGrowParts DEF IInv
  <2>3. Grown' /\ (renumbers = 0 => \A c \in carried : SafeUid(c)')
    BY <2>1, <2>2 DEF Grown, SafeUid, Found, mailVars
  <2> QED BY <2>3, UidsGrowParts
<1>8. OneJob'
  BY <1>1, MailAssumption DEF IInv, OneJob, Verdicts
<1>9. BatchesKept'
  <2>1. ASSUME NEW b \in Batches PROVE BatchKept(b)'
    <3>1. BatchKept(b)
      BY KeptByBatch DEF IInv
    <3>2. CASE b = job
      <4>1. items[job] # <<>> /\ requests[job] = <<>>
        BY <1>1, <3>1, <3>2 DEF BatchKept
      <4>2. list # <<>>
        BY <1>1, <4>1, EmptySeq, LenProperties
      <4> QED BY <1>1, <3>2, <4>1, <4>2 DEF BatchKept, Verdicts
    <3>3. CASE b # job
      BY <1>1, <3>1, <3>3 DEF BatchKept
    <3> QED BY <3>2, <3>3
  <2> QED BY <2>1, KeptByBatch
<1>10. CarriedInOrder'
  <2>1. \A b \in Batches : status[b] \in {"sending"} \cup Verdicts
                             => status'[b] \in {"sending"} \cup Verdicts
    BY <1>1
  <2>2. \A c \in carried : c.batch # job'
    BY <1>6, MailAssumption
  <2> QED BY <1>4, <1>6, <2>1, <2>2 DEF IInv, CarriedInOrder
<1>11. ResultsSoFar' /\ InHand'
  BY DEF ResultsSoFar, InHand
<1>12. RestoresKept'
  <2>1. ASSUME NEW q \in Batches, restores[q] # NoBatch PROVE RestoreKept(q)'
    <3>1. RestoreKept(q)
      BY KeptByBatch DEF IInv
    <3>2. PICK o \in Batches : o = restores[q]
      BY <2>1 DEF TypeOK
    <3>3. status[o] \in Verdicts /\ o # job
      BY <1>1, <2>1, <3>1, <3>2 DEF RestoreKept, Verdicts
    <3>4. items'[o] = items[o] /\ status'[o] \in Verdicts /\ status'[q] # "none"
      BY <1>1, <2>1, <3>1, <3>3 DEF RestoreKept, Verdicts
    <3>5. \A i : \A j \in DOMAIN items[q] : Prepared(q, i, j) => Prepared(q, i, j)'
      BY <1>5, <3>2, <3>4 DEF Prepared
    <3>6. \A i, j : Planned(q, i, j) => Planned(q, i, j)'
      BY <3>2, <3>4 DEF Planned
    <3>7. Moved(items[restores[q]])' = Moved(items[restores[q]])
      BY <3>2, <3>4
    <3> QED BY <1>4, <2>1, <3>1, <3>2, <3>4, <3>5, <3>6, <3>7 DEF RestoreKept
  <2>2. ASSUME NEW q \in Batches, restores[q] = NoBatch PROVE RestoreKept(q)'
    BY <2>2 DEF RestoreKept
  <2> QED BY <2>1, <2>2, KeptByBatch
<1>13. MovesOnlyApproved'
  BY <1>5, <1>6 DEF IInv, MovesOnlyApproved
<1>14. ResultsAreTrue'
  <2>1. ASSUME NEW b \in Batches, b # job, NEW i \in DOMAIN items[b] PROVE ItemIsTrue(b, i)'
    <3>1. ItemIsTrue(b, i)
      BY TrueByItem DEF IInv
    <3>2. items'[b] = items[b] /\ status'[b] = status[b] /\ carried' = carried
      BY <1>1, <2>1
    <3> QED BY <3>1, <3>2 DEF ItemIsTrue, ResultIsTrue, WasCarried
  <2>2. PICK b \in Batches : b = job
    BY <1>1
  <2>3. ASSUME NEW i \in DOMAIN list PROVE ItemIsTrue(b, i)'
    <3>1. /\ items'[b][i] = list[i] /\ status'[b] = verdict
          /\ ResultIsTrue(b, i, list[i])
          /\ verdict = "failed" /\ list[i].result # "moved" => ~WasCarried(b, i)
          /\ verdict = "sent" => list[i].result = "moved"
      BY <1>1, <2>2
    <3> QED BY <3>1 DEF ItemIsTrue, ResultIsTrue, WasCarried, Verdicts
  <2>4. ASSUME NEW q \in Batches, NEW i \in DOMAIN items'[q] PROVE ItemIsTrue(q, i)'
    BY <1>1, <1>4, <2>1, <2>2, <2>3
  <2> QED BY <2>4, TrueByItem
<1> QED BY <1>7, <1>8, <1>9, <1>10, <1>11, <1>12, <1>13, <1>14 DEF IInv

LEMMA ConnectFailsStep ==
  ASSUME TypeOK, IInv, ConnectFails
  PROVE  IInv'
<1>1. /\ phase = "connect" /\ phase' = "idle" /\ job' = NoBatch /\ results' = <<>>
      /\ status' = [status EXCEPT ![job] = "failed"]
      /\ UNCHANGED <<mailVars, requests, items, restores, carried, bounds>>
  BY DEF ConnectFails, Leave
<1>2. job \in Batches /\ job # NoBatch /\ items[job] \in Seq(Item) /\ status[job] = "sending"
  BY <1>1 DEF IInv, OneJob, TypeOK
<1>3. results = <<>> /\ Len(results) = 0
  BY <1>1, <1>2 DEF IInv, ResultsSoFar
<1>4. ASSUME NEW i \in DOMAIN items[job] PROVE ~WasCarried(job, i)
  <2> SUFFICES ASSUME NEW c \in carried, c.batch = job, c.index = i PROVE FALSE
    BY DEF WasCarried
  <2>1. i \in 1..Len(items[job]) /\ Len(items[job]) \in Nat
    BY <1>2, LenProperties
  <2>2. c.index <= 0 + 0
    BY <1>1, <1>3 DEF IInv, CarriedInOrder
  <2> QED BY <2>1, <2>2
<1>5. \A i \in DOMAIN items[job] :
        items[job][i] \in Item /\ items[job][i].result = "pending"
  BY <1>2, ElementOfSeq DEF IInv, BatchesKept, Verdicts
<1>6. \A i \in DOMAIN items[job] :
        /\ items[job][i] = [items[job][i] EXCEPT !.result = items[job][i].result,
                                                 !.destUid = items[job][i].destUid]
        /\ ResultIsTrue(job, i, items[job][i])
  BY <1>5 DEF Item, ResultIsTrue
<1>7. items' = [items EXCEPT ![job] = items[job]]
  BY <1>1, <1>2 DEF TypeOK
<1> QED BY <1>1, <1>2, <1>4, <1>6, <1>7, EndStep DEF Verdicts

LEMMA MarkMoveOutcomeStep ==
  ASSUME TypeOK, IInv, MarkMoveOutcome
  PROVE  IInv'
<1>1. /\ phase = "fetch" /\ ~MoreItems /\ phase' = "idle" /\ job' = NoBatch /\ results' = <<>>
      /\ items' = [items EXCEPT ![job] = results]
      /\ status' = [status EXCEPT ![job] = Verdict(results)]
      /\ UNCHANGED <<mailVars, requests, restores, carried, bounds>>
  BY DEF MarkMoveOutcome, Leave
<1>2. job \in Batches /\ job # NoBatch /\ items[job] \in Seq(Item) /\ results \in Seq(Item)
  BY <1>1 DEF IInv, OneJob, TypeOK
<1>3. Len(results) = Len(items[job])
  <2>1. Len(results) \in Nat /\ Len(items[job]) \in Nat
    BY <1>2, LenProperties
  <2> QED BY <1>1, <1>2, <2>1 DEF MoreItems, IInv, ResultsSoFar
<1>4. \A i \in DOMAIN results :
        results[i].result # "pending" /\ SameItem(i) /\ ResultIsTrue(job, i, results[i])
  BY <1>2 DEF IInv, ResultsSoFar
<1>5. \A i \in DOMAIN results : results[i].result \in {"moved", "failed", "uncertain"}
  <2> TAKE i \in DOMAIN results
  <2>1. results[i] \in Item
    BY <1>2, ElementOfSeq
  <2> QED BY <1>4, <2>1 DEF Item
<1>6. /\ Verdict(results) \in Verdicts
      /\ Verdict(results) = "sent" => \A i \in DOMAIN results : results[i].result = "moved"
      /\ Verdict(results) = "failed" => \A i \in DOMAIN results : results[i].result # "uncertain"
  BY <1>5 DEF Verdict, Verdicts
<1>7. Verdict(results) = "failed" =>
        \A i \in DOMAIN results : results[i].result # "moved" => ~WasCarried(job, i)
  BY <1>4, <1>5, <1>6 DEF ResultIsTrue
<1>8. PICK verdict \in Verdicts : verdict = Verdict(results)
  BY <1>6
<1> QED BY <1>1, <1>2, <1>3, <1>4, <1>6, <1>7, <1>8, EndStep DEF SameItem

LEMMA RestartStep ==
  ASSUME TypeOK, IInv, Restart
  PROVE  IInv'
<1> USE DEF bounds
<1>1. /\ phase # "down" /\ phase' = "idle" /\ job' = NoBatch /\ results' = <<>>
      /\ UNCHANGED <<mailVars, carried, renumbers>>
  BY DEF Restart, Dies, Leave
<1>2. ASSUME NEW b \in Batches
      PROVE  /\ requests'[b] = <<>>
             /\ status[b] = "preparing" =>
                  status'[b] = "none" /\ items'[b] = <<>> /\ restores'[b] = NoBatch
             /\ status[b] # "preparing" => items'[b] = items[b] /\ restores'[b] = restores[b]
             /\ status[b] = "sending" => status'[b] = "uncertain"
             /\ status[b] \notin {"preparing", "sending"} => status'[b] = status[b]
  BY DEF Restart
<1>3. ASSUME NEW c \in carried
      PROVE  /\ c.batch \in Batches /\ items'[c.batch] = items[c.batch]
             /\ status'[c.batch] \in Verdicts
  <2>1. c.batch \in Batches /\ status[c.batch] \in {"sending"} \cup Verdicts
    BY DEF TypeOK, IInv, CarriedInOrder
  <2> QED BY <1>2, <2>1 DEF Verdicts
<1>4. UidsGrow'
  <2>1. Grown /\ (renumbers = 0 => \A c \in carried : SafeUid(c))
    BY UidsGrowParts DEF IInv
  <2>2. Grown' /\ (renumbers = 0 => \A c \in carried : SafeUid(c)')
    BY <1>1, <1>3, <2>1 DEF Grown, SafeUid, Found, mailVars
  <2> QED BY <1>1, <2>2, UidsGrowParts
<1>5. OneJob'
  <2>1. ASSUME NEW b \in Batches PROVE status'[b] # "sending" /\ b # NoBatch
    BY <1>2, MailAssumption
  <2> QED BY <1>1, <2>1 DEF OneJob
<1>6. BatchesKept'
  <2>1. ASSUME NEW b \in Batches PROVE BatchKept(b)'
    <3>1. BatchKept(b)
      BY KeptByBatch DEF IInv
    <3> QED BY <1>2, <3>1 DEF BatchKept, Verdicts
  <2> QED BY <2>1, KeptByBatch
<1>7. CarriedInOrder'
  BY <1>1, <1>3, MailAssumption DEF IInv, CarriedInOrder
<1>8. ResultsSoFar' /\ InHand'
  BY <1>1 DEF ResultsSoFar, InHand
<1>9. RestoresKept'
  <2>1. ASSUME NEW q \in Batches, restores'[q] # NoBatch PROVE RestoreKept(q)'
    <3>1. RestoreKept(q) /\ BatchKept(q)
      BY KeptByBatch DEF IInv
    <3>2. /\ status[q] # "preparing" /\ items'[q] = items[q] /\ restores'[q] = restores[q]
      BY <1>2, <2>1
    <3>3. PICK o \in Batches : o = restores[q]
      BY <2>1, <3>2 DEF TypeOK
    <3>4. status[o] \in Verdicts
      BY <2>1, <3>1, <3>2, <3>3 DEF RestoreKept
    <3>5. items'[o] = items[o] /\ status'[o] \in Verdicts
      BY <1>2, <3>4 DEF Verdicts
    <3>6. requests[q] = <<>> /\ requests'[q] = requests[q] /\ status'[q] # "none"
      BY <1>2, <2>1, <3>1, <3>2 DEF RestoreKept, BatchKept
    <3> QED BY <1>1, <3>1, <3>2, <3>3, <3>4, <3>5, <3>6
        DEF RestoreKept, Prepared, Planned, Moved
  <2>2. ASSUME NEW q \in Batches, restores'[q] = NoBatch PROVE RestoreKept(q)'
    BY <2>2 DEF RestoreKept
  <2> QED BY <2>1, <2>2, KeptByBatch
<1>10. MovesOnlyApproved'
  BY <1>1, <1>3 DEF IInv, MovesOnlyApproved
<1>11. ResultsAreTrue'
  <2>1. ASSUME NEW b \in Batches, NEW i \in DOMAIN items'[b] PROVE ItemIsTrue(b, i)'
    <3>1. status[b] # "preparing" /\ items'[b] = items[b]
      BY <1>2, <2>1
    <3>2. ItemIsTrue(b, i)
      BY <2>1, <3>1, TrueByItem DEF IInv
    <3>3. status'[b] = status[b] \/ status'[b] = "uncertain"
      BY <1>2, <3>1
    <3> QED BY <1>1, <3>1, <3>2, <3>3 DEF ItemIsTrue, ResultIsTrue, WasCarried
  <2> QED BY <2>1, TrueByItem
<1> QED BY <1>4, <1>5, <1>6, <1>7, <1>8, <1>9, <1>10, <1>11 DEF IInv

LEMMA RestartFailsStep ==
  ASSUME TypeOK, IInv, RestartFails
  PROVE  IInv'
<1>1. /\ phase' = "down" /\ job' = NoBatch /\ results' = <<>>
      /\ UNCHANGED <<mailVars, batchVars, carried, renumbers>>
  BY DEF RestartFails, Dies, Leave
<1> USE DEF batchVars, mailVars
<1>2. UidsGrow' /\ OneJob' /\ BatchesKept'
  BY <1>1 DEF IInv, UidsGrow, Found, OneJob, BatchesKept
<1>3. CarriedInOrder'
  <2>1. \A c \in carried : c.batch # NoBatch
    BY MailAssumption DEF TypeOK
  <2> QED BY <1>1, <2>1 DEF IInv, CarriedInOrder
<1>4. ResultsSoFar' /\ InHand'
  BY <1>1 DEF ResultsSoFar, InHand
<1>5. RestoresKept'
  <2>1. ASSUME NEW q \in Batches PROVE RestoreKept(q)'
    <3>1. RestoreKept(q)
      BY KeptByBatch DEF IInv
    <3>2. restores[q] # NoBatch => status[restores[q]] \in Verdicts
      BY <3>1 DEF RestoreKept
    <3> QED BY <1>1, <3>1, <3>2, RestoreUntouched
  <2> QED BY <2>1, KeptByBatch
<1>6. MovesOnlyApproved' /\ ResultsAreTrue'
  BY <1>1 DEF IInv, MovesOnlyApproved, ResultsAreTrue, ResultIsTrue, WasCarried
<1> QED BY <1>2, <1>3, <1>4, <1>5, <1>6 DEF IInv

LEMMA InitInvariant == Init => IInv
<1> SUFFICES ASSUME Init PROVE IInv
  OBVIOUS
<1>1. ASSUME NEW m \in Messages PROVE uid[m] < uidNext[box[m]]
  <2>1. uid[m] \in 1..MaxUid /\ box[m] \in Mailboxes
    BY DEF Init
  <2>2. uidNext[box[m]] = MaxUid + 1
    BY <2>1 DEF Init
  <2> QED BY <2>1, <2>2, MailAssumption
<1>2. UidsGrow
  BY <1>1 DEF Init, UidsGrow
<1>3. OneJob /\ BatchesKept /\ CarriedInOrder /\ ResultsSoFar /\ InHand
  BY MailAssumption DEF Init, OneJob, BatchesKept, CarriedInOrder, ResultsSoFar, InHand, Verdicts
<1>4. RestoresKept /\ MovesOnlyApproved /\ ResultsAreTrue
  BY DEF Init, RestoresKept, MovesOnlyApproved, ResultsAreTrue
<1> QED BY <1>2, <1>3, <1>4 DEF IInv

LEMMA StepInvariant ==
  ASSUME TypeOK, IInv, [Next]_vars
  PROVE  IInv'
<1>1. ASSUME NEW b \in Batches, phase # "down",
             \/ RequestMove(b) \/ RequestRestore(b) \/ PrepareItem(b) \/ PrepareFails(b)
             \/ Approve(b)
      PROVE  IInv'
  BY <1>1, RequestMoveStep, RequestRestoreStep, PrepareItemStep, PrepareFailsStep, ApproveStep
<1>2. ASSUME NEW b \in Batches, Claim(b) PROVE IInv'
  BY <1>2, ClaimStep
<1>3. CASE ExecuteMoveItems
  BY <1>3, ConnectStep, ConnectFailsStep, FetchItemStep, ReportsStep, ServerMovesStep,
    MarkMoveOutcomeStep DEF ExecuteMoveItems
<1>4. CASE Restart \/ RestartFails
  BY <1>4, RestartStep, RestartFailsStep
<1>5. CASE ForeignClient
  BY <1>5, ForeignStep
<1>6. ASSUME NEW b \in Mailboxes, Renumber(b) PROVE IInv'
  BY <1>6, RenumberStep
<1>7. CASE UNCHANGED vars
  <2> USE <1>7 DEF vars, mailVars, batchVars, loopVars, bounds
  <2>1. UidsGrow' /\ OneJob' /\ BatchesKept' /\ CarriedInOrder'
    BY DEF IInv, UidsGrow, Found, OneJob, BatchesKept, CarriedInOrder
  <2>2. ResultsSoFar'
    BY ResultsUntouched DEF IInv
  <2>3. InHand'
    BY DEF IInv, InHand, MoreItems, Current, Found, SameMessage
  <2>4. RestoresKept'
    BY DEF IInv, RestoresKept, Prepared, Planned, Moved
  <2>5. MovesOnlyApproved' /\ ResultsAreTrue'
    BY DEF IInv, MovesOnlyApproved, ResultsAreTrue, ResultIsTrue, WasCarried
  <2> QED BY <2>1, <2>2, <2>3, <2>4, <2>5 DEF IInv
<1> QED BY <1>1, <1>2, <1>3, <1>4, <1>5, <1>6, <1>7 DEF Next, Propose

-----------------------------------------------------------------------------
(* What batches, the loop and the mailboxes hold has the type declared for *)
(* it (imap-move.ts:16).                                                   *)
THEOREM MoveTypeCorrect == Spec => []TypeOK
<1>1. TypeOK /\ IInv /\ [Next]_vars => TypeOK' /\ IInv'
  BY TypeStep, StepInvariant DEF IInv
<1> QED BY <1>1, TypeInit, InitInvariant, PTL DEF Spec

(* The inductive invariant of a batch's execution: UIDs only grow, the     *)
(* results collected so far are true, the item in hand is the one whose    *)
(* MOVE is out (imap-move.ts:146).                                         *)
THEOREM MoveInvariantCorrect == Spec => []IInv
<1>1. TypeOK /\ IInv /\ [Next]_vars => TypeOK' /\ IInv'
  BY TypeStep, StepInvariant DEF IInv
<1> QED BY <1>1, TypeInit, InitInvariant, PTL DEF Spec

(* A message that was moved passes for the one that was shown to the human *)
(* who approved (imap-move.ts:52), although other clients may act between  *)
(* the check and MOVE.                                                     *)
THEOREM MovesOnlyApprovedCorrect == Spec => []MovesOnlyApproved
<1>1. IInv => MovesOnlyApproved
  BY DEF IInv
<1> QED BY <1>1, MoveInvariantCorrect, PTL

(* The outbox never reports a move that was not carried out, nor hides one *)
(* (imap-move.ts:144), whatever fails and whenever the Worker dies.        *)
THEOREM ResultsAreTrueCorrect == Spec => []ResultsAreTrue
<1>1. IInv => ResultsAreTrue
  BY DEF IInv
<1> QED BY <1>1, MoveInvariantCorrect, PTL

(* As long as no mailbox is renumbered, a restore returns exactly the      *)
(* messages that the original batch moved (imap-move.ts:214).              *)
THEOREM RestoreIsExactCorrect == Spec => []RestoreIsExact
<1>1. ASSUME TypeOK, IInv PROVE RestoreIsExact
  <2> SUFFICES ASSUME renumbers = 0, NEW b \in Batches, restores[b] # NoBatch,
                      status[b] # "preparing"
               PROVE  LET original == items[restores[b]]
                          moved == {i \in DOMAIN original : original[i].result = "moved"}
                          Back(i, j) ==
                            /\ items[b][j].dst = original[i].src
                            /\ \E c \in carried : /\ c.batch = restores[b] /\ c.index = i
                                                  /\ c.msg = items[b][j].who
                      IN  /\ \A i \in moved : \E j \in DOMAIN items[b] : Back(i, j)
                          /\ \A j \in DOMAIN items[b] : \E i \in moved : Back(i, j)
    BY DEF RestoreIsExact, RestoreReturnsTheMessages
  <2>1. RestoreKept(b) /\ BatchKept(b)
    BY <1>1, KeptByBatch DEF IInv
  <2>2. requests[b] = <<>>
    BY <2>1 DEF RestoreKept, BatchKept
  <2> QED BY <2>1, <2>2 DEF RestoreKept, Prepared, Moved
<1> QED BY <1>1, MoveTypeCorrect, MoveInvariantCorrect, PTL

-----------------------------------------------------------------------------
(* What is never done again.                                               *)

(* Only the server's MOVE adds to `carried`, and it does so for the item   *)
(* after the results collected so far.                                     *)
LEMMA CarriedSteps ==
  ASSUME [Next]_vars
  PROVE  carried' = carried \/ (ServerMoves /\ \E m, u : CarryOut(m, u))
<1>1. CASE ServerMoves
  BY <1>1 DEF ServerMoves
<1>2. CASE Propose \/ \E b \in Batches : Claim(b)
  BY <1>2 DEF Propose, RequestMove, RequestRestore, StartBatch, PrepareItem, PrepareFails,
    Approve, Claim
<1>3. CASE ExecuteMoveItems /\ ~ServerMoves
  BY <1>3 DEF ExecuteMoveItems, Connect, ConnectFails, FetchItem, RejectItem, FetchFails,
    MoveConfirmed, MoveUnconfirmed, MarkMoveOutcome
<1>4. CASE Restart \/ RestartFails \/ ForeignClient \/ \E b \in Mailboxes : Renumber(b)
  BY <1>4 DEF Restart, RestartFails, Dies, ForeignClient, Renumber
<1>5. CASE UNCHANGED vars
  BY <1>5 DEF vars
<1> QED BY <1>1, <1>2, <1>3, <1>4, <1>5 DEF Next

LEMMA EachItemOnceStep ==
  ASSUME TypeOK, IInv, EachItemOnce, [Next]_vars
  PROVE  EachItemOnce'
<1>1. CASE carried' = carried
  BY <1>1 DEF EachItemOnce
<1>2. ASSUME ServerMoves, NEW m, NEW u, CarryOut(m, u) PROVE EachItemOnce'
  <2>1. phase = "move" /\ job \in Batches
    BY <1>2, HandType DEF IInv, ServerMoves
  <2>2. Len(results) \in Nat
    BY DEF TypeOK
  <2>3. ASSUME NEW c \in carried PROVE ~(c.batch = job /\ c.index = Len(results) + 1)
    BY <2>1, <2>2, <2>3 DEF IInv, CarriedInOrder, TypeOK
  <2> QED BY <1>2, <2>3 DEF EachItemOnce, CarryOut
<1> QED BY <1>1, <1>2, CarriedSteps

(* No item is moved twice (imap-move.ts:184): the loop only goes forward,  *)
(* and a batch is executed once.                                           *)
THEOREM EachItemOnceCorrect == Spec => []EachItemOnce
<1>1. Init => EachItemOnce
  BY DEF Init, EachItemOnce
<1>2. TypeOK /\ IInv /\ EachItemOnce /\ [Next]_vars => EachItemOnce'
  BY EachItemOnceStep
<1> QED BY <1>1, <1>2, MoveTypeCorrect, MoveInvariantCorrect, PTL DEF Spec

(* What the outbox and the mailboxes have seen of a batch.                 *)
CarriedFor(b) == {c \in carried : c.batch = b}

Rests(b) ==
  status[b] \in Verdicts =>
    /\ status'[b] = status[b] /\ items'[b] = items[b]
    /\ CarriedFor(b)' = CarriedFor(b)

LEMMA RestStep ==
  ASSUME TypeOK, IInv, [Next]_vars, NEW b \in Batches, status[b] \in Verdicts
  PROVE  status'[b] = status[b] /\ items'[b] = items[b] /\ CarriedFor(b)' = CarriedFor(b)
<1>1. phase # "down" => job # b
  BY DEF IInv, OneJob, Verdicts
<1>2. CarriedFor(b)' = CarriedFor(b)
  <2>1. CASE carried' = carried
    BY <2>1 DEF CarriedFor
  <2>2. ASSUME ServerMoves, NEW m, NEW u, CarryOut(m, u)
        PROVE  CarriedFor(b)' = CarriedFor(b)
    BY <1>1, <2>2 DEF ServerMoves, CarryOut, CarriedFor
  <2> QED BY <2>1, <2>2, CarriedSteps
<1>3. CASE UNCHANGED <<status, items>>
  BY <1>2, <1>3
<1>4. ASSUME NEW q \in Batches,
             RequestMove(q) \/ RequestRestore(q) \/ PrepareItem(q) \/ PrepareFails(q) \/ Approve(q)
      PROVE  status'[b] = status[b] /\ items'[b] = items[b]
  <2>1. q # b
    BY <1>4 DEF RequestMove, RequestRestore, StartBatch, PrepareItem, PrepareFails, Approve,
      Verdicts
  <2> QED
    BY <1>4, <2>1 DEF RequestMove, RequestRestore, StartBatch, PrepareItem, PrepareFails,
      Forget, Approve, TypeOK
<1>5. ASSUME NEW q \in Batches, Claim(q)
      PROVE  status'[b] = status[b] /\ items'[b] = items[b]
  BY <1>5 DEF Claim, Verdicts, TypeOK
<1>6. CASE ConnectFails \/ MarkMoveOutcome
  BY <1>1, <1>2, <1>6 DEF ConnectFails, MarkMoveOutcome, TypeOK
<1>7. CASE Restart
  BY <1>2, <1>7 DEF Restart, Verdicts
<1>8. CASE ExecuteMoveItems /\ ~(ConnectFails \/ MarkMoveOutcome)
  BY <1>3, <1>8 DEF ExecuteMoveItems, Connect, FetchItem, RejectItem, FetchFails, ServerMoves,
    MoveConfirmed, MoveUnconfirmed, batchVars
<1>9. CASE RestartFails \/ ForeignClient \/ (\E q \in Mailboxes : Renumber(q)) \/ UNCHANGED vars
  BY <1>3, <1>9 DEF RestartFails, ForeignClient, Renumber, batchVars, vars
<1> QED
  BY <1>2, <1>4, <1>5, <1>6, <1>7, <1>8, <1>9 DEF Next, Propose

(* A batch that has its verdict rests: neither its status nor its items'   *)
(* results change any more (store.ts:314, 252), and no command for it      *)
(* reaches the mail server - a restore is a batch of its own.              *)
THEOREM BatchesRest == Spec => [][\A b \in Batches : Rests(b)]_vars
<1>1. TypeOK /\ IInv /\ [Next]_vars => [\A b \in Batches : Rests(b)]_vars
  BY RestStep DEF Rests
<1> QED BY <1>1, MoveTypeCorrect, MoveInvariantCorrect, PTL DEF Spec

-----------------------------------------------------------------------------
(* The loop ends.                                                          *)

(* Steps that the execution in hand still has to take, at most.            *)
PhaseWork ==
  CASE phase = "connect" -> 4 [] phase = "fetch" -> 3 [] phase = "move" -> 2 [] OTHER -> 1

Work ==
  IF job = NoBatch THEN 0 ELSE 4 * (Len(items[job]) - Len(results)) + PhaseWork

LEMMA WorkType ==
  ASSUME TypeOK, IInv
  PROVE  /\ Work \in Nat
         /\ job # NoBatch =>
              /\ job \in Batches /\ PhaseWork \in 1..4 /\ Work > 0
              /\ Len(items[job]) \in Nat /\ Len(results) \in Nat
              /\ Len(results) <= Len(items[job])
<1>1. CASE job = NoBatch
  BY <1>1 DEF Work
<1>2. CASE job # NoBatch
  <2>1. job \in Batches /\ items[job] \in Seq(Item) /\ results \in Seq(Item)
    BY <1>2 DEF TypeOK
  <2>2. /\ Len(items[job]) \in Nat /\ Len(results) \in Nat
        /\ Len(results) <= Len(items[job])
    BY <1>2, <2>1, LenProperties DEF IInv, ResultsSoFar
  <2>3. PhaseWork \in 1..4
    BY DEF PhaseWork
  <2>4. \A n, r \in Nat, w \in 1..4 :
          r <= n => 4 * (n - r) + w \in Nat /\ 4 * (n - r) + w > 0
    OBVIOUS
  <2> QED BY <1>2, <2>1, <2>2, <2>3, <2>4 DEF Work
<1> QED BY <1>1, <1>2

LEMMA ReportWorks ==
  ASSUME TypeOK, IInv, job # NoBatch, NEW r, NEW u, Report(r, u),
         phase \in {"fetch", "move", "answer"}, phase' = "fetch", UNCHANGED <<items, job>>
  PROVE  Work' < Work
<1>1. /\ results \in Seq(Item) /\ results' = Append(results, [Current EXCEPT !.result = r, !.destUid = u])
  BY DEF TypeOK, Report
<1>2. Len(results') = Len(results) + 1
  BY <1>1
<1>3. PhaseWork \in 1..3 /\ PhaseWork' = 3
  BY DEF PhaseWork
<1>4. \A n, k \in Nat, w \in 1..3 : 4 * (n - (k + 1)) + 3 < 4 * (n - k) + w
  OBVIOUS
<1>5. Len(items[job]) \in Nat /\ Len(results) \in Nat
  BY WorkType
<1>6. /\ Work = 4 * (Len(items[job]) - Len(results)) + PhaseWork
      /\ Work' = 4 * (Len(items[job]) - (Len(results) + 1)) + 3
  BY <1>2, <1>3 DEF Work
<1> QED BY <1>3, <1>4, <1>5, <1>6

LEMMA PhaseWorks ==
  ASSUME TypeOK, IInv, job # NoBatch, UNCHANGED <<items, job, results>>,
         PhaseWork' < PhaseWork
  PROVE  Work' < Work
<1>1. PhaseWork \in Nat /\ PhaseWork' \in Nat
  BY DEF PhaseWork
<1>2. \A x \in Int, v, w \in Nat : v < w => 4 * x + v < 4 * x + w
  OBVIOUS
<1>3. Len(items[job]) - Len(results) \in Int
  BY WorkType
<1>4. /\ Work = 4 * (Len(items[job]) - Len(results)) + PhaseWork
      /\ Work' = 4 * (Len(items[job]) - Len(results)) + PhaseWork'
  BY DEF Work
<1> QED BY <1>1, <1>2, <1>3, <1>4

LEMMA ExecutionWorks ==
  ASSUME TypeOK, IInv, ExecuteMoveItems
  PROVE  Work' < Work
<1>1. job # NoBatch
  BY DEF IInv, OneJob, ExecuteMoveItems, Connect, ConnectFails, FetchItem, RejectItem,
    FetchFails, ServerMoves, MoveConfirmed, MoveUnconfirmed, MarkMoveOutcome
<1>2. CASE Connect \/ FetchItem \/ ServerMoves
  <2>1. UNCHANGED <<items, job, results>> /\ PhaseWork' < PhaseWork
    BY <1>2 DEF Connect, FetchItem, ServerMoves, batchVars, PhaseWork
  <2> QED BY <1>1, <2>1, PhaseWorks
<1>3. CASE RejectItem \/ FetchFails \/ MoveConfirmed \/ MoveUnconfirmed
  <2>1. \E r, u : Report(r, u)
    BY <1>3 DEF RejectItem, FetchFails, MoveConfirmed, MoveUnconfirmed
  <2>2. phase \in {"fetch", "move", "answer"} /\ phase' = "fetch" /\ UNCHANGED <<items, job>>
    BY <1>3 DEF RejectItem, FetchFails, MoveConfirmed, MoveUnconfirmed, batchVars
  <2> QED BY <1>1, <2>1, <2>2, ReportWorks
<1>4. CASE ConnectFails \/ MarkMoveOutcome
  <2>1. Work' = 0
    BY <1>4 DEF ConnectFails, MarkMoveOutcome, Leave, Work
  <2> QED BY <1>1, <2>1, WorkType
<1> QED BY <1>2, <1>3, <1>4 DEF ExecuteMoveItems

LEMMA OthersLeaveWork ==
  ASSUME TypeOK, IInv, [Next]_vars, ~ExecuteMoveItems, job' = job
  PROVE  Work' <= Work
<1>1. CASE job = NoBatch
  BY <1>1 DEF Work
<1>2. CASE job # NoBatch
  <2>1. job \in Batches /\ status[job] = "sending" /\ phase \notin {"idle", "down"}
    BY <1>2 DEF IInv, OneJob, TypeOK
  <2>2. items'[job] = items[job] /\ UNCHANGED <<phase, results>>
    <3>1. ASSUME NEW b \in Batches,
                 RequestMove(b) \/ RequestRestore(b) \/ PrepareItem(b) \/ PrepareFails(b) \/ Approve(b)
          PROVE  items'[job] = items[job] /\ UNCHANGED <<phase, results>>
      <4>1. b # job
        BY <2>1, <3>1 DEF RequestMove, RequestRestore, StartBatch, PrepareItem, PrepareFails,
          Approve
      <4> QED
        BY <2>1, <3>1, <4>1 DEF RequestMove, RequestRestore, StartBatch, PrepareItem,
          PrepareFails, Forget, Approve, TypeOK, loopVars
    <3>2. ASSUME NEW b \in Batches, Claim(b) PROVE FALSE
      BY <2>1, <3>2 DEF Claim
    <3>3. CASE Restart \/ RestartFails
      BY <1>2, <3>3 DEF Restart, RestartFails, Dies, Leave
    <3>4. CASE ForeignClient \/ (\E b \in Mailboxes : Renumber(b)) \/ UNCHANGED vars
      BY <3>4 DEF ForeignClient, Renumber, batchVars, loopVars, vars
    <3> QED BY <3>1, <3>2, <3>3, <3>4 DEF Next, Propose
  <2>3. Work' = Work
    BY <1>2, <2>2 DEF Work, PhaseWork
  <2> QED BY <2>3, WorkType
<1> QED BY <1>1, <1>2

(* An execution comes to an end: each of its steps leaves less to do, and  *)
(* nothing that proposals, other IMAP clients or the server do meanwhile   *)
(* adds to it (imap-move.ts:152, a loop over a list that nobody else       *)
(* holds).  So it takes finitely many steps, for batches of any length.    *)
THEOREM ExecutionComesToAnEnd ==
  Spec => /\ [](Work \in Nat)
          /\ [][/\ ExecuteMoveItems => Work' < Work
                /\ ~ExecuteMoveItems /\ job' = job => Work' <= Work]_vars
<1> DEFINE Bounded == Work \in Nat
           Fewer == /\ ExecuteMoveItems => Work' < Work
                    /\ ~ExecuteMoveItems /\ job' = job => Work' <= Work
<1>1. TypeOK /\ IInv => Bounded
  BY WorkType
<1>2. TypeOK /\ IInv /\ [Next]_vars => [Fewer]_vars
  BY ExecutionWorks, OthersLeaveWork
<1> HIDE DEF Bounded, Fewer
<1> QED BY <1>1, <1>2, MoveTypeCorrect, MoveInvariantCorrect, PTL DEF Spec, Bounded, Fewer

-----------------------------------------------------------------------------
(* What the two refuted properties lack.                                   *)

(* If the schema accepts the headers of every message, the Worker comes    *)
(* back from every restart (store.ts:95): unstorable headers are the only  *)
(* reason why it may not.                                                  *)
THEOREM ComesBackWithStorableHeaders ==
  ASSUME Messages \subseteq Storable
  PROVE  Spec => []WorkerComesBack
<1>1. Init => WorkerComesBack
  BY DEF Init, WorkerComesBack
<1>2. TypeOK => OutboxLoads
  <2> SUFFICES ASSUME TypeOK, NEW b \in Batches, NEW i \in DOMAIN items[b]
               PROVE  items[b][i].who \in Storable
    BY DEF OutboxLoads
  <2>1. items[b] \in Seq(Item)
    BY DEF TypeOK
  <2>2. items[b][i] \in Item
    BY <2>1, ElementOfSeq
  <2> QED BY <2>2 DEF Item
<1>3. TypeOK /\ WorkerComesBack /\ [Next]_vars => WorkerComesBack'
  <2> SUFFICES ASSUME TypeOK, phase # "down", [Next]_vars PROVE phase' # "down"
    BY DEF WorkerComesBack
  <2>1. CASE Propose \/ \E b \in Batches : Claim(b)
    BY <2>1 DEF Propose, RequestMove, RequestRestore, StartBatch, PrepareItem, PrepareFails,
      Approve, Claim, loopVars
  <2>2. CASE ExecuteMoveItems
    BY <2>2 DEF ExecuteMoveItems, Connect, ConnectFails, FetchItem, RejectItem, FetchFails,
      ServerMoves, MoveConfirmed, MoveUnconfirmed, MarkMoveOutcome, Leave
  <2>3. CASE Restart \/ RestartFails \/ ForeignClient \/ \E b \in Mailboxes : Renumber(b)
    BY <1>2, <2>3 DEF Restart, RestartFails, Dies, Leave, ForeignClient, Renumber, loopVars
  <2>4. CASE UNCHANGED vars
    BY <2>4 DEF vars, loopVars
  <2> QED BY <2>1, <2>2, <2>3, <2>4 DEF Next
<1> QED BY <1>1, <1>3, MoveTypeCorrect, PTL DEF Spec

(* Where the server never gives a mailbox a new UIDVALIDITY, a stored      *)
(* restore always returns the messages of its original (imap-move.ts:210). *)
THEOREM RestoresReturnWithoutRenumbering ==
  ASSUME MaxRenumbers = 0
  PROVE  Spec => []RestoreReturnsTheMessages
<1> DEFINE Never == renumbers = 0
<1>1. Init => Never
  BY DEF Init
<1>2. Never /\ [Next]_vars => Never'
  <2> SUFFICES ASSUME renumbers = 0, [Next]_vars PROVE renumbers' = 0
    OBVIOUS
  <2>1. CASE Propose \/ \E b \in Batches : Claim(b)
    BY <2>1 DEF Propose, RequestMove, RequestRestore, StartBatch, PrepareItem, PrepareFails,
      Approve, Claim, bounds
  <2>2. CASE ExecuteMoveItems
    BY <2>2 DEF ExecuteMoveItems, Connect, ConnectFails, FetchItem, RejectItem, FetchFails,
      ServerMoves, MoveConfirmed, MoveUnconfirmed, MarkMoveOutcome, bounds
  <2>3. CASE Restart \/ RestartFails \/ ForeignClient \/ \E b \in Mailboxes : Renumber(b)
    BY <2>3 DEF Restart, RestartFails, Dies, ForeignClient, Renumber
  <2>4. CASE UNCHANGED vars
    BY <2>4 DEF vars, bounds
  <2> QED BY <2>1, <2>2, <2>3, <2>4 DEF Next
<1>3. Never /\ RestoreIsExact => RestoreReturnsTheMessages
  BY DEF RestoreIsExact
<1> HIDE DEF Never
<1> QED BY <1>1, <1>2, <1>3, RestoreIsExactCorrect, PTL DEF Spec

-----------------------------------------------------------------------------
(* A batch keeps the promises of DeliveryContract.                         *)

Touched(b) == \E c \in carried : c.batch = b

BatchSteps(b) ==
  \/ Contract!Keep(b)  \/ Contract!Open(b) \/ Contract!Close(b)
  \/ Contract!Begin(b) \/ Contract!Hand(b) \/ Contract!Settle(b)

LEMMA ContractState ==
  ASSUME NEW b \in Batches
  PROVE  /\ Contract!Keep(b) <=>
              StageOf(b)' = StageOf(b) /\ (Touched(b)' <=> Touched(b))
         /\ Contract!Open(b) <=>
              StageOf(b) = "none" /\ StageOf(b)' = "open" /\ (Touched(b)' <=> Touched(b))
         /\ Contract!Begin(b) <=>
              /\ StageOf(b) \in {"none", "open"}
              /\ status[b] \in {"approved", "sending"} \cup Verdicts
              /\ StageOf(b)' = "begun"
              /\ Touched(b)' <=> Touched(b)
         /\ Contract!Hand(b) <=>
              StageOf(b) = "begun" /\ ~Touched(b) /\ Touched(b)' /\ StageOf(b)' = "begun"
         /\ Contract!Settle(b) <=>
              /\ StageOf(b) = "begun"
              /\ \/ StageOf(b)' = "sent" /\ Touched(b)
                 \/ StageOf(b)' = "failed" /\ ~Touched(b)
                 \/ StageOf(b)' \in {"incomplete", "uncertain"}
              /\ Touched(b)' <=> Touched(b)
BY DEF Contract!Keep, Contract!Open, Contract!Begin, Contract!Hand, Contract!Settle, Touched

(* What the status of a batch may become without a MOVE.                   *)
Advances(b) ==
  \/ status'[b] = status[b]
  \/ status[b] \in {"none", "preparing"} /\ status'[b] \in {"none", "preparing"}
  \/ status[b] = "preparing" /\ status'[b] = "pending_approval"
  \/ status[b] = "pending_approval" /\ status'[b] = "approved"
  \/ status[b] = "approved" /\ status'[b] = "sending"
  \/ status[b] = "sending" /\ status'[b] \in {"failed", "uncertain"}
  \/ status[b] = "sending" /\ status'[b] = "sent" /\ Touched(b)

Authorised(b) == status[b] \in {"approved", "sending"} \cup Verdicts

LEMMA StatusSteps ==
  ASSUME NEW b \in Batches, carried' = carried, Advances(b)
  PROVE  BatchSteps(b) /\ (Authorised(b) => Authorised(b)')
<1>1. Touched(b)' <=> Touched(b)
  BY DEF Touched
<1>2. BatchSteps(b)
  BY <1>1, ContractState DEF Advances, BatchSteps, StageOf, Verdicts
<1> QED BY <1>2 DEF Advances, Authorised, Verdicts

LEMMA ContractInit == Init => Contract!Init
BY DEF Init, Contract!Init, StageOf, Verdicts

LEMMA ProposeSteps ==
  ASSUME TypeOK, IInv, Propose \/ \E b \in Batches : Claim(b), NEW q \in Batches
  PROVE  BatchSteps(q) /\ (Authorised(q) => Authorised(q)')
<1>1. PICK b \in Batches :
        \/ RequestMove(b) \/ RequestRestore(b) \/ PrepareItem(b) \/ PrepareFails(b)
        \/ Approve(b) \/ Claim(b)
  BY DEF Propose
<1>2. CASE RequestMove(b) \/ RequestRestore(b)
  <2>1. /\ status[b] = "none" /\ status' = [status EXCEPT ![b] = "preparing"]
        /\ carried' = carried
    BY <1>2 DEF RequestMove, RequestRestore, StartBatch
  <2>2. status'[q] = status[q] \/ (status[q] = "none" /\ status'[q] = "preparing")
    BY <2>1 DEF TypeOK
  <2> QED BY <2>1, <2>2, StatusSteps DEF Advances
<1>3. CASE PrepareItem(b) \/ PrepareFails(b)
  <2>1. /\ status[b] = "preparing" /\ carried' = carried
        /\ \E s \in {"none", "preparing", "pending_approval"} :
             status' = [status EXCEPT ![b] = s]
    BY <1>3 DEF PrepareItem, PrepareFails, Forget
  <2>2. \/ status'[q] = status[q]
        \/ status[q] = "preparing" /\ status'[q] \in {"none", "preparing", "pending_approval"}
    BY <2>1 DEF TypeOK
  <2> QED BY <2>1, <2>2, StatusSteps DEF Advances
<1>4. CASE Approve(b)
  BY <1>4, StatusSteps DEF Advances, Approve, TypeOK
<1>5. CASE Claim(b)
  BY <1>5, StatusSteps DEF Advances, Claim, TypeOK
<1> QED BY <1>1, <1>2, <1>3, <1>4, <1>5

LEMMA OutcomeSteps ==
  ASSUME TypeOK, IInv, ConnectFails \/ MarkMoveOutcome, NEW q \in Batches
  PROVE  BatchSteps(q) /\ (Authorised(q) => Authorised(q)')
<1>1. phase \in {"connect", "fetch"} /\ carried' = carried
  BY DEF ConnectFails, MarkMoveOutcome
<1>2. job \in Batches /\ job # NoBatch /\ status[job] = "sending"
  BY <1>1 DEF IInv, OneJob, TypeOK
<1>3. CASE ConnectFails
  <2>1. status' = [status EXCEPT ![job] = "failed"]
    BY <1>3 DEF ConnectFails
  <2> QED BY <1>1, <1>2, <2>1, StatusSteps DEF Advances, TypeOK
<1>4. CASE MarkMoveOutcome
  <2>1. status' = [status EXCEPT ![job] = Verdict(results)] /\ ~MoreItems
    BY <1>4 DEF MarkMoveOutcome
  <2>2. /\ Verdict(results) \in {"sent", "failed", "uncertain"}
        /\ Verdict(results) = "sent" =>
             \A i \in DOMAIN results : results[i].result \notin {"uncertain", "failed"}
    BY DEF Verdict
  <2>3. /\ results \in Seq(Item) /\ items[job] \in Seq(Item) /\ items[job] # <<>>
        /\ Len(results) <= Len(items[job])
        /\ \A i \in DOMAIN results :
             results[i].result # "pending" /\ ResultIsTrue(job, i, results[i])
    BY <1>2 DEF TypeOK, IInv, BatchesKept, ResultsSoFar
  <2>4. 1 \in DOMAIN results /\ results[1] \in Item
    <3>1. Len(items[job]) \in Nat /\ Len(items[job]) # 0
      BY <2>3, EmptySeq, LenProperties
    <3>2. Len(results) \in Nat /\ DOMAIN results = 1..Len(results)
      BY <2>3, LenProperties
    <3>3. 1 \in 1..Len(results)
      BY <2>1, <3>1, <3>2 DEF MoreItems
    <3> QED BY <2>3, <3>2, <3>3, ElementOfSeq
  <2>5. ASSUME Verdict(results) = "sent" PROVE Touched(job)
    <3>1. results[1].result = "moved"
      BY <2>2, <2>3, <2>4, <2>5 DEF Item
    <3> QED BY <2>3, <2>4, <3>1 DEF ResultIsTrue, WasCarried, Touched
  <2>6. CASE q = job
    <3>1. status'[q] = Verdict(results) /\ status[q] = "sending"
      BY <1>2, <2>1, <2>6 DEF TypeOK
    <3>2. Verdict(results) = "sent" => Touched(q)
      BY <2>5, <2>6
    <3> QED BY <1>1, <2>2, <3>1, <3>2, StatusSteps DEF Advances
  <2>7. CASE q # job
    <3>1. status'[q] = status[q]
      BY <2>1, <2>7 DEF TypeOK
    <3> QED BY <1>1, <3>1, StatusSteps DEF Advances
  <2> QED BY <2>6, <2>7
<1> QED BY <1>3, <1>4

LEMMA ServerMovesSteps ==
  ASSUME TypeOK, IInv, ServerMoves, NEW q \in Batches
  PROVE  BatchSteps(q) /\ (Authorised(q) => Authorised(q)')
<1>1. status' = status /\ status[job] = "sending" /\ job \in Batches
  BY DEF ServerMoves, batchVars, IInv, OneJob, TypeOK
<1>2. PICK c : c.batch = job /\ carried' = carried \cup {c}
  BY DEF ServerMoves, CarryOut
<1>3. StageOf(q)' = StageOf(q) /\ (Authorised(q) => Authorised(q)')
  BY <1>1 DEF StageOf, Authorised
<1>4. CASE q = job
  <2>1. Touched(q)'
    BY <1>2, <1>4 DEF Touched
  <2>2. StageOf(q) = "begun"
    BY <1>1, <1>4 DEF StageOf
  <2> QED BY <1>3, <2>1, <2>2, ContractState DEF BatchSteps
<1>5. CASE q # job
  <2>1. Touched(q)' <=> Touched(q)
    BY <1>2, <1>5 DEF Touched
  <2> QED BY <1>3, <2>1, ContractState DEF BatchSteps
<1> QED BY <1>4, <1>5

LEMMA BatchStepsTaken ==
  ASSUME TypeOK, IInv, [Next]_vars, NEW q \in Batches
  PROVE  BatchSteps(q) /\ (Authorised(q) => Authorised(q)')
<1>1. CASE Propose \/ \E b \in Batches : Claim(b)
  BY <1>1, ProposeSteps
<1>2. CASE ConnectFails \/ MarkMoveOutcome
  BY <1>2, OutcomeSteps
<1>3. CASE ServerMoves
  BY <1>3, ServerMovesSteps
<1>4. CASE Restart
  <2>1. /\ carried' = carried
        /\ \/ status'[q] = status[q]
           \/ status[q] = "preparing" /\ status'[q] = "none"
           \/ status[q] = "sending" /\ status'[q] = "uncertain"
    BY <1>4 DEF Restart, Dies
  <2> QED BY <2>1, StatusSteps DEF Advances
<1>5. CASE status' = status /\ carried' = carried
  BY <1>5, StatusSteps DEF Advances
<1>6. CASE \/ Connect \/ FetchItem \/ RejectItem \/ FetchFails \/ MoveConfirmed
           \/ MoveUnconfirmed \/ RestartFails \/ ForeignClient
           \/ \E b \in Mailboxes : Renumber(b)
           \/ UNCHANGED vars
  BY <1>5, <1>6 DEF Connect, FetchItem, RejectItem, FetchFails, MoveConfirmed,
    MoveUnconfirmed, RestartFails, Dies, ForeignClient, Renumber, vars, batchVars
<1> QED BY <1>1, <1>2, <1>3, <1>4, <1>6 DEF Next, ExecuteMoveItems

(* A batch's execution (imap-move.ts:146, with store.ts:314) keeps the     *)
(* promises of DeliveryContract, of which Worker's treatment of moves is   *)
(* another implementation.                                                 *)
THEOREM MoveContractCorrect == Spec => ImplementsContract
<1>1. /\ Init => Contract!Init
      /\ Init => TypeOK /\ IInv
  BY ContractInit, TypeInit, InitInvariant
<1>2. TypeOK /\ IInv /\ [Next]_vars => TypeOK' /\ IInv'
  BY TypeStep, StepInvariant DEF IInv
<1>3. TypeOK /\ IInv /\ [Next]_vars => [Contract!Next]_Contract!vars
  <2> SUFFICES ASSUME TypeOK, IInv, [Next]_vars PROVE Contract!Next
    OBVIOUS
  <2>1. \A b \in Batches : BatchSteps(b) /\ (Authorised(b) => Authorised(b)')
    BY BatchStepsTaken
  <2>2. \A b \in Batches : Authorised(b) <=> status[b] \in {"approved", "sending"} \cup Verdicts
    BY DEF Authorised
  <2> QED BY <2>1, <2>2 DEF Contract!Next, BatchSteps, Authorised
<1> QED BY <1>1, <1>2, <1>3, PTL DEF Spec, ImplementsContract, Contract!Spec
===============================================================================
