---------------------------- MODULE MoveExecution ----------------------------
(***************************************************************************)
(* A batch of messages to move, item by item (src/worker/imap-move.ts):    *)
(* the snapshot taken before approval, the second look at each message,    *)
(* IMAP MOVE, the items' results and the verdict that sums them up, and    *)
(* the restore that reverses a batch - while other IMAP clients use the    *)
(* same mailboxes and the Worker may die at any point.  Approval and the   *)
(* outbox are reduced to a batch's status; Worker and ProposalStore model  *)
(* them.                                                                   *)
(***************************************************************************)
EXTENDS Naturals, Sequences

CONSTANTS
  Messages, Mailboxes,
  MessageId,      \* Message-ID of each message, or NoId
  Headers,        \* subject, from and date of each message
  Storable,       \* messages whose headers MoveItemSchema accepts
  Batches,        \* move proposals
  MoveRequests,   \* item lists callers ask for
  Sources, Destinations, MaxItems,   \* move policy of the Worker
  MaxUid,         \* a new or renumbered mailbox uses UIDs up to MaxUid
  MaxForeign, MaxRenumbers, MaxCrashes,   \* bounds
  NoId, NoMessage, NoMailbox, NoBatch

ASSUME MailAssumption ==
  /\ MaxUid \in Nat
  /\ NoMessage \notin Messages /\ NoMailbox \notin Mailboxes /\ NoBatch \notin Batches
  /\ DOMAIN MessageId = Messages /\ DOMAIN Headers = Messages
  /\ Storable \subseteq Messages

Request == [src : Mailboxes, uid : Nat \ {0}, dst : Mailboxes]

ASSUME PolicyAssumption ==
  /\ Sources \subseteq Mailboxes /\ Destinations \subseteq Mailboxes
  /\ MoveRequests \subseteq Seq(Request)

(* An item of a proposal: what was asked for, what the message looked like *)
(* when the item was prepared, and the result.  `who` is the message that  *)
(* was looked at (history).  No destination UID is 0.                      *)
Item == [src : Mailboxes, uid : Nat \ {0}, dst : Mailboxes,
         mid : {MessageId[m] : m \in Messages}, head : {Headers[m] : m \in Messages},
         who : Messages,
         result : {"pending", "moved", "failed", "uncertain"}, destUid : Nat]

VARIABLES
  box, uid,       \* where each message is (external)
  uidNext,        \* next UID of each mailbox (external)
  status,         \* status of each batch
  requests,       \* items still to be prepared
  items,          \* the items prepared, with the results once recorded
  restores,       \* the batch that this one reverses (history)
  phase, job,     \* where executeMoveItems is, and its batch
  results,        \* its array of results
  landed,         \* UID the server gave the message in hand, or 0
  carried,        \* MOVE commands the server carried out (history)
  foreign, renumbers, crashes   \* used up bounds

mailVars == <<box, uid, uidNext>>
batchVars == <<status, requests, items, restores>>
loopVars == <<phase, job, results, landed>>
bounds == <<foreign, renumbers, crashes>>
vars == <<mailVars, batchVars, loopVars, carried, bounds>>

Verdicts == {"sent", "failed", "uncertain"}
BatchStatus ==
  {"none", "preparing", "pending_approval", "approved", "sending"} \cup Verdicts

TypeOK ==
  /\ box \in [Messages -> Mailboxes \cup {NoMailbox}]
  /\ uid \in [Messages -> Nat]
  /\ uidNext \in [Mailboxes -> Nat]
  /\ status \in [Batches -> BatchStatus]
  /\ requests \in [Batches -> Seq(Request)]
  /\ items \in [Batches -> Seq(Item)]
  /\ restores \in [Batches -> Batches \cup {NoBatch}]
  /\ phase \in {"idle", "connect", "fetch", "move", "answer", "down"}
  /\ job \in Batches \cup {NoBatch}
  /\ results \in Seq(Item)
  /\ landed \in Nat
  /\ carried \subseteq [batch : Batches, index : Nat, msg : Messages \cup {NoMessage}, uid : Nat]
  /\ foreign \in Nat /\ renumbers \in Nat /\ crashes \in Nat

Found(b, u) == {m \in Messages : box[m] = b /\ uid[m] = u}

Init ==
  /\ box \in [Messages -> Mailboxes]
  /\ uid \in [Messages -> 1..MaxUid]
  /\ \A m, n \in Messages : box[m] = box[n] /\ uid[m] = uid[n] => m = n
  /\ uidNext = [b \in Mailboxes |-> MaxUid + 1]
  /\ status = [b \in Batches |-> "none"]
  /\ requests = [b \in Batches |-> <<>>]
  /\ items = [b \in Batches |-> <<>>]
  /\ restores = [b \in Batches |-> NoBatch]
  /\ phase = "idle" /\ job = NoBatch /\ results = <<>> /\ landed = 0
  /\ carried = {}
  /\ foreign = 0 /\ renumbers = 0 /\ crashes = 0

-----------------------------------------------------------------------------
(* The mailboxes: the IMAP server and its other clients.                   *)

(* Message m gets the next UID of mailbox b; UIDs only grow.               *)
Place(m, b) ==
  /\ box' = [box EXCEPT ![m] = b]
  /\ uid' = [uid EXCEPT ![m] = uidNext[b]]
  /\ uidNext' = [uidNext EXCEPT ![b] = @ + 1]

(* External: another client moves a message, or deletes it for good.       *)
ForeignClient ==
  /\ foreign < MaxForeign
  /\ foreign' = foreign + 1
  /\ \E m \in Messages :
       /\ box[m] # NoMailbox
       /\ \/ \E b \in Mailboxes \ {box[m]} : Place(m, b)
          \/ box' = [box EXCEPT ![m] = NoMailbox] /\ UNCHANGED <<uid, uidNext>>
  /\ UNCHANGED <<batchVars, loopVars, carried, renumbers, crashes>>

Selected(b) == phase \in {"move", "answer"} /\ items[job][Len(results) + 1].src = b

(* External: a mailbox gets a new UIDVALIDITY, its messages new UIDs; not  *)
(* while a session has it selected.  The Worker does not look at           *)
(* UIDVALIDITY.                                                            *)
Renumber(b) ==
  /\ renumbers < MaxRenumbers
  /\ ~Selected(b)
  /\ \E f \in [Messages -> 1..MaxUid] :
       /\ \A m, n \in Messages : box[m] = b /\ box[n] = b /\ f[m] = f[n] => m = n
       /\ uid' = [m \in Messages |-> IF box[m] = b THEN f[m] ELSE uid[m]]
  /\ uidNext' = [uidNext EXCEPT ![b] = MaxUid + 1]
  /\ renumbers' = renumbers + 1
  /\ UNCHANGED <<box, batchVars, loopVars, carried, foreign, crashes>>

-----------------------------------------------------------------------------
(* Proposing a batch.                                                      *)

ValidMove(list) ==
  /\ Len(list) \in 1..MaxItems
  /\ \A i \in DOMAIN list :
       /\ list[i].src \in Sources /\ list[i].dst \in Destinations
       /\ list[i].src # list[i].dst
  /\ \A i, j \in DOMAIN list :
       list[i].src = list[j].src /\ list[i].uid = list[j].uid => i = j

StartBatch(b, list, original) ==
  /\ status[b] = "none"
  /\ ValidMove(list)
  /\ status' = [status EXCEPT ![b] = "preparing"]
  /\ requests' = [requests EXCEPT ![b] = list]
  /\ restores' = [restores EXCEPT ![b] = original]
  /\ UNCHANGED <<mailVars, items, loopVars, carried, bounds>>

RequestMove(b) == \E list \in MoveRequests : StartBatch(b, list, NoBatch)

Moved(list) == {i \in DOMAIN list : list[i].result = "moved"}

(* Mutation: the UID that the message had in its source mailbox.           *)
ReverseToOldUid(item) == [src |-> item.dst, uid |-> item.uid, dst |-> item.src]

Reverse(item) == [src |-> item.dst, uid |-> item.destUid, dst |-> item.src]

(* Refused as a whole unless every moved item has a destination UID.       *)
Reversible(list) == \A i \in Moved(list) : list[i].destUid # 0

Lists(pick, indices) ==
  /\ {pick[i] : i \in DOMAIN pick} = indices
  /\ \A i, j \in DOMAIN pick : i < j => pick[i] < pick[j]

(* reverseMovedItems reverses the moved items in their order, of which     *)
(* there has to be one.  The route asks only that the original is a move.  *)
RequestRestore(b) ==
  \E o \in Batches :
    /\ status[o] \notin {"none", "preparing"}
    /\ Reversible(items[o])
    /\ \E n \in 1..Len(items[o]) : \E pick \in [1..n -> Moved(items[o])] :
         /\ Lists(pick, Moved(items[o]))
         /\ StartBatch(b, [i \in 1..n |-> Reverse(items[o][pick[i]])], o)

Snapshot(r, m) ==
  [src |-> r.src, uid |-> r.uid, dst |-> r.dst, mid |-> MessageId[m], head |-> Headers[m],
   who |-> m, result |-> "pending", destUid |-> 0]

(* One turn of prepareMoveItems' loop; after the last one createMove       *)
(* stores the proposal.                                                    *)
PrepareItem(b) ==
  /\ status[b] = "preparing"
  /\ \E m \in Found(Head(requests[b]).src, Head(requests[b]).uid) :
       items' = [items EXCEPT ![b] = Append(@, Snapshot(Head(requests[b]), m))]
  /\ requests' = [requests EXCEPT ![b] = Tail(@)]
  /\ status' = [status EXCEPT
       ![b] = IF Len(requests[b]) = 1 THEN "pending_approval" ELSE "preparing"]
  /\ UNCHANGED <<mailVars, restores, loopVars, carried, bounds>>

Forget(b) ==
  /\ status' = [status EXCEPT ![b] = "none"]
  /\ requests' = [requests EXCEPT ![b] = <<>>]
  /\ items' = [items EXCEPT ![b] = <<>>]
  /\ restores' = [restores EXCEPT ![b] = NoBatch]

(* A message or a mailbox is not there, or IMAP fails: nothing is stored.  *)
PrepareFails(b) ==
  /\ status[b] = "preparing"
  /\ Forget(b)
  /\ UNCHANGED <<mailVars, loopVars, carried, bounds>>

(* ProposalStore models when a batch may be approved.                      *)
Approve(b) ==
  /\ status[b] = "pending_approval"
  /\ status' = [status EXCEPT ![b] = "approved"]
  /\ UNCHANGED <<mailVars, requests, items, restores, loopVars, carried, bounds>>

-----------------------------------------------------------------------------
(* executeMoveItems, called by the scheduler.                              *)

Claim(b) ==
  /\ phase = "idle"
  /\ status[b] = "approved"
  /\ status' = [status EXCEPT ![b] = "sending"]
  /\ phase' = "connect" /\ job' = b
  /\ UNCHANGED <<mailVars, requests, items, restores, results, landed, carried, bounds>>

Leave(next) == phase' = next /\ job' = NoBatch /\ results' = <<>> /\ landed' = 0

(* connect and verifyMailboxes come before the first item; if they throw   *)
(* the scheduler marks the batch failed.                                   *)
Connect ==
  /\ phase = "connect"
  /\ phase' = "fetch"
  /\ UNCHANGED <<mailVars, batchVars, job, results, landed, carried, bounds>>

ConnectFails ==
  /\ phase = "connect"
  /\ status' = [status EXCEPT ![job] = "failed"]
  /\ Leave("idle")
  /\ UNCHANGED <<mailVars, requests, items, restores, carried, bounds>>

Current == items[job][Len(results) + 1]

MoreItems == Len(results) < Len(items[job])

Report(result, u) ==
  results' = Append(results, [Current EXCEPT !.result = result, !.destUid = u])

(* Mutation: without a Message-ID the headers are not compared.            *)
SameMessageId(item, m) == item.mid # NoId => MessageId[m] = item.mid

SameMessage(item, m) ==
  IF item.mid # NoId THEN MessageId[m] = item.mid ELSE Headers[m] = item.head

(* Locking the mailbox and fetching the message; the session then has the  *)
(* mailbox selected.                                                       *)
FetchItem ==
  /\ phase = "fetch" /\ MoreItems
  /\ \E m \in Found(Current.src, Current.uid) : SameMessage(Current, m)
  /\ phase' = "move"
  /\ UNCHANGED <<mailVars, batchVars, job, results, landed, carried, bounds>>

(* The message is gone or is another one.                                  *)
RejectItem ==
  /\ phase = "fetch" /\ MoreItems
  /\ ~\E m \in Found(Current.src, Current.uid) : SameMessage(Current, m)
  /\ Report("failed", 0)
  /\ UNCHANGED <<mailVars, batchVars, phase, job, landed, carried, bounds>>

(* The lock or the fetch throws.                                           *)
FetchFails ==
  /\ phase = "fetch" /\ MoreItems
  /\ Report("failed", 0)
  /\ UNCHANGED <<mailVars, batchVars, phase, job, landed, carried, bounds>>

CarryOut(m, u) ==
  carried' = carried \cup
    {[batch |-> job, index |-> Len(results) + 1, msg |-> m, uid |-> u]}

(* External: the server carries out MOVE; for a UID that has disappeared   *)
(* it does nothing, and that is no error.                                  *)
ServerMoves ==
  /\ phase = "move"
  /\ \/ \E m \in Found(Current.src, Current.uid) :
          /\ Place(m, Current.dst)
          /\ landed' = uid'[m]
          /\ CarryOut(m, uid'[m])
     \/ /\ Found(Current.src, Current.uid) = {}
        /\ landed' = 0
        /\ CarryOut(NoMessage, 0)
        /\ UNCHANGED mailVars
  /\ phase' = "answer"
  /\ UNCHANGED <<batchVars, job, results, bounds>>

(* The answer, with the new UID or (no UIDPLUS, nothing moved) without.    *)
MoveConfirmed ==
  /\ phase = "answer"
  /\ \E u \in {landed, 0} : Report("moved", u)
  /\ phase' = "fetch" /\ landed' = 0
  /\ UNCHANGED <<mailVars, batchVars, job, carried, bounds>>

(* Mutation: an unanswered MOVE counts as a failed one.                    *)
MoveUnconfirmedFails ==
  /\ phase \in {"move", "answer"}
  /\ Report("failed", 0)
  /\ phase' = "fetch" /\ landed' = 0
  /\ UNCHANGED <<mailVars, batchVars, job, carried, bounds>>

(* Mutation: an unanswered MOVE is tried again.                            *)
MoveUnconfirmedRetries ==
  /\ phase \in {"move", "answer"}
  /\ phase' = "fetch" /\ landed' = 0
  /\ UNCHANGED <<mailVars, batchVars, job, results, carried, bounds>>

(* The server refuses (false), or the call throws, before or after the     *)
(* server acted.                                                           *)
MoveUnconfirmed ==
  /\ phase \in {"move", "answer"}
  /\ Report("uncertain", 0)
  /\ phase' = "fetch" /\ landed' = 0
  /\ UNCHANGED <<mailVars, batchVars, job, carried, bounds>>

(* Mutations: uncertain items are overlooked; the items' word for the      *)
(* batch's status.                                                         *)
VerdictOfFailures(list) ==
  IF \E i \in DOMAIN list : list[i].result = "failed" THEN "failed" ELSE "sent"
VerdictMoved(list) == IF Moved(list) = DOMAIN list THEN "moved" ELSE "failed"

Verdict(list) ==
  LET Some(result) == \E i \in DOMAIN list : list[i].result = result
  IN  IF Some("uncertain") THEN "uncertain" ELSE IF Some("failed") THEN "failed" ELSE "sent"

(* markMoveOutcome; Worker models its failed writes.                       *)
MarkMoveOutcome ==
  /\ phase = "fetch" /\ ~MoreItems
  /\ items' = [items EXCEPT ![job] = results]
  /\ status' = [status EXCEPT ![job] = Verdict(results)]
  /\ Leave("idle")
  /\ UNCHANGED <<mailVars, requests, restores, carried, bounds>>

(* #load parses the whole file; what was written was not checked.          *)
OutboxLoads ==
  \A b \in Batches :
    status[b] \notin {"none", "preparing"} => \A i \in DOMAIN items[b] : items[b][i].who \in Storable

Dies(next) ==
  /\ phase # "down" /\ crashes < MaxCrashes
  /\ crashes' = crashes + 1
  /\ Leave(next)
  /\ UNCHANGED <<mailVars, carried, foreign, renumbers>>

(* The Worker dies and restarts: results and preparations are lost, a      *)
(* batch that was being executed becomes uncertain.                        *)
Restart ==
  /\ OutboxLoads
  /\ status' = [b \in Batches |->
       CASE status[b] = "preparing" -> "none"
         [] status[b] = "sending" -> "uncertain"
         [] OTHER -> status[b]]
  /\ requests' = [b \in Batches |-> <<>>]
  /\ items' = [b \in Batches |-> IF status[b] = "preparing" THEN <<>> ELSE items[b]]
  /\ restores' = [b \in Batches |-> IF status[b] = "preparing" THEN NoBatch ELSE restores[b]]
  /\ Dies("idle")

(* initialize throws, every time the container is started again.           *)
RestartFails == ~OutboxLoads /\ Dies("down") /\ UNCHANGED batchVars

-----------------------------------------------------------------------------
Propose ==
  /\ phase # "down"
  /\ \E b \in Batches :
       \/ RequestMove(b) \/ RequestRestore(b) \/ PrepareItem(b) \/ PrepareFails(b)
       \/ Approve(b)

ExecuteMoveItems ==
  \/ Connect \/ ConnectFails
  \/ FetchItem \/ RejectItem \/ FetchFails
  \/ ServerMoves \/ MoveConfirmed \/ MoveUnconfirmed
  \/ MarkMoveOutcome

Next ==
  \/ Propose
  \/ \E b \in Batches : Claim(b)
  \/ ExecuteMoveItems
  \/ Restart \/ RestartFails
  \/ ForeignClient
  \/ \E b \in Mailboxes : Renumber(b)

Spec == Init /\ [][Next]_vars

-----------------------------------------------------------------------------
(* Whatever other clients do, and even if mailboxes are renumbered: every  *)
(* message that was moved passes for the one the human was shown: the same *)
(* Message-ID or, without one, the same headers (imap-move.ts:57;          *)
(* SECURITY.md, "message identity revalidation before MOVE"), although     *)
(* MOVE is a command of its own after the check.                           *)
MovesOnlyApproved ==
  \A c \in carried :
    LET item == items[c.batch][c.index]
    IN  c.msg # NoMessage =>
          \/ item.mid # NoId /\ item.mid = MessageId[c.msg]
          \/ item.mid = NoId /\ item.head = Headers[c.msg]

WasCarried(b, i) == \E c \in carried : c.batch = b /\ c.index = i

(* A result reported for item i of batch b agrees with the mailboxes: a    *)
(* new UID is that of the message this item moved, a moved item's MOVE was *)
(* carried out, a failed item was not touched.                             *)
ResultIsTrue(b, i, item) ==
  /\ item.result = "moved" /\ item.destUid # 0 =>
       \E c \in carried :
         c.batch = b /\ c.index = i /\ c.msg # NoMessage /\ c.uid = item.destUid
  /\ item.result = "moved" => WasCarried(b, i)
  /\ item.result = "failed" => ~WasCarried(b, i)

(* What the outbox says is what the mailboxes saw, across crashes and lost *)
(* answers: results are true, a failed batch moved what it reports and     *)
(* nothing else, a sent batch reports every item moved, a batch that was   *)
(* not claimed moved nothing (imap-move.ts:144, store.ts:314).             *)
ResultsAreTrue ==
  \A b \in Batches : \A i \in DOMAIN items[b] :
    LET item == items[b][i]
    IN  /\ ResultIsTrue(b, i, item)
        /\ status[b] = "failed" /\ item.result # "moved" => ~WasCarried(b, i)
        /\ status[b] = "sent" => item.result = "moved"
        /\ status[b] \in {"preparing", "pending_approval", "approved"} => ~WasCarried(b, i)

(* No item is moved twice, whatever throws, is answered late or is cut off *)
(* by a restart: what is uncertain is not tried again (imap-move.ts:184;   *)
(* SECURITY.md, "Ambiguous outcomes").                                     *)
EachItemOnce ==
  \A c, d \in carried : c.batch = d.batch /\ c.index = d.index => c = d

(* A stored restore has one item for each moved item of the original, for  *)
(* the message that item moved, back to where it was: never a part of the  *)
(* batch, never another message (imap-move.ts:214; i18n.ts:116, "to return *)
(* messages moved by an earlier proposal to their original folder").       *)
RestoreReturnsTheMessages ==
  \A b \in Batches :
    restores[b] # NoBatch /\ status[b] # "preparing" =>
      LET original == items[restores[b]]
          moved == {i \in DOMAIN original : original[i].result = "moved"}
          Back(i, j) ==
            /\ items[b][j].dst = original[i].src
            /\ \E c \in carried :
                 c.batch = restores[b] /\ c.index = i /\ c.msg = items[b][j].who
      IN  /\ \A i \in moved : \E j \in DOMAIN items[b] : Back(i, j)
          /\ \A j \in DOMAIN items[b] : \E i \in moved : Back(i, j)

(* The same while the server keeps its UIDs valid.                         *)
RestoreIsExact == renumbers = 0 => RestoreReturnsTheMessages

(* Why the properties above hold, step by step: the inductive invariant.   *)
(* UIDs below uidNext keep a checked UID from being given to another       *)
(* message before MOVE; the results collected so far are true; the item in *)
(* hand is the one whose MOVE is out.                                      *)
UidsGrow ==
  /\ \A m \in Messages : box[m] \in Mailboxes => uid[m] < uidNext[box[m]]
  /\ \A m, n \in Messages :
       box[m] \in Mailboxes /\ box[m] = box[n] /\ uid[m] = uid[n] => m = n
  /\ renumbers = 0 => \A c \in carried :
       LET dst == items[c.batch][c.index].dst
       IN  c.msg # NoMessage =>
             c.uid < uidNext[dst] /\ \A m \in Found(dst, c.uid) : m = c.msg

OneJob ==
  /\ phase \in {"idle", "down"} <=> job = NoBatch
  /\ phase # "down" => \A b \in Batches : status[b] = "sending" <=> job = b

BatchesKept ==
  \A b \in Batches :
    /\ status[b] = "none" => items[b] = <<>>
    /\ status[b] = "preparing" => requests[b] # <<>>
    /\ status[b] \notin {"none", "preparing"} => items[b] # <<>> /\ requests[b] = <<>>
    /\ status[b] \notin Verdicts => \A i \in DOMAIN items[b] : items[b][i].result = "pending"

CarriedInOrder ==
  \A c \in carried :
    /\ c.index \in DOMAIN items[c.batch]
    /\ status[c.batch] \in {"sending"} \cup Verdicts
    /\ c.batch = job => c.index <= Len(results) + (IF phase = "answer" THEN 1 ELSE 0)

SameItem(i) ==
  results[i] = [items[job][i] EXCEPT !.result = results[i].result, !.destUid = results[i].destUid]

ResultsSoFar ==
  /\ job = NoBatch => results = <<>>
  /\ job # NoBatch =>
       /\ Len(results) <= Len(items[job])
       /\ phase = "connect" => results = <<>>
       /\ \A i \in DOMAIN results :
            results[i].result # "pending" /\ SameItem(i) /\ ResultIsTrue(job, i, results[i])

InHand ==
  phase \in {"move", "answer"} =>
    /\ MoreItems
    /\ phase = "move" =>
         /\ Current.uid < uidNext[Current.src]
         /\ \A m \in Found(Current.src, Current.uid) : SameMessage(Current, m)
    /\ phase = "answer" =>
         \E c \in carried :
           /\ c.batch = job /\ c.index = Len(results) + 1
           /\ c.uid = landed /\ (landed # 0 => c.msg # NoMessage)

(* Item or request j of a restore is item i of the original reversed.      *)
Planned(b, i, j) == requests[b][j] = Reverse(items[restores[b]][i])

Prepared(b, i, j) ==
  /\ items[b][j].dst = items[restores[b]][i].src
  /\ renumbers = 0 =>
       \E c \in carried : c.batch = restores[b] /\ c.index = i /\ c.msg = items[b][j].who

RestoresKept ==
  \A b \in Batches :
    restores[b] # NoBatch =>
      LET moved == Moved(items[restores[b]])
      IN  /\ status[restores[b]] \in Verdicts
          /\ status[b] # "none"
          /\ \A i \in moved : \/ \E j \in DOMAIN items[b] : Prepared(b, i, j)
                              \/ \E j \in DOMAIN requests[b] : Planned(b, i, j)
          /\ \A j \in DOMAIN items[b] : \E i \in moved : Prepared(b, i, j)
          /\ \A j \in DOMAIN requests[b] : \E i \in moved : Planned(b, i, j)

IInv ==
  /\ UidsGrow /\ OneJob /\ BatchesKept /\ CarriedInOrder /\ ResultsSoFar /\ InHand
  /\ RestoresKept /\ MovesOnlyApproved /\ ResultsAreTrue

(* README.md:14: the Worker is a service "that persists proposals and      *)
(* executes them".  One that dies comes back: the file that the store      *)
(* wrote passes the schema with which it is read.                          *)
WorkerComesBack == phase # "down"

(* A batch keeps the promises of DeliveryContract, with "handed" standing  *)
(* for the first MOVE the server carried out: the abstraction that Worker  *)
(* makes of a batch is a sound one.                                        *)
StageOf(b) ==
  CASE status[b] \in {"none", "preparing"} -> "none"
    [] status[b] \in {"pending_approval", "approved"} -> "open"
    [] status[b] = "sending" -> "begun"
    [] status[b] = "failed" -> "incomplete"
    [] OTHER -> status[b]

Contract == INSTANCE DeliveryContract WITH
  Ids <- Batches,
  stage <- [b \in Batches |-> StageOf(b)],
  authorised <- {b \in Batches : status[b] \in {"approved", "sending"} \cup Verdicts},
  handed <- [b \in Batches |-> IF \E c \in carried : c.batch = b THEN 1 ELSE 0]

ImplementsContract == Contract!Spec
=============================================================================
