---------------------------- MODULE ProposalStore ----------------------------
(***************************************************************************)
(* The Worker's proposal store, src/worker/store.ts: every proposal is one *)
(* entry of an array cached in memory (#entries) and mirrored in           *)
(* outbox.json, which each operation that changes something rewrites.      *)
(*                                                                         *)
(* #exclusive runs the operations one at a time in call order, so nobody   *)
(* observes the store between an operation's mutation of the array and the *)
(* end of its write: one operation is one action.  What stays visible is   *)
(* how the write ended (Persist).  A process that dies inside an operation *)
(* leaves either the old file, which is the operation not happening, or    *)
(* the new one, which is the operation followed by Crash.                  *)
(*                                                                         *)
(* Entries keep the fields that a guard or a property reads.  `attempts`   *)
(* is left out (it changes only where the status becomes "sending"), and   *)
(* `error` is reduced to `warned`, the Sent-copy warning of markSent.      *)
(***************************************************************************)
EXTENDS Integers, FiniteSets

CONSTANTS
  Ids,         \* the UUIDs that randomUUID may return
  Keys,        \* idempotency keys of moves
  Batches,     \* identities of a batch: its (source, uid, destination) list
  Drafts,      \* the creation requests that callers submit, see Draft
  Ttl,         \* approvalTtlMinutes, in ticks of the clock
  QueueLag,    \* bound: ticks that approve may wait in #tail after taking now
  MaxClock,    \* bound: the clock stops here
  CreateUntil, \* bound: no proposal is created later, so that all can expire
  MaxFaults,   \* bound: writes of outbox.json that fail
  MaxCrashes   \* bound: times the process dies

NoTime == -1

(* A request: `delay` is the lead time of scheduledFor, NoTime when null.  *)
Draft == [kind  : {"send", "move"},
          delay : Nat \cup {NoTime},
          key   : Keys,
          batch : Batches]

ASSUME KeysAssumption == Keys # {} /\ Batches # {}

ASSUME DraftsAssumption ==
  /\ Drafts \subseteq Draft
  /\ \A d \in Drafts : d.kind = "move" => d.delay = NoTime

ASSUME BoundsAssumption ==
  /\ Ttl \in Nat \ {0}
  /\ QueueLag \in Nat
  /\ MaxClock \in Nat
  /\ CreateUntil \in Nat
  /\ MaxFaults \in Nat
  /\ MaxCrashes \in Nat

VARIABLES
  clock,       \* the time of new Date(), assumed never to run backwards
  up,          \* the process is running and initialize has returned
  mem,         \* #entries, by id
  disk,        \* the entries in outbox.json, by id
  issued,      \* ids that randomUUID has returned
  authorised,  \* history: ids on which approve was accepted
  told,        \* history: the last status a caller was given, by id
  faults,      \* failed writes so far
  crashes      \* process deaths so far

storeVars ==
  <<clock, up, mem, disk, issued, authorised, told, faults, crashes>>

-----------------------------------------------------------------------------

Decided  == {"sent", "failed", "uncertain"}
Terminal == Decided \cup {"cancelled", "expired"}
Status   == {"pending_approval", "approved", "scheduled", "sending"} \cup Terminal

Time == Nat \cup {NoTime}

Entry == [status       : Status \cup {"absent"},
          kind         : {"send", "move"},
          createdAt    : Nat,
          scheduledFor : Time,
          approvedAt   : Time,
          key          : Keys,
          batch        : Batches,
          warned       : BOOLEAN]

Absent == [status       |-> "absent",
           kind         |-> "send",
           createdAt    |-> 0,
           scheduledFor |-> NoTime,
           approvedAt   |-> NoTime,
           key          |-> CHOOSE k \in Keys : TRUE,
           batch        |-> CHOOSE b \in Batches : TRUE,
           warned       |-> FALSE]

Nothing == [p \in Ids |-> Absent]

(* The entry that create and createMove push for request d.                *)
NewEntry(d) ==
  [status       |-> "pending_approval",
   kind         |-> d.kind,
   createdAt    |-> clock,
   scheduledFor |-> IF d.delay = NoTime THEN NoTime ELSE clock + d.delay,
   approvedAt   |-> NoTime,
   key          |-> d.key,
   batch        |-> d.batch,
   warned       |-> FALSE]

-----------------------------------------------------------------------------
(* #expire and #persist.                                                   *)

(* Mutation: the deadline itself still counts as inside the window.        *)
LapsedLate(e, now) ==
  e.status = "pending_approval" /\ e.createdAt + Ttl < now

Lapsed(e, now) ==
  e.status = "pending_approval" /\ e.createdAt + Ttl <= now

Expire(entries, now) ==
  [p \in Ids |-> IF Lapsed(entries[p], now)
                 THEN [entries[p] EXCEPT !.status = "expired"]
                 ELSE entries[p]]

(* How a write ends: it succeeds; it throws and leaves the old file; or    *)
(* chmod throws after rename has put the new file in place.                *)
Outcomes ==
  {"ok"} \cup (IF faults < MaxFaults THEN {"notWritten", "writtenNotAcked"} ELSE {})

(* Mutation: a throwing write makes the store drop the change from memory, *)
(* although rename may already have happened.                              *)
PersistOrRollBack(file, entries, o) ==
  /\ mem' = IF o = "ok" THEN entries ELSE mem
  /\ disk' = IF o = "notWritten" THEN file ELSE entries
  /\ faults' = IF o = "ok" THEN faults ELSE faults + 1

(* Array `entries` is mutated in place before it is written, so memory     *)
(* changes whatever the outcome; `file` is the file before this write.     *)
Persist(file, entries, o) ==
  /\ mem' = entries
  /\ disk' = IF o = "notWritten" THEN file ELSE entries
  /\ faults' = IF o = "ok" THEN faults ELSE faults + 1

(* if (await this.#expire(entries, now)) await this.#persist(entries)      *)
Refresh(now, o) ==
  IF Expire(mem, now) = mem
  THEN o = "ok" /\ UNCHANGED <<mem, disk, faults>>
  ELSE Persist(disk, Expire(mem, now), o)

(* outbox.json after a Refresh that succeeds.                              *)
Flushed(now) == IF Expire(mem, now) = mem THEN disk ELSE Expire(mem, now)

(* The caller of an operation that returns is given the entry's status.    *)
Answer(p, s, o) == told' = IF o = "ok" THEN [told EXCEPT ![p] = s] ELSE told

-----------------------------------------------------------------------------
(* Operations of the HTTP handlers.                                        *)

CreateWith(p, d, o) ==
  /\ clock <= CreateUntil
  /\ p \notin issued
  /\ Persist(disk, [Expire(mem, clock) EXCEPT ![p] = NewEntry(d)], o)
  /\ Answer(p, "pending_approval", o)
  /\ issued' = issued \cup {p}
  /\ UNCHANGED <<clock, up, authorised, crashes>>

Create(p, d, o) ==
  /\ up
  /\ d.kind = "send"
  /\ CreateWith(p, d, o)

(* Mutation: a settled proposal frees its key.                             *)
WithKeyLive(k) ==
  {q \in Ids : /\ mem[q].status \notin Terminal \cup {"absent"}
               /\ mem[q].kind = "move"
               /\ mem[q].key = k}

(* The proposals that a second createMove with key k finds.                *)
WithKey(k) ==
  {q \in Ids : mem[q].status # "absent" /\ mem[q].kind = "move" /\ mem[q].key = k}

CreateMove(p, d, o) ==
  /\ up
  /\ d.kind = "move"
  /\ WithKey(d.key) = {}
  /\ CreateWith(p, d, o)

(* The key is known: the same batch returns the existing proposal, another *)
(* batch throws; neither path writes what #expire changed.                 *)
RepeatMove(q, d) ==
  /\ up
  /\ d.kind = "move"
  /\ q \in WithKey(d.key)
  /\ mem' = Expire(mem, clock)
  /\ told' = IF mem[q].batch = d.batch
             THEN [told EXCEPT ![q] = mem'[q].status]
             ELSE told
  /\ UNCHANGED <<clock, up, disk, issued, authorised, faults, crashes>>

(* get of one proposal, undefined (404) when it is absent; list answers    *)
(* the same way for each one it returns.                                   *)
Get(p, o) ==
  /\ up
  /\ Refresh(clock, o)
  /\ Answer(p, mem'[p].status, o)
  /\ UNCHANGED <<clock, up, issued, authorised, crashes>>

(* approve and cancel refuse, after the refresh that precedes their guard  *)
(* or because that refresh could not be written.                           *)
Refuse(now, o, acceptable) ==
  /\ Refresh(now, o)
  /\ o # "ok" \/ ~acceptable
  /\ UNCHANGED <<clock, up, issued, authorised, told, crashes>>

Approvable(e) == e.status = "pending_approval"

(* `now` was taken when approve was called, up to QueueLag ticks ago.      *)
Approve(p, now, o) ==
  LET seen   == Expire(mem, now)
      status == IF mem[p].scheduledFor # NoTime THEN "scheduled" ELSE "approved"
  IN /\ up
     /\ mem[p].createdAt <= now
     /\ \/ Refuse(now, o, Approvable(seen[p]))
        \/ /\ Approvable(seen[p])
           /\ Persist(Flushed(now),
                      [seen EXCEPT ![p].status = status, ![p].approvedAt = now],
                      o)
           /\ Answer(p, status, o)
           /\ authorised' = authorised \cup {p}
           /\ UNCHANGED <<clock, up, issued, crashes>>

(* Mutation: a claimed proposal can be cancelled too.                      *)
CancellableLate(e) ==
  e.status \in {"pending_approval", "approved", "scheduled", "sending"}

Cancellable(e) == e.status \in {"pending_approval", "approved", "scheduled"}

(* Cancelling twice answers "cancelled" again and writes nothing new.      *)
Cancel(p, o) ==
  LET seen == Expire(mem, clock)
  IN /\ up
     /\ \/ Refuse(clock, o, Cancellable(seen[p]) \/ seen[p].status = "cancelled")
        \/ /\ seen[p].status = "cancelled"
           /\ Refresh(clock, "ok")
           /\ o = "ok"
           /\ Answer(p, "cancelled", o)
           /\ UNCHANGED <<clock, up, issued, authorised, crashes>>
        \/ /\ Cancellable(seen[p])
           /\ Persist(Flushed(clock), [seen EXCEPT ![p].status = "cancelled"], o)
           /\ Answer(p, "cancelled", o)
           /\ UNCHANGED <<clock, up, issued, authorised, crashes>>

-----------------------------------------------------------------------------
(* Operations of the scheduler.                                            *)

(* Mutation: a scheduled send goes out at its time, approved or not.       *)
DueUnapproved(e, now) ==
  \/ e.status = "approved"
  \/ e.status \in {"scheduled", "pending_approval"} /\ e.scheduledFor \in 0 .. now

Due(e, now) ==
  \/ e.status = "approved"
  \/ e.status = "scheduled" /\ e.scheduledFor <= now

(* The sort key: scheduledFor ?? approvedAt ?? createdAt.                  *)
Rank(e) == IF e.scheduledFor # NoTime THEN e.scheduledFor
           ELSE IF e.approvedAt # NoTime THEN e.approvedAt
           ELSE e.createdAt

(* The entries sort may put first; among equal ranks the array order, not  *)
(* modelled, would choose.                                                 *)
First(now) ==
  {p \in Ids : /\ Due(mem[p], now)
               /\ \A q \in Ids : Due(mem[q], now) => Rank(mem[p]) <= Rank(mem[q])}

(* Mutation: the claim is not written before the proposal is returned.     *)
ClaimUnwritten(p, now, o) ==
  /\ up
  /\ p \in First(now)
  /\ o = "ok"
  /\ mem' = [Expire(mem, now) EXCEPT ![p].status = "sending"]
  /\ UNCHANGED <<clock, up, disk, issued, authorised, told, faults, crashes>>

ClaimDue(p, now, o) ==
  /\ up
  /\ p \in First(now)
  /\ Persist(disk, [Expire(mem, now) EXCEPT ![p].status = "sending"], o)
  /\ UNCHANGED <<clock, up, issued, authorised, told, crashes>>

ClaimNone(now, o) ==
  /\ up
  /\ First(now) = {}
  /\ Refresh(now, o)
  /\ UNCHANGED <<clock, up, issued, authorised, told, crashes>>

(* Mutation: the marks do not look whether the work was already recorded.  *)
MarkableTwice(p) == mem[p].status \in {"sending"} \cup Decided

(* markSent, markMoveOutcome, markFailed and markUncertain all refuse an   *)
(* entry that is not "sending".                                            *)
Markable(p) == mem[p].status = "sending"

Mark(p, status, warned, o) ==
  /\ up
  /\ Markable(p)
  /\ Persist(disk, [mem EXCEPT ![p].status = status, ![p].warned = warned], o)
  /\ UNCHANGED <<clock, up, issued, authorised, told, crashes>>

(* Mutation: the Sent-copy warning is dropped.                             *)
MarkSentSilently(p, warned, o) == mem[p].kind = "send" /\ Mark(p, "sent", FALSE, o)

MarkSent(p, warned, o) == mem[p].kind = "send" /\ Mark(p, "sent", warned, o)

MarkMoveOutcome(p, status, o) ==
  mem[p].kind = "move" /\ status \in Decided /\ Mark(p, status, FALSE, o)

MarkFailed(p, o) == Mark(p, "failed", FALSE, o)

MarkUncertain(p, o) == Mark(p, "uncertain", FALSE, o)

-----------------------------------------------------------------------------
(* The process and the clock.                                              *)

Tick ==
  /\ clock < MaxClock
  /\ clock' = clock + 1
  /\ UNCHANGED <<up, mem, disk, issued, authorised, told, faults, crashes>>

Die ==
  /\ up
  /\ up' = FALSE
  /\ mem' = Nothing
  /\ UNCHANGED <<clock, disk, issued, authorised, told, faults>>

Crash ==
  /\ crashes < MaxCrashes
  /\ crashes' = crashes + 1
  /\ Die

(* Mutations: interrupted work is retried; is left as it was found; takes  *)
(* a status that ProposalStatusSchema does not know.                       *)
RecoveredByRetry(e) ==
  IF e.status = "sending" THEN [e EXCEPT !.status = "approved"] ELSE e
RecoveredAsFound(e) == e
RecoveredAsInterrupted(e) ==
  IF e.status = "sending" THEN [e EXCEPT !.status = "interrupted"] ELSE e

Recovered(e) ==
  IF e.status = "sending" THEN [e EXCEPT !.status = "uncertain"] ELSE e

(* initialize: load, expire, turn interrupted work uncertain, and write if *)
(* anything changed.  When it throws the process exits.                    *)
Restart(o) ==
  LET entries == [p \in Ids |-> Recovered(Expire(disk, clock)[p])]
  IN /\ ~up
     /\ IF entries = disk THEN o = "ok" ELSE TRUE
     /\ up' = (o = "ok")
     /\ mem' = IF o = "ok" THEN entries ELSE Nothing
     /\ disk' = IF o = "notWritten" THEN disk ELSE entries
     /\ faults' = IF o = "ok" THEN faults ELSE faults + 1
     /\ UNCHANGED <<clock, issued, authorised, told, crashes>>

StoreInit ==
  /\ clock = 0
  /\ up = TRUE
  /\ mem = Nothing
  /\ disk = Nothing
  /\ issued = {}
  /\ authorised = {}
  /\ told = [p \in Ids |-> "absent"]
  /\ faults = 0
  /\ crashes = 0

HandlerStep ==
  \E p \in Ids, o \in Outcomes :
    \/ \E d \in Drafts : Create(p, d, o) \/ CreateMove(p, d, o) \/ RepeatMove(p, d)
    \/ Get(p, o)
    \/ \E now \in (clock - QueueLag) .. clock : Approve(p, now, o)
    \/ Cancel(p, o)

(* The store alone promises its transitions to any caller, so here claims  *)
(* and marks come in any order; module Worker has the scheduler's order.   *)
ClaimStep ==
  \E o \in Outcomes, now \in (clock - QueueLag) .. clock :
    ClaimNone(now, o) \/ \E p \in Ids : ClaimDue(p, now, o)

MarkStep ==
  \E p \in Ids, o \in Outcomes :
    \/ \E warned \in BOOLEAN : MarkSent(p, warned, o)
    \/ \E status \in Decided : MarkMoveOutcome(p, status, o)
    \/ MarkFailed(p, o)
    \/ MarkUncertain(p, o)

StoreNext ==
  \/ HandlerStep
  \/ ClaimStep
  \/ MarkStep
  \/ Tick
  \/ Crash
  \/ \E o \in Outcomes : Restart(o)

StoreSpec == StoreInit /\ [][StoreNext]_storeVars

-----------------------------------------------------------------------------
(* Properties.                                                             *)

StoreTypeOK ==
  /\ clock \in 0 .. MaxClock
  /\ up \in BOOLEAN
  /\ mem \in [Ids -> Entry]
  /\ disk \in [Ids -> Entry]
  /\ issued \subseteq Ids
  /\ authorised \subseteq Ids
  /\ told \in [Ids -> Status \cup {"absent"}]
  /\ faults \in Nat
  /\ crashes \in Nat

(* The statuses that a proposal in status s may still take.                *)
Future(s) ==
  CASE s = "absent"                     -> Status
    [] s = "pending_approval"           -> Status \ {"pending_approval"}
    [] s \in {"approved", "scheduled"} -> {"sending", "cancelled"} \cup Decided
    [] s = "sending"                    -> Decided
    [] OTHER                            -> {}

Reaches(s, t) == t = s \/ t \in Future(s)

(* The state diagrams of docs/architecture.md: whatever its callers do and *)
(* in whatever order, one operation of a running store takes a proposal    *)
(* along one edge of the diagram.                                          *)
Edge(s, t) ==
  \/ s = t
  \/ s = "absent" /\ t = "pending_approval"
  \/ s = "pending_approval" /\ t \in {"approved", "scheduled", "cancelled", "expired"}
  \/ s \in {"approved", "scheduled"} /\ t \in {"sending", "cancelled"}
  \/ s = "sending" /\ t \in Decided

FollowsDiagram ==
  [][up /\ up' => \A p \in Ids : Edge(mem[p].status, mem'[p].status)]_storeVars

(* Memory runs ahead of outbox.json only along the diagram: a failed write *)
(* can lose progress, and never makes a restart contradict what the        *)
(* process already did.                                                    *)
DiskIsBehind ==
  up => \A p \in Ids : Reaches(disk[p].status, mem[p].status)

(* At most one move proposal per idempotency key exists, in memory and in  *)
(* the file, across restarts, lost writes and retries of createMove.       *)
OneProposalPerKey ==
  \A entries \in {mem, disk} : \A p, q \in Ids :
    /\ entries[p].status # "absent" /\ entries[p].kind = "move"
    /\ entries[q].status # "absent" /\ entries[q].kind = "move"
    /\ entries[p].key = entries[q].key
    => p = q

(* No proposal was approved once its approval window had closed, although  *)
(* nothing expires it until the next operation looks.                      *)
ApprovedInWindow ==
  \A entries \in {mem, disk} : \A p \in Ids :
    entries[p].approvedAt # NoTime
      => entries[p].approvedAt < entries[p].createdAt + Ttl

(* What a caller was told stays true: whatever crashes, a later answer     *)
(* about the same proposal is the same status or one it can lead to.       *)
AnswersLast ==
  [][\A p \in Ids : told[p] # "absent" => Reaches(told[p], told'[p])]_storeVars
=============================================================================
