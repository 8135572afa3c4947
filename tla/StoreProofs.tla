------------------------------ MODULE StoreProofs ------------------------------
(***************************************************************************)
(* Proofs about ProposalStore: what the operators #expire and #persist are *)
(* modelled by preserve, and type correctness of the store for any caller. *)
(***************************************************************************)
EXTENDS ProposalStore, TLAPS

(* The entry that stands for "no such proposal" is an entry.               *)
LEMMA AbsentType == Absent \in Entry /\ Nothing \in [Ids -> Entry]
<1>1. (CHOOSE k \in Keys : TRUE) \in Keys
  BY KeysAssumption
<1>2. (CHOOSE b \in Batches : TRUE) \in Batches
  BY KeysAssumption
<1>3. Absent \in Entry
  BY <1>1, <1>2 DEF Absent, Entry, Time, NoTime
<1> QED BY <1>3 DEF Nothing

(* Changing the status of an entry leaves an entry and every other field.  *)
LEMMA StatusUpdate ==
  ASSUME NEW e \in Entry, NEW s \in Status
  PROVE  LET f == [e EXCEPT !.status = s]
         IN  /\ f \in Entry
             /\ f.status = s
             /\ f.kind = e.kind
             /\ f.createdAt = e.createdAt
             /\ f.scheduledFor = e.scheduledFor
             /\ f.approvedAt = e.approvedAt
             /\ f.key = e.key
             /\ f.batch = e.batch
             /\ f.warned = e.warned
BY DEF Entry

(* #expire keeps entries, touches only pending ones, and only their status. *)
LEMMA ExpireType ==
  ASSUME NEW entries \in [Ids -> Entry], NEW now
  PROVE  /\ Expire(entries, now) \in [Ids -> Entry]
         /\ \A p \in Ids :
              \/ Expire(entries, now)[p] = entries[p]
              \/ /\ entries[p].status = "pending_approval"
                 /\ entries[p].createdAt + Ttl <= now
                 /\ Expire(entries, now)[p] = [entries[p] EXCEPT !.status = "expired"]
<1>1. "expired" \in Status
  BY DEF Status, Terminal
<1>2. ASSUME NEW p \in Ids
      PROVE  /\ Expire(entries, now)[p] \in Entry
             /\ \/ Expire(entries, now)[p] = entries[p]
                \/ /\ entries[p].status = "pending_approval"
                   /\ entries[p].createdAt + Ttl <= now
                   /\ Expire(entries, now)[p] = [entries[p] EXCEPT !.status = "expired"]
  <2>1. entries[p] \in Entry
    OBVIOUS
  <2>2. Expire(entries, now)[p] = IF Lapsed(entries[p], now)
                                  THEN [entries[p] EXCEPT !.status = "expired"]
                                  ELSE entries[p]
    BY DEF Expire
  <2>3. CASE Lapsed(entries[p], now)
    BY <2>1, <2>2, <2>3, <1>1, StatusUpdate DEF Lapsed
  <2>4. CASE ~Lapsed(entries[p], now)
    BY <2>1, <2>2, <2>4
  <2> QED BY <2>3, <2>4
<1>3. Expire(entries, now) = [p \in Ids |-> Expire(entries, now)[p]]
  BY DEF Expire
<1> QED BY <1>2, <1>3

(* Whatever way a write ends, memory and file hold entries.                *)
LEMMA PersistType ==
  ASSUME NEW file \in [Ids -> Entry], NEW entries \in [Ids -> Entry], NEW o,
         faults \in Nat, Persist(file, entries, o)
  PROVE  /\ mem' = entries
         /\ disk' \in {file, entries}
         /\ mem' \in [Ids -> Entry]
         /\ disk' \in [Ids -> Entry]
         /\ faults' \in Nat
BY DEF Persist

LEMMA RefreshType ==
  ASSUME StoreTypeOK, NEW now, NEW o, Refresh(now, o)
  PROVE  /\ mem' = Expire(mem, now)
         /\ disk' \in {disk, Expire(mem, now)}
         /\ mem' \in [Ids -> Entry]
         /\ disk' \in [Ids -> Entry]
         /\ faults' \in Nat
<1> USE DEF StoreTypeOK
<1>1. Expire(mem, now) \in [Ids -> Entry]
  BY ExpireType
<1>2. CASE Expire(mem, now) = mem
  BY <1>1, <1>2 DEF Refresh
<1>3. CASE Expire(mem, now) # mem
  <2>1. Persist(disk, Expire(mem, now), o)
    BY <1>3 DEF Refresh
  <2> QED BY <1>1, <2>1, PersistType
<1> QED BY <1>2, <1>3

LEMMA FlushedType ==
  ASSUME StoreTypeOK, NEW now
  PROVE  Flushed(now) \in [Ids -> Entry] /\ Flushed(now) \in {disk, Expire(mem, now)}
BY ExpireType DEF Flushed, StoreTypeOK

LEMMA NewEntryType ==
  ASSUME StoreTypeOK, NEW d \in Drafts
  PROVE  NewEntry(d) \in Entry
<1>1. d \in Draft
  BY DraftsAssumption
<1>2. clock \in Nat
  BY BoundsAssumption DEF StoreTypeOK
<1>3. (IF d.delay = NoTime THEN NoTime ELSE clock + d.delay) \in Time
  BY <1>1, <1>2 DEF Draft, Time, NoTime
<1>4. NoTime \in Time
  BY DEF Time
<1> QED BY <1>1, <1>2, <1>3, <1>4 DEF NewEntry, Entry, Draft, Status

-----------------------------------------------------------------------------
(* What handlers may do to one entry, e before and f after: create it,     *)
(* expire, approve or cancel it, or leave it alone.                        *)
SameRequest(e, f) ==
  /\ f.kind = e.kind
  /\ f.createdAt = e.createdAt
  /\ f.scheduledFor = e.scheduledFor
  /\ f.key = e.key
  /\ f.batch = e.batch
  /\ f.warned = e.warned

Created(e, f) ==
  e.status = "absent" /\ f.status = "pending_approval" /\ f.approvedAt = NoTime

Closed(e, f) ==
  /\ \/ e.status = "pending_approval" /\ f.status \in {"expired", "cancelled"}
     \/ e.status \in {"approved", "scheduled"} /\ f.status = "cancelled"
  /\ SameRequest(e, f)
  /\ f.approvedAt = e.approvedAt

Approved(e, f) ==
  /\ e.status = "pending_approval"
  /\ f.status = IF e.scheduledFor # NoTime THEN "scheduled" ELSE "approved"
  /\ SameRequest(e, f)
  /\ f.approvedAt < f.createdAt + Ttl

Handled(e, f) == f = e \/ Created(e, f) \/ Closed(e, f) \/ Approved(e, f)

(* p is the only new proposal, and a move's key was not known.             *)
NewHere(p) ==
  /\ \A q \in Ids : q # p => ~Created(mem[q], mem'[q])
  /\ mem'[p].kind = "move" => WithKey(mem'[p].key) = {}

(* The effect that all handlers, and a claim that finds nothing, share:    *)
(* memory and file change from what memory said, or stay.                  *)
HandlerEffect ==
  /\ up /\ up' = up /\ clock' = clock /\ crashes' = crashes
  /\ mem' \in [Ids -> Entry]
  /\ disk' \in [Ids -> Entry]
  /\ issued \subseteq issued' /\ issued' \subseteq Ids
  /\ authorised \subseteq authorised' /\ authorised' \subseteq Ids
  /\ told' \in [Ids -> Status \cup {"absent"}]
  /\ faults' \in Nat
  /\ \A p \in Ids :
       /\ Handled(mem[p], mem'[p])
       /\ Created(mem[p], mem'[p]) => p \in issued' /\ NewHere(p)
       /\ disk'[p] # disk[p] => Handled(mem[p], disk'[p])
       /\ disk'[p] # disk[p] => disk'[p] = mem'[p] \/ Closed(disk'[p], mem'[p])
                               \/ Approved(disk'[p], mem'[p])
       /\ mem'[p].status \in {"approved", "scheduled"}
            => mem'[p] = mem[p] \/ p \in authorised'
       /\ disk'[p].status \in {"approved", "scheduled"}
            => disk'[p] \in {disk[p], mem[p]} \/ p \in authorised'

LEMMA ExpireHandled ==
  ASSUME NEW entries \in [Ids -> Entry], NEW now, NEW p \in Ids
  PROVE  /\ Expire(entries, now)[p] = entries[p] \/ Closed(entries[p], Expire(entries, now)[p])
         /\ Expire(entries, now)[p].status # entries[p].status
              => Expire(entries, now)[p].status = "expired"
<1>1. "expired" \in Status
  BY DEF Status, Terminal
<1>2. CASE Expire(entries, now)[p] = entries[p]
  BY <1>2
<1>3. CASE /\ entries[p].status = "pending_approval"
           /\ Expire(entries, now)[p] = [entries[p] EXCEPT !.status = "expired"]
  BY <1>1, <1>3, StatusUpdate DEF Closed, SameRequest
<1> QED BY <1>2, <1>3, ExpireType

(* #expire before a read.                                                  *)
LEMMA RefreshHandled ==
  ASSUME StoreTypeOK, up, NEW now, NEW o, Refresh(now, o),
         UNCHANGED <<clock, up, issued, authorised, crashes>>,
         told' \in [Ids -> Status \cup {"absent"}]
  PROVE  HandlerEffect
<1> USE DEF StoreTypeOK
<1>1. /\ mem' = Expire(mem, now)
      /\ disk' \in {disk, mem'}
      /\ mem' \in [Ids -> Entry]
      /\ disk' \in [Ids -> Entry]
      /\ faults' \in Nat
  BY RefreshType
<1>2. ASSUME NEW p \in Ids
      PROVE  /\ mem'[p] = mem[p] \/ Closed(mem[p], mem'[p])
             /\ ~Created(mem[p], mem'[p])
             /\ mem'[p].status \in {"approved", "scheduled"} => mem'[p] = mem[p]
  BY <1>1, ExpireHandled DEF Closed, Created
<1> QED BY <1>1, <1>2 DEF HandlerEffect, Handled

LEMMA CreateHandled ==
  ASSUME StoreTypeOK, NEW p \in Ids, NEW d \in Drafts, NEW o, CreateWith(p, d, o),
         up, mem[p].status = "absent", d.kind = "move" => WithKey(d.key) = {}
  PROVE  HandlerEffect
<1> DEFINE next == [Expire(mem, clock) EXCEPT ![p] = NewEntry(d)]
<1>0. mem \in [Ids -> Entry] /\ disk \in [Ids -> Entry] /\ faults \in Nat
  BY DEF StoreTypeOK
<1>1. next \in [Ids -> Entry]
  BY <1>0, ExpireType, NewEntryType
<1>2. Persist(disk, next, o)
  BY DEF CreateWith
<1>3. /\ mem' = next
      /\ disk' \in {disk, next}
      /\ disk' \in [Ids -> Entry]
      /\ faults' \in Nat
  BY <1>0, <1>1, <1>2, PersistType
<1>4. /\ NewEntry(d).status = "pending_approval" /\ NewEntry(d).approvedAt = NoTime
      /\ NewEntry(d).kind = d.kind /\ NewEntry(d).key = d.key
  BY DEF NewEntry
<1>5. ASSUME NEW q \in Ids
      PROVE  /\ Handled(mem[q], next[q])
             /\ Created(mem[q], next[q]) => q = p
             /\ next[q].status \in {"approved", "scheduled"} => next[q] = mem[q]
  <2>1. CASE q = p
    BY <1>0, <1>4, <2>1, ExpireType DEF Handled, Created
  <2>2. CASE q # p
    <3>1. next[q] = Expire(mem, clock)[q]
      BY <1>0, <2>2, ExpireType
    <3> QED BY <1>0, <3>1, ExpireHandled DEF Handled, Closed, Created
  <2> QED BY <2>1, <2>2
<1>6. /\ up' = up /\ clock' = clock /\ crashes' = crashes /\ authorised' = authorised
      /\ issued' = issued \cup {p} /\ issued' \subseteq Ids /\ authorised \subseteq Ids
  BY DEF CreateWith, StoreTypeOK
<1>7. told' \in [Ids -> Status \cup {"absent"}]
  BY DEF CreateWith, Answer, StoreTypeOK, Status
<1>8. NewHere(p)
  <2>1. mem'[p] = NewEntry(d)
    BY <1>0, <1>3, ExpireType
  <2> QED BY <1>3, <1>4, <1>5, <2>1 DEF NewHere
<1> QED BY <1>1, <1>3, <1>5, <1>6, <1>7, <1>8 DEF HandlerEffect

LEMMA RepeatMoveHandled ==
  ASSUME StoreTypeOK, NEW q \in Ids, NEW d, RepeatMove(q, d)
  PROVE  HandlerEffect
<1>0. mem \in [Ids -> Entry]
  BY DEF StoreTypeOK
<1>1. mem' = Expire(mem, clock) /\ mem' \in [Ids -> Entry]
  BY <1>0, ExpireType DEF RepeatMove
<1>2. ASSUME NEW p \in Ids
      PROVE  /\ Handled(mem[p], mem'[p])
             /\ ~Created(mem[p], mem'[p])
             /\ mem'[p].status \in {"approved", "scheduled"} => mem'[p] = mem[p]
  BY <1>0, <1>1, ExpireHandled DEF Handled, Closed, Created
<1>3. mem'[q].status \in Status \cup {"absent"}
  BY <1>1 DEF Entry
<1> QED BY <1>1, <1>2, <1>3 DEF HandlerEffect, RepeatMove, StoreTypeOK

LEMMA GetHandled ==
  ASSUME StoreTypeOK, NEW p \in Ids, NEW o, Get(p, o)
  PROVE  HandlerEffect
<1>1. mem' \in [Ids -> Entry]
  BY RefreshType DEF Get
<1>2. told' \in [Ids -> Status \cup {"absent"}]
  BY <1>1 DEF Get, Answer, StoreTypeOK, Entry
<1> QED BY <1>2, RefreshHandled DEF Get, StoreTypeOK

LEMMA RefuseHandled ==
  ASSUME StoreTypeOK, up, NEW now, NEW o, NEW b, Refuse(now, o, b)
  PROVE  HandlerEffect
BY RefreshHandled DEF Refuse, StoreTypeOK

(* approve and cancel: the entry, untouched by #expire, is rewritten as e. *)
LEMMA RewriteHandled ==
  ASSUME StoreTypeOK, NEW p \in Ids, NEW now, NEW o, NEW e \in Entry, NEW s \in Status,
         up, Expire(mem, now)[p] = mem[p],
         Closed(mem[p], e) \/ (Approved(mem[p], e) /\ p \in authorised'),
         Persist(Flushed(now), [Expire(mem, now) EXCEPT ![p] = e], o),
         Answer(p, s, o),
         authorised \subseteq authorised', authorised' \subseteq Ids,
         UNCHANGED <<clock, up, issued, crashes>>
  PROVE  HandlerEffect
<1> DEFINE seen == Expire(mem, now)
           next == [seen EXCEPT ![p] = e]
<1>0. mem \in [Ids -> Entry] /\ disk \in [Ids -> Entry] /\ faults \in Nat
  BY DEF StoreTypeOK
<1>1. seen \in [Ids -> Entry] /\ next \in [Ids -> Entry]
  BY <1>0, ExpireType
<1>2. Flushed(now) \in [Ids -> Entry] /\ Flushed(now) \in {disk, seen}
  BY FlushedType
<1>3. /\ mem' = next
      /\ disk' \in {disk, seen, next}
      /\ disk' \in [Ids -> Entry]
      /\ faults' \in Nat
  BY <1>0, <1>1, <1>2, PersistType
<1>4. next[p] = e /\ seen[p] = mem[p] /\ \A q \in Ids : q # p => next[q] = seen[q]
  BY <1>1
<1>5. ASSUME NEW q \in Ids
      PROVE  seen[q] = mem[q] \/ (Closed(mem[q], seen[q]) /\ seen[q].status = "expired")
  BY <1>0, ExpireHandled DEF Closed
<1>6. ASSUME NEW q \in Ids
      PROVE  /\ Handled(mem[q], next[q])
             /\ Handled(mem[q], seen[q])
             /\ ~Created(mem[q], next[q])
             /\ seen[q] = next[q] \/ Closed(seen[q], next[q]) \/ Approved(seen[q], next[q])
             /\ next[q].status \in {"approved", "scheduled"}
                  => next[q] = mem[q] \/ q \in authorised'
             /\ seen[q].status \in {"approved", "scheduled"} => seen[q] = mem[q]
  <2>1. CASE q = p
    BY <1>4, <2>1 DEF Handled, Closed, Approved, Created
  <2>2. CASE q # p
    BY <1>4, <1>5, <2>2 DEF Handled, Closed, Created
  <2> QED BY <2>1, <2>2
<1>7. told' \in [Ids -> Status \cup {"absent"}]
  BY DEF Answer, StoreTypeOK
<1> QED BY <1>0, <1>1, <1>3, <1>6, <1>7 DEF HandlerEffect, StoreTypeOK

LEMMA ApproveHandled ==
  ASSUME StoreTypeOK, NEW p \in Ids, NEW now \in Int, NEW o, Approve(p, now, o)
  PROVE  HandlerEffect
<1> DEFINE seen   == Expire(mem, now)
           status == IF mem[p].scheduledFor # NoTime THEN "scheduled" ELSE "approved"
           e      == [mem[p] EXCEPT !.status = status, !.approvedAt = now]
<1>0. mem \in [Ids -> Entry] /\ mem[p] \in Entry
  BY DEF StoreTypeOK
<1>1. CASE Refuse(now, o, Approvable(seen[p]))
  BY <1>1, RefuseHandled DEF Approve
<1>2. CASE /\ Approvable(seen[p])
           /\ Persist(Flushed(now),
                      [seen EXCEPT ![p].status = status, ![p].approvedAt = now],
                      o)
           /\ Answer(p, status, o)
           /\ authorised' = authorised \cup {p}
           /\ UNCHANGED <<clock, up, issued, crashes>>
  <2>1. seen[p] = mem[p] /\ mem[p].status = "pending_approval"
    BY <1>0, <1>2, ExpireHandled DEF Approvable, Closed
  <2>2. ~Lapsed(mem[p], now)
    <3>1. SUFFICES ASSUME Lapsed(mem[p], now) PROVE FALSE
      OBVIOUS
    <3>2. seen[p] = [mem[p] EXCEPT !.status = "expired"]
      BY <3>1 DEF Expire
    <3>3. "expired" \in Status
      BY DEF Status, Terminal
    <3>4. seen[p].status = "expired"
      BY <1>0, <3>2, <3>3, StatusUpdate
    <3> QED BY <2>1, <3>4
  <2>3. now < mem[p].createdAt + Ttl /\ mem[p].createdAt <= now
    BY <1>0, <2>1, <2>2, BoundsAssumption DEF Lapsed, Approve, Entry
  <2>4. now \in Time /\ status \in Status
    BY <1>0, <2>3 DEF Time, Entry, Status
  <2>5. /\ e \in Entry
        /\ e.status = status
        /\ e.approvedAt = now
        /\ SameRequest(mem[p], e)
    BY <1>0, <2>4 DEF Entry, SameRequest
  <2>6. Approved(mem[p], e)
    BY <2>1, <2>3, <2>5 DEF Approved, SameRequest
  <2>7. [seen EXCEPT ![p].status = status, ![p].approvedAt = now] = [seen EXCEPT ![p] = e]
    BY <1>0, <2>1, ExpireType
  <2>8. authorised' \subseteq Ids
    BY <1>2 DEF StoreTypeOK
  <2> QED BY <1>2, <2>1, <2>4, <2>5, <2>6, <2>7, <2>8, RewriteHandled DEF Approve
<1> QED BY <1>1, <1>2 DEF Approve

LEMMA CancelHandled ==
  ASSUME StoreTypeOK, NEW p \in Ids, NEW o, Cancel(p, o)
  PROVE  HandlerEffect
<1> DEFINE seen == Expire(mem, clock)
           e    == [mem[p] EXCEPT !.status = "cancelled"]
<1>0. mem \in [Ids -> Entry] /\ mem[p] \in Entry /\ "cancelled" \in Status
  BY DEF StoreTypeOK, Status, Terminal
<1>1. CASE Refuse(clock, o, Cancellable(seen[p]) \/ seen[p].status = "cancelled")
  BY <1>1, RefuseHandled DEF Cancel
<1>2. CASE /\ Refresh(clock, "ok")
           /\ Answer(p, "cancelled", o)
           /\ UNCHANGED <<clock, up, issued, authorised, crashes>>
  <2>1. told' \in [Ids -> Status \cup {"absent"}]
    BY <1>0, <1>2 DEF Answer, StoreTypeOK
  <2> QED BY <1>2, <2>1, RefreshHandled DEF StoreTypeOK, Cancel
<1>3. CASE /\ Cancellable(seen[p])
           /\ Persist(Flushed(clock), [seen EXCEPT ![p].status = "cancelled"], o)
           /\ Answer(p, "cancelled", o)
           /\ UNCHANGED <<clock, up, issued, authorised, crashes>>
  <2>1. seen[p] = mem[p]
    BY <1>0, <1>3, ExpireHandled DEF Cancellable, Closed
  <2>2. /\ e \in Entry
        /\ Closed(mem[p], e)
    BY <1>0, <1>3, <2>1, StatusUpdate DEF Cancellable, Closed, SameRequest
  <2>3. [seen EXCEPT ![p].status = "cancelled"] = [seen EXCEPT ![p] = e]
    BY <1>0, <2>1, ExpireType
  <2> QED BY <1>0, <1>3, <2>1, <2>2, <2>3, RewriteHandled DEF StoreTypeOK, Cancel
<1> QED BY <1>1, <1>2, <1>3 DEF Cancel

LEMMA ClaimNoneHandled ==
  ASSUME StoreTypeOK, NEW now, NEW o, ClaimNone(now, o)
  PROVE  HandlerEffect
BY RefreshHandled DEF ClaimNone, StoreTypeOK

-----------------------------------------------------------------------------
(* The scheduler's operations and the process.                             *)

(* claimDue takes one due proposal and otherwise only expires.             *)
LEMMA ClaimDueEffect ==
  ASSUME StoreTypeOK, NEW p \in Ids, NEW now, NEW o, ClaimDue(p, now, o)
  PROVE  /\ mem' \in [Ids -> Entry]
         /\ disk' \in [Ids -> Entry]
         /\ disk' \in {disk, mem'}
         /\ o = "ok" => disk' = mem'
         /\ faults' \in Nat
         /\ Due(mem[p], now)
         /\ mem'[p] = [mem[p] EXCEPT !.status = "sending"]
         /\ \A q \in Ids : q # p => mem'[q] = mem[q] \/ Closed(mem[q], mem'[q])
<1> DEFINE seen == Expire(mem, now)
           next == [seen EXCEPT ![p].status = "sending"]
<1>0. /\ mem \in [Ids -> Entry] /\ disk \in [Ids -> Entry] /\ faults \in Nat
      /\ "sending" \in Status
  BY DEF StoreTypeOK, Status
<1>1. seen \in [Ids -> Entry]
  BY <1>0, ExpireType
<1>2. next \in [Ids -> Entry]
  BY <1>0, <1>1, StatusUpdate
<1>3. Due(mem[p], now)
  BY DEF ClaimDue, First
<1>4. seen[p] = mem[p]
  BY <1>0, <1>3, ExpireType DEF Due
<1>5. Persist(disk, next, o)
  BY DEF ClaimDue
<1>6. ASSUME NEW q \in Ids, q # p
      PROVE  next[q] = mem[q] \/ Closed(mem[q], next[q])
  BY <1>0, <1>1, <1>6, ExpireHandled
<1>7. o = "ok" => disk' = mem'
  BY <1>5 DEF Persist
<1> QED BY <1>0, <1>1, <1>2, <1>3, <1>4, <1>5, <1>6, <1>7, PersistType

(* The marks change the status and warning of one "sending" proposal.      *)
Marked(p, s, w, o) ==
  /\ mem' \in [Ids -> Entry]
  /\ disk' \in [Ids -> Entry]
  /\ disk' \in {disk, mem'}
  /\ o = "ok" => disk' = mem'
  /\ faults' \in Nat
  /\ mem[p].status = "sending"
  /\ mem'[p] = [mem[p] EXCEPT !.status = s, !.warned = w]
  /\ \A q \in Ids : q # p => mem'[q] = mem[q]

LEMMA MarkEffect ==
  ASSUME StoreTypeOK, NEW p \in Ids, NEW s \in Decided, NEW w \in BOOLEAN, NEW o,
         Mark(p, s, w, o)
  PROVE  Marked(p, s, w, o)
<1> DEFINE next == [mem EXCEPT ![p].status = s, ![p].warned = w]
<1>0. mem \in [Ids -> Entry] /\ disk \in [Ids -> Entry] /\ faults \in Nat
  BY DEF StoreTypeOK
<1>1. [mem[p] EXCEPT !.status = s, !.warned = w] \in Entry
  BY <1>0 DEF Entry, Status, Terminal
<1>2. /\ next = [mem EXCEPT ![p] = [mem[p] EXCEPT !.status = s, !.warned = w]]
      /\ next \in [Ids -> Entry]
  BY <1>0, <1>1
<1>3. Persist(disk, next, o)
  BY DEF Mark
<1>4. o = "ok" => disk' = mem'
  BY <1>3 DEF Persist
<1> QED BY <1>0, <1>2, <1>3, <1>4, PersistType DEF Mark, Markable, Marked

(* What initialize may make of one entry of the file.                      *)
Reloaded(e, f) ==
  \/ f = e
  \/ Closed(e, f)
  \/ e.status = "sending" /\ f = [e EXCEPT !.status = "uncertain"]

LEMMA RestartEffect ==
  ASSUME StoreTypeOK, NEW o, Restart(o)
  PROVE  /\ mem' \in [Ids -> Entry]
         /\ disk' \in [Ids -> Entry]
         /\ faults' \in Nat
         /\ up' \in BOOLEAN
         /\ up' => mem' = disk'
         /\ ~up' => mem' = Nothing
         /\ \A q \in Ids : Reloaded(disk[q], disk'[q])
<1> DEFINE entries == [p \in Ids |-> Recovered(Expire(disk, clock)[p])]
<1>0. disk \in [Ids -> Entry] /\ faults \in Nat /\ "uncertain" \in Status
  BY DEF StoreTypeOK, Status, Terminal, Decided
<1>1. Expire(disk, clock) \in [Ids -> Entry]
  BY <1>0, ExpireType
<1>2. ASSUME NEW q \in Ids
      PROVE  entries[q] \in Entry /\ Reloaded(disk[q], entries[q])
  <2>1. entries[q] = Recovered(Expire(disk, clock)[q])
    OBVIOUS
  <2>2. \/ Expire(disk, clock)[q] = disk[q]
        \/ /\ Closed(disk[q], Expire(disk, clock)[q])
           /\ Expire(disk, clock)[q].status # "sending"
    BY <1>0, ExpireHandled DEF Closed
  <2> QED BY <1>0, <1>1, <2>1, <2>2, StatusUpdate DEF Recovered, Reloaded
<1>3. entries \in [Ids -> Entry]
  BY <1>2
<1>4. disk' \in {disk, entries} /\ faults' \in Nat /\ up' \in BOOLEAN
  BY <1>0 DEF Restart
<1>5. up' => mem' = entries /\ disk' = entries
  BY DEF Restart
<1>6. ~up' => mem' = Nothing
  BY DEF Restart
<1> QED BY <1>0, <1>2, <1>3, <1>4, <1>5, <1>6, AbsentType DEF Reloaded

-----------------------------------------------------------------------------
(* The store's inductive invariant.  Fresh makes an id that randomUUID has *)
(* not returned unknown everywhere; Timely is ApprovedInWindow per entry.  *)
Fresh ==
  \A p \in Ids : p \notin issued => mem[p].status = "absent" /\ disk[p].status = "absent"

Timely(e) == e.approvedAt # NoTime => e.approvedAt < e.createdAt + Ttl

StoreInv ==
  /\ StoreTypeOK
  /\ Fresh
  /\ DiskIsBehind
  /\ \A p \in Ids : Timely(mem[p]) /\ Timely(disk[p])

LEMMA HandlerStepEffect ==
  ASSUME StoreTypeOK, Fresh, HandlerStep
  PROVE  HandlerEffect
<1>1. PICK p \in Ids, o \in Outcomes :
        \/ \E d \in Drafts : Create(p, d, o) \/ CreateMove(p, d, o) \/ RepeatMove(p, d)
        \/ Get(p, o)
        \/ \E now \in (clock - QueueLag) .. clock : Approve(p, now, o)
        \/ Cancel(p, o)
  BY DEF HandlerStep
<1>2. CASE \E d \in Drafts : Create(p, d, o) \/ CreateMove(p, d, o) \/ RepeatMove(p, d)
  <2>1. PICK d \in Drafts : Create(p, d, o) \/ CreateMove(p, d, o) \/ RepeatMove(p, d)
    BY <1>2
  <2>2. CASE up /\ CreateWith(p, d, o) /\ (d.kind = "move" => WithKey(d.key) = {})
    <3>1. mem[p].status = "absent"
      BY <2>2 DEF CreateWith, Fresh
    <3> QED BY <2>2, <3>1, CreateHandled
  <2>3. CASE RepeatMove(p, d)
    BY <2>3, RepeatMoveHandled
  <2> QED BY <2>1, <2>2, <2>3 DEF Create, CreateMove
<1>3. CASE Get(p, o)
  BY <1>3, GetHandled
<1>4. CASE \E now \in (clock - QueueLag) .. clock : Approve(p, now, o)
  BY <1>4, ApproveHandled
<1>5. CASE Cancel(p, o)
  BY <1>5, CancelHandled
<1> QED BY <1>1, <1>2, <1>3, <1>4, <1>5

(* Progress of a status composes with one more edge of the diagram.        *)
LEMMA ReachesEdge ==
  ASSUME NEW s, NEW t, NEW u, u \in Status \cup {"absent"},
         t \in Status \cup {"absent"}, s \in Status \cup {"absent"},
         Reaches(s, t), Edge(t, u)
  PROVE  Reaches(s, u)
BY DEF Reaches, Future, Edge, Status, Terminal, Decided

LEMMA HandledEdge ==
  ASSUME NEW e \in Entry, NEW f \in Entry, Handled(e, f)
  PROVE  Edge(e.status, f.status) /\ (Timely(e) => Timely(f))
BY DEF Handled, Created, Closed, Approved, SameRequest, Edge, Timely

LEMMA EdgeReaches ==
  ASSUME NEW s \in Status \cup {"absent"}, NEW t \in Status \cup {"absent"}, Edge(s, t)
  PROVE  Reaches(s, t)
BY DEF Reaches, Future, Edge, Status, Terminal, Decided

LEMMA EntryStatus == \A e \in Entry : e.status \in Status \cup {"absent"}
BY DEF Entry

LEMMA StoreInitInv == StoreInit => StoreInv
<1> SUFFICES ASSUME StoreInit PROVE StoreInv
  OBVIOUS
<1>1. StoreTypeOK
  BY AbsentType, BoundsAssumption DEF StoreInit, StoreTypeOK
<1>2. \A p \in Ids : /\ mem[p] = Absent /\ disk[p] = Absent
                     /\ Absent.status = "absent" /\ Absent.approvedAt = NoTime
  BY DEF StoreInit, Nothing, Absent
<1> QED BY <1>1, <1>2 DEF StoreInv, Fresh, DiskIsBehind, Reaches, Timely

LEMMA HandlerInv ==
  ASSUME StoreInv, HandlerEffect
  PROVE  StoreInv'
<1>1. StoreTypeOK'
  BY DEF StoreInv, StoreTypeOK, HandlerEffect
<1> USE DEF StoreInv
<1>2. ASSUME NEW p \in Ids
      PROVE  /\ mem[p] \in Entry /\ disk[p] \in Entry /\ mem'[p] \in Entry /\ disk'[p] \in Entry
             /\ Handled(mem[p], mem'[p])
             /\ disk'[p] # disk[p] => Handled(mem[p], disk'[p])
             /\ disk'[p] # disk[p] => Handled(disk'[p], mem'[p])
  BY DEF HandlerEffect, StoreTypeOK, Handled
<1>3. Fresh'
  <2>1. SUFFICES ASSUME NEW p \in Ids, p \notin issued'
                 PROVE  mem'[p].status = "absent" /\ disk'[p].status = "absent"
    BY DEF Fresh
  <2>2. mem[p].status = "absent" /\ disk[p].status = "absent" /\ ~Created(mem[p], mem'[p])
    BY <2>1 DEF Fresh, HandlerEffect
  <2>3. mem'[p] = mem[p]
    BY <1>2, <2>2 DEF Handled, Closed, Approved
  <2>4. disk'[p] # disk[p] => disk'[p].status = "absent"
    BY <1>2, <2>2, <2>3 DEF Handled, Created, Closed, Approved
  <2> QED BY <2>2, <2>3, <2>4
<1>4. \A p \in Ids : Timely(mem'[p]) /\ Timely(disk'[p])
  BY <1>2, HandledEdge
<1>5. ASSUME up, NEW p \in Ids PROVE Reaches(disk'[p].status, mem'[p].status)
  <2>1. CASE disk'[p] = disk[p]
    BY <1>2, <1>5, <2>1, HandledEdge, ReachesEdge, EntryStatus DEF DiskIsBehind
  <2>2. CASE disk'[p] # disk[p]
    BY <1>2, <2>2, HandledEdge, EdgeReaches, EntryStatus
  <2> QED BY <2>1, <2>2
<1>6. (\A p \in Ids : Timely(mem[p]) /\ Timely(disk[p]))'
  BY <1>4 DEF Timely
<1> QED BY <1>1, <1>3, <1>5, <1>6 DEF DiskIsBehind, HandlerEffect

(* A step of the running store that moves each entry along one edge and    *)
(* writes nothing else, as claims and marks do.                            *)
LEMMA EdgeStepInv ==
  ASSUME StoreInv,
         up,
         UNCHANGED <<clock, up, issued, authorised, told, crashes>>,
         mem' \in [Ids -> Entry], disk' \in [Ids -> Entry], faults' \in Nat,
         \A p \in Ids : /\ Edge(mem[p].status, mem'[p].status)
                        /\ mem[p].status = "absent" => mem'[p] = mem[p]
                        /\ Timely(mem[p]) => Timely(mem'[p])
                        /\ disk'[p] \in {disk[p], mem'[p]}
  PROVE  StoreInv'
<1> USE DEF StoreInv
<1>1. StoreTypeOK'
  BY DEF StoreTypeOK
<1>2. ASSUME NEW p \in Ids
      PROVE  /\ mem[p] \in Entry /\ disk[p] \in Entry /\ mem'[p] \in Entry /\ disk'[p] \in Entry
             /\ Reaches(disk[p].status, mem[p].status)
  BY DEF StoreTypeOK, DiskIsBehind
<1>3. \A p \in Ids : Reaches(disk'[p].status, mem'[p].status)
  BY <1>2, ReachesEdge, EntryStatus DEF Reaches
<1>4. Fresh'
  BY DEF Fresh
<1>5. (\A p \in Ids : Timely(mem[p]) /\ Timely(disk[p]))'
  BY DEF Timely
<1> QED BY <1>1, <1>3, <1>4, <1>5 DEF DiskIsBehind

LEMMA ClaimDueInv ==
  ASSUME StoreInv, NEW p \in Ids, NEW now, NEW o, ClaimDue(p, now, o)
  PROVE  StoreInv'
<1>1. StoreTypeOK
  BY DEF StoreInv
<1>2. /\ up
      /\ UNCHANGED <<clock, up, issued, authorised, told, crashes>>
  BY DEF ClaimDue
<1>3. ASSUME NEW q \in Ids
      PROVE  /\ Edge(mem[q].status, mem'[q].status)
             /\ mem[q].status = "absent" => mem'[q] = mem[q]
             /\ Timely(mem[q]) => Timely(mem'[q])
             /\ disk'[q] \in {disk[q], mem'[q]}
  <2>1. mem[q] \in Entry
    BY <1>1 DEF StoreTypeOK
  <2>2. disk'[q] \in {disk[q], mem'[q]}
    BY <1>1, ClaimDueEffect
  <2>3. CASE q = p
    <3>1. /\ mem'[q] = [mem[q] EXCEPT !.status = "sending"]
          /\ mem[q].status \in {"approved", "scheduled"}
      BY <1>1, <2>3, ClaimDueEffect DEF Due
    <3>2. "sending" \in Status
      BY DEF Status
    <3> QED BY <2>1, <2>2, <3>1, <3>2, StatusUpdate DEF Edge, Timely
  <2>4. CASE q # p
    <3>1. mem'[q] = mem[q] \/ Closed(mem[q], mem'[q])
      BY <1>1, <2>4, ClaimDueEffect
    <3> QED BY <2>2, <3>1 DEF Closed, SameRequest, Edge, Timely
  <2> QED BY <2>3, <2>4
<1> QED BY <1>1, <1>2, <1>3, ClaimDueEffect, EdgeStepInv

LEMMA MarkInv ==
  ASSUME StoreInv, NEW p \in Ids, NEW s \in Decided, NEW w \in BOOLEAN, NEW o,
         Mark(p, s, w, o)
  PROVE  StoreInv'
<1>1. StoreTypeOK
  BY DEF StoreInv
<1>2. /\ up
      /\ UNCHANGED <<clock, up, issued, authorised, told, crashes>>
  BY DEF Mark
<1>3. Marked(p, s, w, o)
  BY <1>1, MarkEffect, Zenon
<1>4. /\ mem[p].status = "sending"
      /\ mem'[p] = [mem[p] EXCEPT !.status = s, !.warned = w]
      /\ \A q \in Ids : q # p => mem'[q] = mem[q]
      /\ disk' \in {disk, mem'}
      /\ mem' \in [Ids -> Entry]
      /\ disk' \in [Ids -> Entry]
      /\ faults' \in Nat
  BY <1>3 DEF Marked
<1>5. ASSUME NEW q \in Ids
      PROVE  /\ Edge(mem[q].status, mem'[q].status)
             /\ mem[q].status = "absent" => mem'[q] = mem[q]
             /\ Timely(mem[q]) => Timely(mem'[q])
             /\ disk'[q] \in {disk[q], mem'[q]}
  <2>1. mem[q] \in Entry
    BY <1>1 DEF StoreTypeOK
  <2>2. disk'[q] \in {disk[q], mem'[q]}
    BY <1>4
  <2>3. CASE q = p
    <3>1. /\ mem'[q] = [mem[q] EXCEPT !.status = s, !.warned = w]
          /\ mem[q].status = "sending"
      BY <1>4, <2>3
    <3>2. /\ mem'[q].status = s
          /\ mem'[q].approvedAt = mem[q].approvedAt
          /\ mem'[q].createdAt = mem[q].createdAt
      BY <2>1, <3>1 DEF Entry
    <3> QED BY <2>2, <3>1, <3>2 DEF Edge, Timely
  <2>4. CASE q # p
    <3>1. mem'[q] = mem[q]
      BY <1>4, <2>4
    <3> QED BY <2>2, <3>1 DEF Edge
  <2> QED BY <2>3, <2>4
<1> QED BY <1>2, <1>4, <1>5, EdgeStepInv

LEMMA NothingAbsent ==
  \A p \in Ids : Nothing[p].status = "absent" /\ Nothing[p].approvedAt = NoTime
BY DEF Nothing, Absent

LEMMA DieInv ==
  ASSUME StoreInv, Die, crashes' \in Nat
  PROVE  StoreInv'
<1> USE DEF StoreInv, Die
<1>1. StoreTypeOK'
  BY AbsentType DEF StoreTypeOK
<1>2. Fresh'
  BY NothingAbsent DEF Fresh
<1>3. (\A p \in Ids : Timely(mem[p]) /\ Timely(disk[p]))'
  BY NothingAbsent DEF Timely
<1> QED BY <1>1, <1>2, <1>3 DEF DiskIsBehind

LEMMA RestartInv ==
  ASSUME StoreInv, NEW o, Restart(o)
  PROVE  StoreInv'
<1> USE DEF StoreInv
<1>1. UNCHANGED <<clock, issued, authorised, told, crashes>>
  BY DEF Restart
<1>2. StoreTypeOK'
  BY <1>1, RestartEffect DEF StoreTypeOK
<1>3. ASSUME NEW p \in Ids
      PROVE  /\ disk[p].status = "absent" => disk'[p].status = "absent"
             /\ Timely(disk[p]) => Timely(disk'[p])
  <2>1. disk[p] \in Entry /\ "uncertain" \in Status
    BY DEF StoreTypeOK, Status, Terminal, Decided
  <2>2. Reloaded(disk[p], disk'[p])
    BY RestartEffect
  <2>3. CASE Closed(disk[p], disk'[p])
    BY <2>3 DEF Closed, SameRequest, Timely
  <2>4. CASE disk[p].status = "sending" /\ disk'[p] = [disk[p] EXCEPT !.status = "uncertain"]
    BY <2>1, <2>4, StatusUpdate DEF Timely
  <2> QED BY <2>2, <2>3, <2>4 DEF Reloaded
<1>4. ASSUME NEW p \in Ids
      PROVE  /\ up' => mem'[p] = disk'[p]
             /\ ~up' => mem'[p].status = "absent" /\ mem'[p].approvedAt = NoTime
  BY RestartEffect, NothingAbsent
<1>5. Fresh'
  BY <1>1, <1>3, <1>4, <1>2 DEF Fresh, StoreTypeOK
<1>6. (\A p \in Ids : Timely(mem[p]) /\ Timely(disk[p]))'
  BY <1>3, <1>4, <1>2 DEF Timely, StoreTypeOK
<1> QED BY <1>2, <1>4, <1>5, <1>6 DEF DiskIsBehind, Reaches

LEMMA TickInv ==
  ASSUME StoreInv, Tick
  PROVE  StoreInv'
<1>1. clock' \in 0 .. MaxClock
  BY BoundsAssumption DEF StoreInv, StoreTypeOK, Tick
<1> QED BY <1>1 DEF StoreInv, StoreTypeOK, Tick, Fresh, DiskIsBehind, Timely

LEMMA StoreStutterInv ==
  ASSUME StoreInv, UNCHANGED storeVars
  PROVE  StoreInv'
BY DEF storeVars, StoreInv, StoreTypeOK, Fresh, DiskIsBehind, Timely

LEMMA StoreNextInv == StoreInv /\ [StoreNext]_storeVars => StoreInv'
<1> SUFFICES ASSUME StoreInv, [StoreNext]_storeVars
             PROVE  StoreInv'
  OBVIOUS
<1>0. StoreTypeOK /\ Fresh
  BY DEF StoreInv
<1>1. CASE HandlerStep
  BY <1>0, <1>1, HandlerStepEffect, HandlerInv
<1>2. CASE ClaimStep
  <2>1. PICK o \in Outcomes, now \in (clock - QueueLag) .. clock :
          ClaimNone(now, o) \/ \E p \in Ids : ClaimDue(p, now, o)
    BY <1>2 DEF ClaimStep
  <2>2. CASE ClaimNone(now, o)
    BY <1>0, <2>2, ClaimNoneHandled, HandlerInv
  <2>3. CASE \E p \in Ids : ClaimDue(p, now, o)
    BY <2>3, ClaimDueInv
  <2> QED BY <2>1, <2>2, <2>3
<1>3. CASE MarkStep
  <2>1. PICK p \in Ids, o \in Outcomes :
          \/ \E warned \in BOOLEAN : MarkSent(p, warned, o)
          \/ \E status \in Decided : MarkMoveOutcome(p, status, o)
          \/ MarkFailed(p, o)
          \/ MarkUncertain(p, o)
    BY <1>3 DEF MarkStep
  <2>2. PICK s \in Decided, w \in BOOLEAN : Mark(p, s, w, o)
    BY <2>1 DEF MarkSent, MarkMoveOutcome, MarkFailed, MarkUncertain, Decided
  <2> QED BY <2>2, MarkInv
<1>4. CASE Tick
  BY <1>4, TickInv
<1>5. CASE Crash
  <2>1. crashes' \in Nat /\ Die
    BY <1>0, <1>5 DEF Crash, StoreTypeOK
  <2> QED BY <2>1, DieInv
<1>6. CASE \E o \in Outcomes : Restart(o)
  BY <1>6, RestartInv
<1>7. CASE UNCHANGED storeVars
  BY <1>7, StoreStutterInv
<1> QED BY <1>1, <1>2, <1>3, <1>4, <1>5, <1>6, <1>7 DEF StoreNext

-----------------------------------------------------------------------------
(* For any caller, any number of crashes and any failed writes, the store  *)
(* keeps its types (src/worker/store.ts as a whole).                       *)
THEOREM StoreTypeCorrect == StoreSpec => []StoreTypeOK
<1>1. StoreInv => StoreTypeOK
  BY DEF StoreInv
<1> QED BY <1>1, StoreInitInv, StoreNextInv, PTL DEF StoreSpec

(* Memory is ahead of outbox.json only along the state diagram.            *)
THEOREM DiskIsBehindCorrect == StoreSpec => []DiskIsBehind
<1>1. StoreInv => DiskIsBehind
  BY DEF StoreInv
<1> QED BY <1>1, StoreInitInv, StoreNextInv, PTL DEF StoreSpec

(* Nothing is approved after its window (#expire before approve's guard).  *)
THEOREM ApprovedInWindowCorrect == StoreSpec => []ApprovedInWindow
<1>1. StoreInv => ApprovedInWindow
  BY DEF StoreInv, Timely, ApprovedInWindow
<1> QED BY <1>1, StoreInitInv, StoreNextInv, PTL DEF StoreSpec

-----------------------------------------------------------------------------
(* One operation, one edge of the diagram.                                 *)
LEMMA StepFollowsDiagram ==
  ASSUME StoreTypeOK, Fresh, [StoreNext]_storeVars, up, up', NEW p \in Ids
  PROVE  Edge(mem[p].status, mem'[p].status)
<1>1. CASE UNCHANGED mem
  BY <1>1 DEF Edge
<1>2. ASSUME HandlerEffect PROVE Edge(mem[p].status, mem'[p].status)
  BY <1>2, HandledEdge DEF HandlerEffect, StoreTypeOK
<1>3. CASE HandlerStep
  BY <1>2, <1>3, HandlerStepEffect
<1>4. CASE ClaimStep
  <2>1. PICK o \in Outcomes, now \in (clock - QueueLag) .. clock :
          ClaimNone(now, o) \/ \E q \in Ids : ClaimDue(q, now, o)
    BY <1>4 DEF ClaimStep
  <2>2. CASE ClaimNone(now, o)
    BY <1>2, <2>2, ClaimNoneHandled
  <2>3. ASSUME NEW q \in Ids, ClaimDue(q, now, o)
        PROVE  Edge(mem[p].status, mem'[p].status)
    <3>1. /\ Due(mem[q], now)
          /\ mem'[q] = [mem[q] EXCEPT !.status = "sending"]
          /\ \A r \in Ids : r # q => mem'[r] = mem[r] \/ Closed(mem[r], mem'[r])
      BY <2>3, ClaimDueEffect
    <3>2. mem'[q].status = "sending"
      BY <3>1, StatusUpdate DEF StoreTypeOK, Status
    <3> QED BY <3>1, <3>2 DEF Due, Closed, Edge
  <2> QED BY <2>1, <2>2, <2>3
<1>5. CASE MarkStep
  <2>1. PICK q \in Ids, o \in Outcomes :
          \/ \E w \in BOOLEAN : Mark(q, "sent", w, o)
          \/ \E s \in Decided : Mark(q, s, FALSE, o)
    BY <1>5 DEF MarkStep, MarkSent, MarkMoveOutcome, MarkFailed, MarkUncertain, Decided
  <2>2. PICK s \in Decided, w \in BOOLEAN : Mark(q, s, w, o)
    BY <2>1 DEF Decided
  <2>3. Marked(q, s, w, o)
    BY <2>2, MarkEffect, Zenon
  <2>4. mem'[q].status = s
    BY <2>3 DEF Marked, StoreTypeOK, Entry
  <2> QED BY <2>3, <2>4 DEF Marked, Edge, Decided
<1>6. CASE Tick \/ Crash \/ (\E o \in Outcomes : Restart(o)) \/ UNCHANGED storeVars
  BY <1>1, <1>6 DEF Tick, Crash, Die, Restart, storeVars
<1> QED BY <1>3, <1>4, <1>5, <1>6 DEF StoreNext

(* Whatever its callers do, one operation of a running store takes each    *)
(* proposal along one edge of the state diagram (docs/architecture.md).    *)
THEOREM FollowsDiagramCorrect == StoreSpec => FollowsDiagram
<1>1. StoreInv /\ [StoreNext]_storeVars
        => [up /\ up' => \A p \in Ids : Edge(mem[p].status, mem'[p].status)]_storeVars
  BY StepFollowsDiagram DEF StoreInv
<1> QED BY <1>1, StoreInitInv, StoreNextInv, PTL DEF StoreSpec, FollowsDiagram

-----------------------------------------------------------------------------
(* One proposal per key.  The file is covered by memory: what it holds is  *)
(* in memory too, under the same key, so the known-key test of createMove, *)
(* which looks at memory only, covers both.                                *)
Unique(entries) ==
  \A p, q \in Ids :
    /\ entries[p].status # "absent" /\ entries[p].kind = "move"
    /\ entries[q].status # "absent" /\ entries[q].kind = "move"
    /\ entries[p].key = entries[q].key
    => p = q

Covers(e, f) ==
  e.status # "absent" => f.status # "absent" /\ f.kind = e.kind /\ f.key = e.key

KeyInv ==
  /\ Unique(mem)
  /\ Unique(disk)
  /\ up => \A p \in Ids : Covers(disk[p], mem[p])

LEMMA CoveredIsUnique ==
  ASSUME NEW e, NEW f, Unique(f), \A p \in Ids : Covers(e[p], f[p])
  PROVE  Unique(e)
BY DEF Unique, Covers

LEMMA GrownIsUnique ==
  ASSUME Unique(mem),
         \A p \in Ids : Covers(mem'[p], mem[p]) \/ (Created(mem[p], mem'[p]) /\ NewHere(p))
  PROVE  Unique(mem')
<1> SUFFICES ASSUME NEW p \in Ids, NEW q \in Ids, p # q,
                    mem'[p].status # "absent", mem'[p].kind = "move",
                    mem'[q].status # "absent", mem'[q].kind = "move",
                    mem'[p].key = mem'[q].key
             PROVE  FALSE
  BY DEF Unique
<1>1. CASE Covers(mem'[p], mem[p]) /\ Covers(mem'[q], mem[q])
  BY <1>1 DEF Unique, Covers
<1>2. CASE Covers(mem'[p], mem[p]) /\ Created(mem[q], mem'[q]) /\ NewHere(q)
  BY <1>2 DEF Covers, NewHere, WithKey
<1>3. CASE Covers(mem'[q], mem[q]) /\ Created(mem[p], mem'[p]) /\ NewHere(p)
  BY <1>3 DEF Covers, NewHere, WithKey
<1>4. CASE Created(mem[p], mem'[p]) /\ NewHere(p) /\ Created(mem[q], mem'[q])
  BY <1>4 DEF NewHere
<1> QED BY <1>1, <1>2, <1>3, <1>4

LEMMA HandlerKeys ==
  ASSUME HandlerEffect, KeyInv
  PROVE  KeyInv'
<1>1. ASSUME NEW p \in Ids
      PROVE  /\ Covers(mem[p], mem'[p])
             /\ Covers(mem'[p], mem[p]) \/ (Created(mem[p], mem'[p]) /\ NewHere(p))
             /\ Covers(disk'[p], mem'[p])
  <2>1. Handled(mem[p], mem'[p]) /\ Covers(disk[p], mem[p])
    BY DEF HandlerEffect, KeyInv
  <2>2. Covers(mem[p], mem'[p])
    BY <2>1 DEF Handled, Created, Closed, Approved, SameRequest, Covers
  <2>3. Covers(mem'[p], mem[p]) \/ (Created(mem[p], mem'[p]) /\ NewHere(p))
    BY <2>1 DEF HandlerEffect, Handled, Closed, Approved, SameRequest, Covers
  <2>4. \/ disk'[p] = disk[p]
        \/ disk'[p] = mem'[p]
        \/ Closed(disk'[p], mem'[p])
        \/ Approved(disk'[p], mem'[p])
    BY DEF HandlerEffect
  <2>5. Covers(disk'[p], mem'[p])
    BY <2>1, <2>2, <2>4 DEF Closed, Approved, SameRequest, Covers
  <2> QED BY <2>2, <2>3, <2>5
<1>2. Unique(mem')
  BY <1>1, GrownIsUnique DEF KeyInv
<1>3. Unique(disk')
  BY <1>1, <1>2, CoveredIsUnique
<1> QED BY <1>1, <1>2, <1>3 DEF KeyInv

(* Claims and marks keep every proposal's key and write memory as it is.   *)
LEMMA SameKeys ==
  ASSUME KeyInv, up, up', disk' \in {disk, mem'},
         \A p \in Ids : Covers(mem[p], mem'[p]) /\ Covers(mem'[p], mem[p])
  PROVE  KeyInv'
<1>1. Unique(mem')
  BY GrownIsUnique DEF KeyInv
<1>2. \A p \in Ids : Covers(disk'[p], mem'[p])
  BY DEF KeyInv, Covers
<1>3. Unique(disk')
  BY <1>1, <1>2, CoveredIsUnique
<1> QED BY <1>1, <1>2, <1>3 DEF KeyInv

LEMMA KeyStep ==
  ASSUME StoreTypeOK, Fresh, KeyInv, [StoreNext]_storeVars
  PROVE  KeyInv'
<1>1. CASE HandlerStep
  BY <1>1, HandlerStepEffect, HandlerKeys
<1>2. CASE ClaimStep
  <2>1. PICK o \in Outcomes, now \in (clock - QueueLag) .. clock :
          ClaimNone(now, o) \/ \E q \in Ids : ClaimDue(q, now, o)
    BY <1>2 DEF ClaimStep
  <2>2. CASE ClaimNone(now, o)
    BY <2>2, ClaimNoneHandled, HandlerKeys
  <2>3. ASSUME NEW q \in Ids, ClaimDue(q, now, o)
        PROVE  KeyInv'
    <3>1. /\ disk' \in {disk, mem'}
          /\ Due(mem[q], now)
          /\ mem'[q] = [mem[q] EXCEPT !.status = "sending"]
          /\ \A r \in Ids : r # q => mem'[r] = mem[r] \/ Closed(mem[r], mem'[r])
      BY <2>3, ClaimDueEffect
    <3>2. mem'[q].status = "sending" /\ mem'[q].kind = mem[q].kind /\ mem'[q].key = mem[q].key
      BY <3>1, StatusUpdate DEF StoreTypeOK, Status
    <3>3. \A r \in Ids : Covers(mem[r], mem'[r]) /\ Covers(mem'[r], mem[r])
      BY <3>1, <3>2 DEF Due, Closed, SameRequest, Covers
    <3> QED BY <2>3, <3>1, <3>3, SameKeys DEF ClaimDue
  <2> QED BY <2>1, <2>2, <2>3
<1>3. CASE MarkStep
  <2>1. PICK q \in Ids, o \in Outcomes :
          \/ \E w \in BOOLEAN : Mark(q, "sent", w, o)
          \/ \E s \in Decided : Mark(q, s, FALSE, o)
    BY <1>3 DEF MarkStep, MarkSent, MarkMoveOutcome, MarkFailed, MarkUncertain, Decided
  <2>2. PICK s \in Decided, w \in BOOLEAN : Mark(q, s, w, o)
    BY <2>1 DEF Decided
  <2>3. Marked(q, s, w, o)
    BY <2>2, MarkEffect, Zenon
  <2>4. mem'[q].status = s /\ mem'[q].kind = mem[q].kind /\ mem'[q].key = mem[q].key
    BY <2>3 DEF Marked, StoreTypeOK, Entry
  <2>5. \A r \in Ids : Covers(mem[r], mem'[r]) /\ Covers(mem'[r], mem[r])
    BY <2>3, <2>4 DEF Marked, Covers, Decided
  <2>6. up /\ up'
    BY <2>2 DEF Mark
  <2> QED BY <2>3, <2>5, <2>6, SameKeys DEF Marked
<1>4. CASE Crash
  <2>1. up' = FALSE /\ mem' = Nothing /\ disk' = disk
    BY <1>4 DEF Crash, Die
  <2>2. Unique(mem')
    BY <2>1, NothingAbsent DEF Unique
  <2> QED BY <2>1, <2>2 DEF KeyInv, Unique
<1>5. CASE \E o \in Outcomes : Restart(o)
  <2>1. /\ up' => mem' = disk'
        /\ ~up' => mem' = Nothing
        /\ \A p \in Ids : Reloaded(disk[p], disk'[p])
    BY <1>5, RestartEffect
  <2>2. \A p \in Ids : Covers(disk'[p], disk[p])
    <3>1. ASSUME NEW p \in Ids PROVE Covers(disk'[p], disk[p])
      <4>1. disk[p] \in Entry /\ "uncertain" \in Status
        BY DEF StoreTypeOK, Status, Terminal, Decided
      <4>2. CASE disk'[p] = disk[p] \/ Closed(disk[p], disk'[p])
        BY <4>2 DEF Closed, SameRequest, Covers
      <4>3. CASE disk[p].status = "sending" /\ disk'[p] = [disk[p] EXCEPT !.status = "uncertain"]
        BY <4>1, <4>3, StatusUpdate DEF Covers
      <4> QED BY <2>1, <4>2, <4>3 DEF Reloaded
    <3> QED BY <3>1
  <2>3. Unique(disk')
    BY <2>2, CoveredIsUnique DEF KeyInv
  <2>4. CASE up'
    BY <2>1, <2>3, <2>4 DEF KeyInv, Covers
  <2>5. CASE ~up'
    BY <2>1, <2>3, <2>5, NothingAbsent DEF KeyInv, Unique
  <2> QED BY <2>4, <2>5
<1>6. CASE Tick \/ UNCHANGED storeVars
  BY <1>6 DEF Tick, storeVars, KeyInv, Unique, Covers
<1> QED BY <1>1, <1>2, <1>3, <1>4, <1>5, <1>6 DEF StoreNext

(* A retried createMove never makes a second proposal for its key, in      *)
(* memory or in the file, whatever crashes and whatever writes fail.       *)
THEOREM OneProposalPerKeyCorrect == StoreSpec => []OneProposalPerKey
<1>1. StoreInit => KeyInv
  BY NothingAbsent DEF StoreInit, KeyInv, Unique, Covers
<1>2. StoreInv /\ KeyInv /\ [StoreNext]_storeVars => KeyInv'
  BY KeyStep DEF StoreInv
<1>3. KeyInv => OneProposalPerKey
  BY DEF KeyInv, Unique, OneProposalPerKey
<1> QED BY <1>1, <1>2, <1>3, StoreInitInv, StoreNextInv, PTL DEF StoreSpec
===============================================================================
