------------------------------- MODULE WaitProofs -------------------------------
(***************************************************************************)
(* Theorems about ApprovalGate and the tool call of ApprovalWait, for any  *)
(* set of proposals, any finite set of clients, and any value of the       *)
(* settings.                                                               *)
(***************************************************************************)
EXTENDS ApprovalWait, FiniteSetTheorems, TLAPS

-----------------------------------------------------------------------------
(* The gate.                                                               *)

GateStep == GateNext \/ LimiterTick \/ UNCHANGED gateVars

(* A submission that will approve was made with that proposal's own form.  *)
DecidingIntended == \A p \in Ids : <<p, "approve">> \in deciding => p \in intended

GateInv == GateTypeOK /\ DecidingIntended /\ ApprovedAsIntended

LEMMA InitGateInv ==
  ASSUME GateInit PROVE GateInv
<1>1. 0 \in Ages /\ 0 \in 0..Limit + 1 /\ 0 \in 0..Window
  BY GateAssumption DEF Ages
<1> QED BY <1>1 DEF GateInit, LifeInit, GateInv, GateTypeOK, DecidingIntended,
  ApprovedAsIntended, Statuses

LEMMA HitFits ==
  ASSUME GateTypeOK, NEW k \in Clients, Hit(k)
  PROVE  hits' \in [Clients -> 0..Limit + 1] /\ resetIn' \in [Clients -> 0..Window]
<1>1. (IF hits[k] > Limit THEN hits[k] ELSE hits[k] + 1) \in 0..Limit + 1
  BY GateAssumption DEF GateTypeOK
<1>2. WindowAfter(k) \in 0..Window
  BY GateAssumption DEF GateTypeOK, WindowAfter
<1> QED BY <1>1, <1>2 DEF GateTypeOK, Hit

(* A step of one proposal's status, with nothing else of the gate but the  *)
(* submission it settles.                                                  *)
LEMMA SettleKeeps ==
  ASSUME GateInv, NEW p \in Ids, NEW to \in Statuses,
         status' = [status EXCEPT ![p] = to],
         to \in {"approved", "carried"} => p \in intended,
         deciding' \subseteq deciding,
         UNCHANGED <<limiterVars, intended>>
  PROVE  GateInv'
BY DEF GateInv, GateTypeOK, DecidingIntended, ApprovedAsIntended, limiterVars

LEMMA SubmitKeeps ==
  ASSUME GateInv, NEW k \in Clients, NEW p \in Ids, NEW action \in Actions,
         NEW form, NEW right \in BOOLEAN, Submit(k, p, action, form, right)
  PROVE  GateInv'
<1>1. hits' \in [Clients -> 0..Limit + 1] /\ resetIn' \in [Clients -> 0..Window]
  BY HitFits DEF Submit, GateInv
<1>2. compared' \in [Clients -> [Ages -> Nat]]
  <2>1. 0 \in Ages
    BY GateAssumption DEF Ages
  <2> QED BY <2>1 DEF Submit, GateInv, GateTypeOK
<1>3. /\ deciding' \subseteq Ids \X Actions
      /\ intended' \subseteq Ids
      /\ intended \subseteq intended'
      /\ status' = status
  BY DEF Submit, GateInv, GateTypeOK
<1>4. ASSUME NEW q \in Ids, <<q, "approve">> \in deciding'
      PROVE  q \in intended'
  <2>1. CASE <<q, "approve">> \in deciding
    BY <2>1, <1>3 DEF GateInv, DecidingIntended
  <2>2. CASE <<q, "approve">> \notin deciding
    <3>1. right /\ q = p /\ action = "approve"
      BY <1>4, <2>2 DEF Submit
    <3>2. form = signForm(q, "approve")
      BY <3>1 DEF Submit, PassesForm, verifyFormSignature
    <3> QED BY <3>1, <3>2 DEF Submit
  <2> QED BY <2>1, <2>2
<1> QED BY <1>1, <1>2, <1>3, <1>4 DEF GateInv, GateTypeOK, DecidingIntended,
  ApprovedAsIntended

LEMMA SettleStep ==
  ASSUME GateInv, NEW p \in Ids, NEW to \in {"expired", "carried", "cancelled"},
         Settle(p, to)
  PROVE  GateInv'
<1>1. to = "carried" => p \in intended
  BY DEF Settle, CanBecome, GateInv, ApprovedAsIntended
<1>2. to \in Statuses /\ (to \in {"approved", "carried"} => p \in intended)
  BY <1>1 DEF Statuses
<1> QED BY <1>2, SettleKeeps DEF Settle

LEMMA DecideStep ==
  ASSUME GateInv, NEW p \in Ids, NEW action \in Actions, Decide(p, action)
  PROVE  GateInv'
<1> DEFINE to == IF action = "approve" THEN "approved" ELSE "cancelled"
           next == IF CanBecome(status[p], to) THEN to ELSE status[p]
<1>1. next \in Statuses
  BY DEF Statuses, GateInv, GateTypeOK
<1>2. next \in {"approved", "carried"} => p \in intended
  BY DEF Decide, Actions, GateInv, DecidingIntended, ApprovedAsIntended
<1>3. /\ status' = [status EXCEPT ![p] = next]
      /\ deciding' \subseteq deciding
      /\ UNCHANGED <<limiterVars, intended>>
  BY DEF Decide
<1> HIDE DEF next
<1> QED BY <1>1, <1>2, <1>3, SettleKeeps

LEMMA LimiterTickKeeps ==
  ASSUME GateInv, LimiterTick
  PROVE  GateInv'
<1>1. ASSUME NEW k \in Clients
      PROVE  (IF resetIn[k] = 0 THEN 0 ELSE resetIn[k] - 1) \in 0..Window
  <2>1. resetIn[k] \in 0..Window /\ Window \in Nat
    BY GateAssumption DEF GateInv, GateTypeOK
  <2> QED BY <2>1
<1>2. resetIn' \in [Clients -> 0..Window]
  BY <1>1, GateAssumption DEF LimiterTick
<1>3. hits' \in [Clients -> 0..Limit + 1]
  BY GateAssumption DEF LimiterTick, GateInv, GateTypeOK
<1>4. \A a \in Ages : a # 0 => a - 1 \in Ages
  BY GateAssumption DEF Ages
<1>5. compared' \in [Clients -> [Ages -> Nat]]
  BY <1>4 DEF LimiterTick, GateInv, GateTypeOK
<1> QED BY <1>2, <1>3, <1>5 DEF LimiterTick, GateInv, GateTypeOK, DecidingIntended,
  ApprovedAsIntended

LEMMA GateStepKeeps ==
  ASSUME GateInv, GateStep
  PROVE  GateInv'
<1>1. ASSUME NEW k \in Clients, Refuse(k) PROVE GateInv'
  <2>1. hits' \in [Clients -> 0..Limit + 1] /\ resetIn' \in [Clients -> 0..Window]
    BY <1>1, HitFits DEF Refuse, GateInv
  <2> QED BY <1>1, <2>1 DEF Refuse, GateInv, GateTypeOK, DecidingIntended,
    ApprovedAsIntended
<1>2. ASSUME NEW k \in Clients, NEW p \in Ids, NEW action \in Actions,
             NEW form \in Issued, NEW right \in BOOLEAN,
             \/ Submit(k, p, action, form, right)
             \/ \E token \in Issued : AppSubmit(k, p, action, token, form, right)
      PROVE  GateInv'
  BY <1>2, SubmitKeeps DEF AppSubmit
<1>3. ASSUME NEW p \in Ids, Create(p) PROVE GateInv'
  <2>1. "pending_approval" \in Statuses
    BY DEF Statuses
  <2> QED BY <1>3, <2>1, SettleKeeps DEF Create
<1>4. ASSUME NEW p \in Ids, Expire(p) \/ Carry(p) \/ ApiCancel(p) PROVE GateInv'
  BY <1>4, SettleStep DEF Expire, Carry, ApiCancel
<1>5. CASE UNCHANGED gateVars
  BY <1>5 DEF gateVars, limiterVars, GateInv, GateTypeOK, DecidingIntended,
    ApprovedAsIntended
<1> QED BY <1>1, <1>2, <1>3, <1>4, <1>5, DecideStep, LimiterTickKeeps
  DEF GateStep, GateNext

(* What a step of the gate does to one proposal.                           *)
Moves(p) == status'[p] = status[p] \/ Born(p) \/ CanBecome(status[p], status'[p])

LEMMA GateMoves ==
  ASSUME GateTypeOK, GateStep, NEW p \in Ids
  PROVE  Moves(p)
<1>1. ASSUME NEW q \in Ids, NEW action \in Actions, Decide(q, action) PROVE Moves(p)
  BY <1>1 DEF Decide, Moves, GateTypeOK
<1>2. ASSUME NEW q \in Ids, Expire(q) \/ Carry(q) \/ ApiCancel(q) \/ Create(q)
      PROVE  Moves(p)
  BY <1>2 DEF Expire, Carry, ApiCancel, Settle, Create, Born, Moves, GateTypeOK
<1>3. ASSUME NEW k \in Clients,
             \/ Refuse(k)
             \/ \E q \in Ids, action \in Actions, form \in Issued, right \in BOOLEAN :
                  \/ Submit(k, q, action, form, right)
                  \/ \E token \in Issued : AppSubmit(k, q, action, token, form, right)
      PROVE  status' = status
  BY <1>3 DEF Refuse, Submit, AppSubmit
<1>4. CASE LimiterTick \/ UNCHANGED gateVars
  BY <1>4 DEF LimiterTick, gateVars, Moves
<1> QED BY <1>1, <1>2, <1>3, <1>4 DEF GateStep, GateNext, Moves

-----------------------------------------------------------------------------
(* The limiter.                                                            *)

(* The comparisons made in the window that is open, and those made before. *)
(* No comparison is older than Window, so at most one window lies before.  *)
Current(k) ==
  {x \in Guesses(k) : resetIn[k] > 0 /\ x[1] + resetIn[k] <= Window}
Past(k) == Guesses(k) \ Current(k)

LimiterFits(k) ==
  /\ IsFiniteSet(Guesses(k))
  /\ Cardinality(Current(k)) <= hits[k]
  /\ Cardinality(Current(k)) <= Limit
  /\ Cardinality(Past(k)) <= Limit
  /\ resetIn[k] = 0 => hits[k] = 0 /\ compared[k][0] = 0

LimiterInv == GateTypeOK /\ \A k \in Clients : LimiterFits(k)

LEMMA GuessesAre ==
  ASSUME NEW c \in [Ages -> Nat]
  PROVE  UNION {{a} \X (1..c[a]) : a \in Ages}
           = {x \in Ages \X Nat : 1 <= x[2] /\ x[2] <= c[x[1]]}
<1> DEFINE L == UNION {{a} \X (1..c[a]) : a \in Ages}
           R == {x \in Ages \X Nat : 1 <= x[2] /\ x[2] <= c[x[1]]}
<1>1. ASSUME NEW x \in L PROVE x \in R
  <2>1. PICK a \in Ages : x \in {a} \X (1..c[a])
    OBVIOUS
  <2>2. c[a] \in Nat
    OBVIOUS
  <2> QED BY <2>1, <2>2
<1>2. ASSUME NEW x \in R PROVE x \in L
  <2>1. x[1] \in Ages /\ x = <<x[1], x[2]>> /\ x[2] \in 1..c[x[1]]
    OBVIOUS
  <2>2. x \in {x[1]} \X (1..c[x[1]])
    BY <2>1
  <2> QED BY <2>1, <2>2
<1> QED BY <1>1, <1>2

LEMMA EmptyInterval ==
  ASSUME NEW c \in [Ages -> Nat], \A a \in Ages : c[a] = 0
  PROVE  {x \in Ages \X Nat : 1 <= x[2] /\ x[2] <= c[x[1]]} = {}
OBVIOUS

(* A set of comparisons that were all there, one tick younger, is no       *)
(* larger than it was.                                                     *)
LEMMA OlderFits ==
  ASSUME NEW S \in SUBSET (Ages \X Nat), NEW T, IsFiniteSet(T),
         \A x \in S : <<x[1] - 1, x[2]>> \in T
  PROVE  IsFiniteSet(S) /\ Cardinality(S) <= Cardinality(T)
<1> DEFINE f == [x \in S |-> <<x[1] - 1, x[2]>>]
<1>1. f \in [S -> T]
  OBVIOUS
<1>2. ASSUME NEW x \in S, NEW y \in S, f[x] = f[y] PROVE x = y
  <2>1. x = <<x[1], x[2]>> /\ y = <<y[1], y[2]>> /\ x[1] \in Nat /\ y[1] \in Nat
    BY DEF Ages
  <2>2. x[1] - 1 = y[1] - 1 /\ x[2] = y[2]
    BY <1>2
  <2> QED BY <2>1, <2>2
<1>3. f \in Injection(S, T)
  BY <1>1, <1>2 DEF Injection, IsInjective
<1> QED BY <1>3, FS_Injection

LEMMA InitLimiterInv ==
  ASSUME GateInit PROVE LimiterInv
<1>1. GateTypeOK
  BY InitGateInv DEF GateInv
<1>2. ASSUME NEW k \in Clients PROVE LimiterFits(k)
  <2>1. compared[k] \in [Ages -> Nat] /\ (\A a \in Ages : compared[k][a] = 0) /\ 0 \in Ages
    BY GateAssumption DEF GateInit, Ages
  <2>2. Guesses(k) = {}
    BY <2>1, GuessesAre, EmptyInterval DEF Guesses
  <2>3. Current(k) = {} /\ Past(k) = {}
    BY <2>2 DEF Current, Past
  <2> QED BY <2>1, <2>2, <2>3, FS_EmptySet, GateAssumption DEF LimiterFits, GateInit
<1> QED BY <1>1, <1>2 DEF LimiterInv

(* An attempt may open a window, which has no comparisons yet: those of    *)
(* the last one stay past.                                                 *)
LEMMA AttemptKeepsSides ==
  ASSUME LimiterInv, NEW k \in Clients, NEW x \in Guesses(k)
  PROVE  x \in Current(k) <=> x[1] + WindowAfter(k) <= Window
<1>1. compared[k] \in [Ages -> Nat] /\ resetIn[k] \in Nat /\ Window \in Nat
  BY GateAssumption DEF LimiterInv, GateTypeOK
<1>2. x \in {y \in Ages \X Nat : 1 <= y[2] /\ y[2] <= compared[k][y[1]]}
  BY <1>1, GuessesAre DEF Guesses
<1>3. resetIn[k] = 0 => x[1] # 0
  BY <1>2 DEF LimiterInv, LimiterFits
<1> QED BY <1>1, <1>2, <1>3 DEF Current, WindowAfter, Ages

LEMMA AttemptOpens ==
  ASSUME GateTypeOK, NEW k \in Clients, Hit(k)
  PROVE  /\ resetIn'[k] = WindowAfter(k)
         /\ resetIn'[k] > 0 /\ resetIn'[k] <= Window
         /\ \A j \in Clients \ {k} : hits'[j] = hits[j] /\ resetIn'[j] = resetIn[j]
BY GateAssumption DEF Hit, GateTypeOK, WindowAfter

(* Counting an attempt without comparing.                                  *)
LEMMA RefusedFits ==
  ASSUME LimiterInv, NEW k \in Clients, Refuse(k)
  PROVE  LimiterFits(k)'
<1>1. hits[k] \in Nat /\ hits'[k] \in Nat /\ hits[k] <= hits'[k]
  BY GateAssumption DEF Refuse, Hit, LimiterInv, GateTypeOK
<1>2. resetIn'[k] = WindowAfter(k) /\ resetIn'[k] > 0
  BY AttemptOpens DEF Refuse, LimiterInv
<1>3. Guesses(k)' = Guesses(k)
  BY DEF Guesses, Refuse
<1>4. Current(k)' = Current(k)
  BY <1>2, <1>3, AttemptKeepsSides DEF Current
<1>5. Past(k)' = Past(k)
  BY <1>3, <1>4 DEF Past
<1>6. Cardinality(Current(k)) \in Nat
  BY FS_Subset, FS_CardinalityType DEF LimiterInv, LimiterFits, Current
<1> QED BY <1>1, <1>2, <1>3, <1>4, <1>5, <1>6 DEF LimiterInv, LimiterFits

(* A comparison is counted as one, whatever was counted before.            *)
LEMMA SubmitAdds ==
  ASSUME GateTypeOK, NEW k \in Clients, NEW p, NEW action, NEW form, NEW right,
         Submit(k, p, action, form, right)
  PROVE  /\ Guesses(k)' = Guesses(k) \cup {<<0, compared[k][0] + 1>>}
         /\ <<0, compared[k][0] + 1>> \notin Guesses(k)
         /\ \A j \in Clients \ {k} : compared'[j] = compared[j]
<1> DEFINE c == compared[k]
           d == [compared[k] EXCEPT ![0] = @ + 1]
<1>1. 0 \in Ages
  BY GateAssumption DEF Ages
<1>2. c \in [Ages -> Nat] /\ d \in [Ages -> Nat] /\ d[0] = c[0] + 1
      /\ \A a \in Ages \ {0} : d[a] = c[a]
  BY <1>1 DEF GateTypeOK
<1>3. compared'[k] = d /\ \A j \in Clients \ {k} : compared'[j] = compared[j]
  BY DEF Submit, GateTypeOK
<1> HIDE DEF c, d
<1>4. Guesses(k) = {x \in Ages \X Nat : 1 <= x[2] /\ x[2] <= c[x[1]]}
  BY <1>2, GuessesAre DEF Guesses, c
<1>5. Guesses(k)' = {x \in Ages \X Nat : 1 <= x[2] /\ x[2] <= d[x[1]]}
  BY <1>2, <1>3, GuessesAre DEF Guesses
<1>6. \A x \in Ages \X Nat :
        (1 <= x[2] /\ x[2] <= d[x[1]])
          <=> (1 <= x[2] /\ x[2] <= c[x[1]]) \/ x = <<0, c[0] + 1>>
  BY <1>1, <1>2
<1>7. <<0, c[0] + 1>> \in Ages \X Nat /\ ~(c[0] + 1 <= c[0])
  BY <1>1, <1>2
<1> QED BY <1>3, <1>4, <1>5, <1>6, <1>7 DEF c

LEMMA SubmitFits ==
  ASSUME LimiterInv, NEW k \in Clients, NEW p, NEW action, NEW form, NEW right,
         Submit(k, p, action, form, right)
  PROVE  LimiterFits(k)'
<1> DEFINE e == <<0, compared[k][0] + 1>>
<1>1. /\ hits[k] \in Nat /\ Limit \in Nat /\ hits[k] < Limit
      /\ hits'[k] = hits[k] + 1
  BY GateAssumption DEF Submit, Blocked, Hit, LimiterInv, GateTypeOK
<1>2. resetIn'[k] = WindowAfter(k) /\ resetIn'[k] > 0 /\ resetIn'[k] <= Window
  BY AttemptOpens DEF Submit, LimiterInv
<1>3. Guesses(k)' = Guesses(k) \cup {e} /\ e \notin Guesses(k)
  BY SubmitAdds DEF LimiterInv
<1>4. Current(k) \subseteq Guesses(k)
  BY DEF Current
<1>5. \A x \in Guesses(k) : x \in Current(k) <=> x[1] + resetIn'[k] <= Window
  BY <1>2, AttemptKeepsSides
<1>6. e[1] + resetIn'[k] <= Window
  BY <1>2, GateAssumption DEF WindowAfter, LimiterInv, GateTypeOK
<1> HIDE DEF e
<1>7. Current(k)' = Current(k) \cup {e}
  BY <1>2, <1>3, <1>4, <1>5, <1>6 DEF Current
<1>8. Past(k)' = Past(k)
  BY <1>3, <1>4, <1>7 DEF Past
<1>9. /\ IsFiniteSet(Guesses(k)) /\ IsFiniteSet(Current(k))
      /\ Cardinality(Current(k)) \in Nat
  BY <1>4, FS_Subset, FS_CardinalityType DEF LimiterInv, LimiterFits
<1>10. IsFiniteSet(Guesses(k)')
  BY <1>3, <1>9, FS_AddElement
<1>11. Cardinality(Current(k)') = Cardinality(Current(k)) + 1
  BY <1>3, <1>4, <1>7, <1>9, FS_AddElement
<1> QED BY <1>1, <1>2, <1>8, <1>9, <1>10, <1>11 DEF LimiterInv, LimiterFits

(* When a window ends, all its comparisons become past at once, and all    *)
(* that were past are too old.                                             *)
LEMMA TickFits ==
  ASSUME LimiterInv, LimiterTick, NEW k \in Clients
  PROVE  LimiterFits(k)'
<1> DEFINE c == compared[k]
           d == [a \in Ages |-> IF a = 0 THEN 0 ELSE c[a - 1]]
<1>1. /\ c \in [Ages -> Nat] /\ resetIn[k] \in Nat /\ hits[k] \in Nat
      /\ Limit \in Nat /\ Window \in Nat \ {0} /\ 0 \in Ages
  BY GateAssumption DEF LimiterInv, GateTypeOK, Ages
<1>2. /\ compared'[k] = d
      /\ resetIn'[k] = (IF resetIn[k] = 0 THEN 0 ELSE resetIn[k] - 1)
      /\ hits'[k] = (IF resetIn[k] <= 1 THEN 0 ELSE hits[k])
  BY DEF LimiterTick
<1>3. d \in [Ages -> Nat] /\ d[0] = 0 /\ \A a \in Ages \ {0} : a - 1 \in Ages /\ d[a] = c[a - 1]
  BY <1>1 DEF Ages
<1> HIDE DEF c, d
<1>4. Guesses(k) = {x \in Ages \X Nat : 1 <= x[2] /\ x[2] <= c[x[1]]}
  BY <1>1, GuessesAre DEF Guesses, c
<1>5. Guesses(k)' = {x \in Ages \X Nat : 1 <= x[2] /\ x[2] <= d[x[1]]}
  BY <1>2, <1>3, GuessesAre DEF Guesses
<1>6. ASSUME NEW x \in Guesses(k)'
      PROVE  <<x[1] - 1, x[2]>> \in Guesses(k) /\ x[1] \in Nat /\ 1 <= x[1] /\ x[1] < Window
  <2>1. x[1] \in Ages \ {0} /\ x[2] \in Nat /\ 1 <= x[2] /\ x[2] <= c[x[1] - 1]
    BY <1>3, <1>5
  <2>2. x[1] - 1 \in Ages
    BY <2>1, <1>3
  <2> QED BY <1>4, <2>1, <2>2, <1>1 DEF Ages
<1>7. Guesses(k)' \in SUBSET (Ages \X Nat)
  BY <1>5
<1>8. /\ IsFiniteSet(Guesses(k)) /\ IsFiniteSet(Current(k)) /\ IsFiniteSet(Past(k))
      /\ Cardinality(Current(k)) \in Nat /\ Cardinality(Past(k)) \in Nat
  BY FS_Subset, FS_CardinalityType DEF LimiterInv, LimiterFits, Current, Past
<1>9. IsFiniteSet(Guesses(k)')
  BY <1>6, <1>7, <1>8, OlderFits
<1>10. compared'[k][0] = 0
  BY <1>2, <1>3
<1>11. CASE resetIn[k] > 1
  <2>1. ASSUME NEW x \in Guesses(k)'
        PROVE  x \in Current(k)' <=> <<x[1] - 1, x[2]>> \in Current(k)
    BY <1>1, <1>2, <1>6, <1>11 DEF Current
  <2>2. Cardinality(Current(k)') <= Cardinality(Current(k))
    BY <1>7, <1>8, <2>1, OlderFits DEF Current
  <2>3. \A x \in Past(k)' : x \in Guesses(k)' /\ <<x[1] - 1, x[2]>> \in Past(k)
    BY <1>6, <2>1 DEF Past
  <2>4. Cardinality(Past(k)') <= Cardinality(Past(k))
    BY <1>7, <1>8, <2>3, OlderFits DEF Past
  <2>5. Cardinality(Current(k)') \in Nat /\ Cardinality(Past(k)') \in Nat
    BY <1>9, FS_Subset, FS_CardinalityType DEF Current, Past
  <2> QED BY <1>1, <1>2, <1>8, <1>9, <1>11, <2>2, <2>4, <2>5 DEF LimiterInv, LimiterFits
<1>12. CASE resetIn[k] <= 1
  <2>1. resetIn'[k] = 0 /\ hits'[k] = 0
    BY <1>1, <1>2, <1>12
  <2>2. Current(k)' = {} /\ Past(k)' = Guesses(k)'
    BY <2>1 DEF Current, Past
  <2>3. PICK T \in {Current(k), Past(k)} : \A x \in Guesses(k)' : <<x[1] - 1, x[2]>> \in T
    <3>1. CASE resetIn[k] = 0
      BY <1>6, <3>1 DEF Current, Past
    <3>2. CASE resetIn[k] = 1
      <4>1. ASSUME NEW x \in Guesses(k)' PROVE <<x[1] - 1, x[2]>> \in Current(k)
        BY <1>1, <1>6, <3>2 DEF Current
      <4> QED BY <4>1
    <3> QED BY <1>1, <1>12, <3>1, <3>2
  <2>4. Cardinality(Guesses(k)') <= Cardinality(T)
    BY <1>7, <1>8, <2>3, OlderFits
  <2>5. Cardinality(T) \in Nat /\ Cardinality(T) <= Limit
    BY <1>8 DEF LimiterInv, LimiterFits
  <2>6. Cardinality(Guesses(k)') \in Nat
    BY <1>9, FS_CardinalityType
  <2> QED BY <1>1, <1>9, <1>10, <2>1, <2>2, <2>4, <2>5, <2>6, FS_EmptySet DEF LimiterFits
<1> QED BY <1>1, <1>11, <1>12

LEMMA LimiterStepKeeps ==
  ASSUME LimiterInv, GateTypeOK', GateStep
  PROVE  LimiterInv'
<1>1. ASSUME NEW k \in Clients,
             \/ Refuse(k)
             \/ \E p \in Ids, action \in Actions, form \in Issued, right \in BOOLEAN :
                  \/ Submit(k, p, action, form, right)
                  \/ \E token \in Issued : AppSubmit(k, p, action, token, form, right)
      PROVE  LimiterInv'
  <2>1. LimiterFits(k)'
    BY <1>1, RefusedFits, SubmitFits DEF AppSubmit
  <2>2. ASSUME NEW j \in Clients \ {k} PROVE LimiterFits(j)'
    <3>1. compared'[j] = compared[j]
      BY <1>1, SubmitAdds DEF AppSubmit, Refuse, LimiterInv
    <3>2. hits'[j] = hits[j] /\ resetIn'[j] = resetIn[j]
      BY <1>1, AttemptOpens DEF AppSubmit, Refuse, Submit, LimiterInv
    <3>3. Guesses(j)' = Guesses(j)
      BY <3>1 DEF Guesses
    <3>4. Current(j)' = Current(j) /\ Past(j)' = Past(j)
      BY <3>2, <3>3 DEF Current, Past
    <3>5. LimiterFits(j)
      BY DEF LimiterInv
    <3> QED BY <3>1, <3>2, <3>3, <3>4, <3>5 DEF LimiterFits
  <2> QED BY <2>1, <2>2 DEF LimiterInv
<1>2. CASE LimiterTick
  BY <1>2, TickFits DEF LimiterInv
<1>3. CASE UNCHANGED limiterVars
  <2>1. ASSUME NEW k \in Clients PROVE LimiterFits(k)'
    <3>1. hits' = hits /\ resetIn' = resetIn /\ compared' = compared
      BY <1>3 DEF limiterVars
    <3>2. LimiterFits(k)
      BY DEF LimiterInv
    <3> QED BY <3>1, <3>2 DEF LimiterFits, Guesses, Current, Past
  <2> QED BY <2>1 DEF LimiterInv
<1>4. ASSUME NEW p \in Ids,
             \/ \E action \in Actions : Decide(p, action)
             \/ Expire(p) \/ Carry(p) \/ ApiCancel(p) \/ Create(p)
      PROVE  UNCHANGED limiterVars
  BY <1>4 DEF Decide, Expire, Carry, ApiCancel, Create, Settle
<1> QED BY <1>1, <1>2, <1>3, <1>4 DEF GateStep, GateNext, gateVars

LEMMA GuessesFit ==
  ASSUME LimiterInv
  PROVE  GuessesBounded
<1> SUFFICES ASSUME NEW k \in Clients PROVE Cardinality(Guesses(k)) <= 2 * Limit
  BY DEF GuessesBounded
<1>1. Current(k) \subseteq Guesses(k) /\ Past(k) = Guesses(k) \ Current(k)
  BY DEF Current, Past
<1>2. IsFiniteSet(Guesses(k)) /\ Cardinality(Current(k)) <= Limit /\ Cardinality(Past(k)) <= Limit
  BY DEF LimiterInv, LimiterFits
<1>3. /\ IsFiniteSet(Current(k)) /\ IsFiniteSet(Past(k))
      /\ Cardinality(Current(k)) \in Nat /\ Cardinality(Past(k)) \in Nat
  BY <1>1, <1>2, FS_Subset, FS_CardinalityType
<1>4. Guesses(k) = Current(k) \cup Past(k) /\ Current(k) \cap Past(k) = {}
  BY <1>1
<1>5. Cardinality(Guesses(k)) = Cardinality(Current(k)) + Cardinality(Past(k))
  <2>1. Cardinality(Current(k) \cup Past(k))
          = Cardinality(Current(k)) + Cardinality(Past(k)) - Cardinality(Current(k) \cap Past(k))
    BY <1>3, FS_Union
  <2>2. Cardinality(Current(k) \cap Past(k)) = 0
    BY <1>4, FS_EmptySet
  <2> QED BY <1>3, <1>4, <2>1, <2>2
<1> QED BY <1>2, <1>3, <1>5, GateAssumption

-----------------------------------------------------------------------------
(* The call.                                                               *)

(* Where a call is, and what it may know there.                            *)
CallTypeOK ==
  /\ pc \in {"idle", "create", "created", "cancel"} \cup Waiting
  /\ target \in Ids \cup {NoId}
  /\ seen \in Statuses
  /\ waited \in Nat
  /\ timer \in 0..Larger(Poll, RequestTimeout)
  /\ settled \in BOOLEAN
  /\ report \in Statuses \cup {"none", "error"}

Informed == {"created"} \cup Waiting

(* A status the call has seen, or reported, can lead to the present one.   *)
Truthful ==
  /\ pc = "cancel" => target \in Ids
  /\ pc # "idle" => report = "none"
  /\ pc \in Informed => target \in Ids /\ seen # "absent" /\ Reaches(seen, status[target])
  /\ report # "absent"
  /\ ReportIsTrue

(* Time spent so far and time still to be spent, at each place.            *)
Rounds == Lesser(Wait, ElicitTimeout + 1) - 1

Timed ==
  /\ pc \notin Waiting => waited = 0 /\ timer = 0 /\ ~settled
  /\ pc \in Waiting => Wait > 0
  /\ pc \in Waiting /\ ~settled => waited <= ElicitTimeout
  /\ pc \in Closing => timer = 0
  /\ pc = "delay" => waited + timer <= Rounds + Poll
  /\ pc = "poll" => waited + timer <= Rounds + Poll + RequestTimeout
  /\ waited <= WaitBound

CallInv == CallTypeOK /\ Truthful /\ Timed /\ NoEarlyGiveUp

WaitInv == GateInv /\ CallInv

LEMMA InitWaitInv ==
  ASSUME Init PROVE WaitInv
<1>1. GateInv
  BY InitGateInv DEF Init
<1>2. CallTypeOK
  <2>1. 0 \in 0..Larger(Poll, RequestTimeout)
    BY WaitAssumption DEF Larger
  <2> QED BY <2>1 DEF Init, CallTypeOK, Waiting, Statuses
<1>3. Truthful /\ NoEarlyGiveUp
  BY DEF Init, Truthful, NoEarlyGiveUp, ReportIsTrue, Informed, Waiting, Looping, Closing
<1>4. Timed
  BY WaitAssumption DEF Init, Timed, WaitBound, Rounds, Lesser, Larger,
    Waiting, Looping, Closing
<1> QED BY <1>1, <1>2, <1>3, <1>4 DEF WaitInv, CallInv

(* What has been seen stays true, whoever moves the proposal.              *)
LEMMA StaysTrue ==
  ASSUME GateTypeOK, GateTypeOK', GateStep, NEW p \in Ids, NEW x \in Statuses \ {"absent"},
         Reaches(x, status[p])
  PROVE  Reaches(x, status'[p])
<1>1. Moves(p)
  BY GateMoves
<1> QED BY <1>1 DEF Moves, Born, Reaches, CanBecome, Statuses, GateTypeOK

(* Steps of the gate that leave the call where it is.                      *)
LEMMA GateKeepsCall ==
  ASSUME WaitInv, GateStep, UNCHANGED callVars
  PROVE  CallInv'
<1>1. GateTypeOK /\ GateTypeOK'
  BY GateStepKeeps DEF WaitInv, GateInv
<1>2. CallTypeOK' /\ Timed' /\ NoEarlyGiveUp'
  BY DEF WaitInv, CallInv, callVars, CallTypeOK, Timed, NoEarlyGiveUp
<1>3. Truthful'
  <2>1. CallTypeOK /\ Truthful
    BY DEF WaitInv, CallInv
  <2>2. pc \in Informed => Reaches(seen, status'[target])
    BY <1>1, <2>1, StaysTrue DEF CallTypeOK, Truthful
  <2>3. report \notin {"none", "error"} => Reaches(report, status'[target])
    BY <1>1, <2>1, StaysTrue DEF CallTypeOK, Truthful, ReportIsTrue
  <2> QED BY <2>1, <2>2, <2>3 DEF Truthful, ReportIsTrue, callVars
<1> QED BY <1>2, <1>3 DEF CallInv

LEMMA WaitFacts ==
  /\ WaitBound \in Nat
  /\ ElicitTimeout <= WaitBound
  /\ Wait > 0 => Rounds \in Nat /\ Rounds + Poll + RequestTimeout <= WaitBound
BY WaitAssumption DEF WaitBound, Rounds, Lesser, Larger

LEMMA ZeroTimer == 0 \in 0..Larger(Poll, RequestTimeout)
BY WaitAssumption DEF Larger

LEMMA ReturnKeeps ==
  ASSUME WaitInv, NEW what \in (Statuses \ {"absent"}) \cup {"error"}, Return(what),
         target' = target,
         what # "error" => target \in Ids /\ Reaches(what, status'[target])
  PROVE  CallInv'
<1>1. CallTypeOK'
  BY ZeroTimer DEF WaitInv, CallInv, CallTypeOK, Return, Statuses
<1>2. Truthful' /\ NoEarlyGiveUp'
  BY DEF Return, Truthful, NoEarlyGiveUp, ReportIsTrue, Informed, Waiting, Looping, Closing
<1>3. Timed'
  BY WaitFacts DEF Return, Timed, Waiting, Looping, Closing
<1> QED BY <1>1, <1>2, <1>3 DEF CallInv

LEMMA CallStep ==
  ASSUME WaitInv, NEW tool, NEW p, Call(tool, p),
         \/ tool = "create" /\ p = NoId
         \/ tool = "cancel" /\ p \in Ids
  PROVE  GateStep /\ CallInv'
BY DEF Call, GateStep, WaitInv, CallInv, CallTypeOK, Truthful, Timed, NoEarlyGiveUp,
  ReportIsTrue, Informed, Waiting, Looping, Closing, Statuses

LEMMA StoredStep ==
  ASSUME WaitInv, NEW p \in Ids, Stored(p)
  PROVE  GateStep /\ CallInv'
<1>1. GateStep
  BY DEF Stored, GateStep, GateNext
<1>2. status'[p] \in Statuses /\ status'[p] # "absent"
  BY DEF Stored, Create, gateVars, WaitInv, GateInv, GateTypeOK, Statuses
<1>3. CallTypeOK'
  BY <1>2 DEF Stored, WaitInv, CallInv, CallTypeOK
<1>4. Truthful'
  BY <1>2 DEF Stored, WaitInv, CallInv, Truthful, ReportIsTrue, Reaches, Informed,
    Waiting, Looping, Closing
<1>5. Timed' /\ NoEarlyGiveUp'
  BY DEF Stored, WaitInv, CallInv, Timed, NoEarlyGiveUp, Waiting,
    Looping, Closing
<1> QED BY <1>1, <1>3, <1>4, <1>5 DEF CallInv

LEMMA AnswerStep ==
  ASSUME WaitInv,
         CreateFails \/ CancelAnswered \/ \E elicits \in BOOLEAN : CreateAnswered(elicits)
  PROVE  GateStep /\ CallInv'
<1> CallTypeOK /\ Truthful /\ GateTypeOK
  BY DEF WaitInv, CallInv, GateInv
<1>1. CASE CreateFails
  BY <1>1, ReturnKeeps DEF CreateFails, GateStep
<1>2. CASE CancelAnswered
  <2>1. GateStep /\ target' = target /\ target \in Ids
    BY <1>2 DEF CancelAnswered, GateStep, GateNext, Truthful
  <2>2. Return("error") \/ Return("cancelled")
    BY <1>2 DEF CancelAnswered
  <2>3. Return("cancelled") => status'[target] = "cancelled"
    BY <1>2, <2>1 DEF CancelAnswered, ApiCancel, Settle, gateVars, GateTypeOK, Return
  <2> QED BY <2>1, <2>2, <2>3, ReturnKeeps DEF Reaches, Statuses
<1>3. ASSUME NEW elicits \in BOOLEAN, CreateAnswered(elicits)
      PROVE  GateStep /\ CallInv'
  <2>1. GateStep /\ target' = target /\ status' = status /\ pc = "created"
    BY <1>3 DEF CreateAnswered, GateStep, gateVars
  <2>2. CASE elicits /\ Wait > 0
    <3>1. pc' = "delay" /\ timer' = Poll /\ UNCHANGED <<seen, waited, settled, report>>
      BY <1>3, <2>2 DEF CreateAnswered
    <3>2. CallTypeOK'
      BY <2>1, <3>1, WaitAssumption DEF CallTypeOK, Larger, Waiting, Looping
    <3>3. Truthful' /\ NoEarlyGiveUp'
      BY <2>1, <3>1 DEF Truthful, NoEarlyGiveUp, ReportIsTrue, Informed, Waiting,
        Looping, Closing
    <3>4. waited = 0 /\ ~settled
      BY <2>1 DEF WaitInv, CallInv, Timed, Waiting, Looping, Closing
    <3>5. Timed'
      BY <2>2, <3>1, <3>4, WaitFacts, WaitAssumption DEF Timed, Waiting, Looping, Closing
    <3> QED BY <2>1, <3>2, <3>3, <3>5 DEF CallInv
  <2>3. CASE ~(elicits /\ Wait > 0)
    <3>1. Return(seen)
      BY <1>3, <2>3 DEF CreateAnswered
    <3>2. seen \in Statuses \ {"absent"} /\ target \in Ids /\ Reaches(seen, status[target])
      BY <2>1 DEF CallTypeOK, Truthful, Informed
    <3> QED BY <2>1, <3>1, <3>2, ReturnKeeps
  <2> QED BY <2>2, <2>3
<1> QED BY <1>1, <1>2, <1>3

(* A step of awaitApproval to another place of its loop.                   *)
LEMMA LoopStep ==
  ASSUME WaitInv, StartPoll \/ (pc = "poll" /\ NextRound)
  PROVE  GateStep /\ CallInv'
<1> CallTypeOK /\ Truthful /\ Timed /\ Wait > 0 /\ Rounds \in Nat
  BY WaitFacts DEF WaitInv, CallInv, StartPoll, Timed, Waiting, Looping
<1>1. /\ GateStep /\ status' = status
      /\ UNCHANGED <<target, seen, waited, settled, report>>
  BY DEF StartPoll, NextRound, Goto, GateStep, gateVars
<1>2. \/ pc' = "delay" /\ timer' = Poll /\ ~settled /\ waited < Wait
      \/ pc' = "gaveUp" /\ timer' = 0 /\ (settled \/ waited >= Wait)
      \/ pc' = "poll" /\ timer' = RequestTimeout /\ pc = "delay" /\ timer = 0
  BY WaitAssumption DEF StartPoll, NextRound, Goto, GoesOn, CallTypeOK
<1>3. pc \in Looping
  BY DEF StartPoll, Looping
<1>4. CallTypeOK'
  <2>1. {0, Poll, RequestTimeout} \subseteq 0..Larger(Poll, RequestTimeout)
    BY WaitAssumption DEF Larger
  <2> QED BY <1>1, <1>2, <2>1 DEF CallTypeOK, Waiting, Looping, Closing
<1>5. Truthful'
  BY <1>1, <1>2, <1>3 DEF Truthful, ReportIsTrue, Informed, Waiting, Looping, Closing
<1>6. NoEarlyGiveUp'
  BY <1>1, <1>2 DEF NoEarlyGiveUp
<1>7. Timed'
  <2>1. waited' <= WaitBound
    BY <1>1 DEF Timed
  <2>2. pc' = "delay" => waited' + timer' <= Rounds + Poll
    BY <1>1, <1>2, <1>3, WaitAssumption
    DEF Timed, Rounds, Lesser, CallTypeOK, Waiting
  <2>3. pc' = "poll" => waited' + timer' <= Rounds + Poll + RequestTimeout
    BY <1>1, <1>2, WaitAssumption DEF Timed, CallTypeOK
  <2> QED BY <1>1, <1>2, <1>3, <2>1, <2>2, <2>3 DEF Timed, Waiting, Looping, Closing
<1> QED BY <1>1, <1>4, <1>5, <1>6, <1>7 DEF CallInv

LEMMA PollStep ==
  ASSUME WaitInv, PollAnswered \/ PollFails
  PROVE  GateStep /\ CallInv'
<1> CallTypeOK /\ Truthful /\ Timed
  BY DEF WaitInv, CallInv
<1>1. pc = "poll" /\ target \in Ids /\ Wait > 0
  BY DEF PollAnswered, PollFails, Truthful, Timed, Informed, Waiting, Looping
<1>2. CASE NextRound
  BY <1>1, <1>2, LoopStep
<1>3. CASE PollAnswered /\ status[target] # "pending_approval"
  <2>1. /\ GateStep /\ status' = status /\ pc' = "found" /\ timer' = 0
        /\ seen' = status[target]
        /\ UNCHANGED <<target, waited, settled, report>>
    BY <1>3 DEF PollAnswered, GateStep, gateVars
  <2>2. status[target] \in Statuses /\ status[target] # "absent"
    BY <1>1 DEF WaitInv, GateInv, GateTypeOK, Truthful, Reaches, CanBecome, Informed,
      Waiting, Looping
  <2>3. Truthful'
    BY <1>1, <2>1, <2>2 DEF Truthful, ReportIsTrue, Reaches, Informed, Waiting,
      Looping, Closing
  <2>4. CallTypeOK' /\ NoEarlyGiveUp'
    BY <2>1, <2>2, ZeroTimer DEF CallTypeOK, NoEarlyGiveUp, Waiting, Closing
  <2>5. Timed'
    BY <1>1, <2>1 DEF Timed, Waiting, Looping, Closing
  <2> QED BY <2>1, <2>3, <2>4, <2>5 DEF CallInv
<1> QED BY <1>2, <1>3 DEF PollAnswered, PollFails, AfterPollError

LEMMA ElicitedStep ==
  ASSUME WaitInv, Elicited
  PROVE  GateStep /\ CallInv'
<1>1. /\ GateStep /\ status' = status /\ settled' = TRUE /\ seen' = seen
      /\ UNCHANGED <<pc, target, waited, timer, report>>
  BY DEF Elicited, SeenWhenSettled, GateStep, gateVars
<1> QED BY <1>1 DEF Elicited, WaitInv, CallInv, CallTypeOK, Truthful, Timed, NoEarlyGiveUp,
  ReportIsTrue

LEMMA CloseStep ==
  ASSUME WaitInv, Close
  PROVE  GateStep /\ CallInv'
<1>1. GateStep /\ status' = status /\ target' = target /\ Return(seen) /\ pc \in Informed
  BY DEF Close, GateStep, gateVars, Informed, Waiting
<1>2. seen \in Statuses \ {"absent"} /\ target \in Ids /\ Reaches(seen, status[target])
  BY <1>1 DEF WaitInv, CallInv, CallTypeOK, Truthful
<1> QED BY <1>1, <1>2, ReturnKeeps

LEMMA TickStep ==
  ASSUME WaitInv, Tick
  PROVE  GateStep /\ CallInv'
<1> CallTypeOK /\ Truthful /\ Timed /\ NoEarlyGiveUp /\ WaitBound \in Nat
  BY WaitFacts DEF WaitInv, CallInv
<1>1. /\ GateStep /\ status' = status /\ waited' = waited + 1
      /\ UNCHANGED <<pc, target, seen, settled, report>>
  BY DEF Tick, GateStep, gateVars
<1>2. pc \in Waiting /\ Wait > 0
  BY DEF Tick, Timed
<1>3. pc \in {"delay", "poll"} => timer > 0 /\ timer' = timer - 1
  BY DEF Tick, Due, CallTypeOK
<1>4. pc \in Closing => ~settled /\ timer' = 0
  BY DEF Tick, Due, Timed, Closing
<1>5. pc \in Closing \cup {"delay", "poll"}
  BY <1>2 DEF Tick, Due, Waiting, Looping
<1>6. ~settled => waited < ElicitTimeout
  BY <1>2, WaitAssumption DEF Tick, Due, CallTypeOK
<1>7. timer' \in 0..Larger(Poll, RequestTimeout)
  BY WaitAssumption DEF Tick, CallTypeOK, Larger
<1>8. CallTypeOK' /\ Truthful'
  BY <1>1, <1>7 DEF CallTypeOK, Truthful, ReportIsTrue
<1>9. NoEarlyGiveUp'
  BY <1>1, WaitAssumption DEF NoEarlyGiveUp, CallTypeOK
<1>10. ~settled' => waited' <= ElicitTimeout
  BY <1>1, <1>6, WaitAssumption DEF CallTypeOK
<1>11. /\ pc = "delay" => waited' + timer' <= Rounds + Poll
       /\ pc = "poll" => waited' + timer' <= Rounds + Poll + RequestTimeout
  BY <1>1, <1>2, <1>3, WaitFacts, WaitAssumption DEF Timed, CallTypeOK
<1>12. waited' <= WaitBound
  <2>1. CASE pc \in Closing
    BY <1>1, <1>4, <1>10, <2>1, WaitFacts, WaitAssumption DEF CallTypeOK
  <2>2. CASE pc \in {"delay", "poll"}
    BY <1>1, <1>2, <1>7, <1>11, <2>2, WaitFacts, WaitAssumption DEF CallTypeOK
  <2> QED BY <1>5, <2>1, <2>2
<1>13. Timed'
  BY <1>1, <1>2, <1>4, <1>5, <1>10, <1>11, <1>12 DEF Timed, Closing
<1> QED BY <1>1, <1>8, <1>9, <1>13 DEF CallInv

LEMMA CallNextStep ==
  ASSUME WaitInv, CallNext
  PROVE  GateStep /\ CallInv'
<1>1. ASSUME NEW p \in Ids, CallCancel(p)
      PROVE  GateStep /\ CallInv'
  BY <1>1, CallStep DEF CallCancel
<1>2. ASSUME Propose \/ \E p \in Ids : Restore(p)
      PROVE  GateStep /\ CallInv'
  BY <1>2, CallStep DEF Propose, Restore
<1> QED BY <1>1, <1>2, StoredStep, AnswerStep, LoopStep, PollStep,
  ElicitedStep, CloseStep, TickStep DEF CallNext

(* Every step is one of the gate: a call does there what anyone may do.    *)
LEMMA StepIsGateStep ==
  ASSUME WaitInv, [Next]_vars
  PROVE  GateStep
BY CallNextStep DEF Next, vars, GateStep

LEMMA StepWaitInv ==
  ASSUME WaitInv, [Next]_vars
  PROVE  WaitInv'
<1>1. CASE UNCHANGED vars
  BY <1>1, GateKeepsCall, GateStepKeeps DEF vars, GateStep, WaitInv
<1>2. CASE (GateNext \/ LimiterTick) /\ UNCHANGED callVars
  BY <1>2, GateKeepsCall, GateStepKeeps DEF GateStep, WaitInv
<1>3. CASE CallNext
  BY <1>3, CallNextStep, GateStepKeeps DEF WaitInv
<1> QED BY <1>1, <1>2, <1>3 DEF Next

(* The inductive invariant: what the gate and the call know of each other. *)
THEOREM AlwaysWaitInv == Spec => []WaitInv
BY InitWaitInv, StepWaitInv, PTL DEF Spec

THEOREM AlwaysLimiterInv == Spec => []LimiterInv
<1>1. Init => LimiterInv
  BY InitLimiterInv DEF Init
<1>2. ASSUME WaitInv, WaitInv', LimiterInv, [Next]_vars PROVE LimiterInv'
  BY <1>2, StepIsGateStep, LimiterStepKeeps DEF WaitInv, GateInv
<1> QED BY <1>1, <1>2, AlwaysWaitInv, PTL DEF Spec

-----------------------------------------------------------------------------
(* The properties.                                                         *)

(* The variables of the gate and of the call keep their types.             *)
THEOREM WaitTypeCorrect == Spec => []TypeOK
<1>1. WaitInv => TypeOK
  BY DEF WaitInv, GateInv, CallInv, CallTypeOK, TypeOK
<1> QED BY <1>1, AlwaysWaitInv, PTL

(* Approvals and cancellations over the routes, by whomever and however    *)
(* late their second call comes, leave each proposal on its way through    *)
(* ProposalLife, the contract that the Worker's store implements.          *)
THEOREM GateFollowsLife == Spec => LifeSpec
<1>1. Init => LifeInit
  BY DEF Init, GateInit
<1>2. ASSUME WaitInv, [Next]_vars PROVE [LifeNext]_status
  <2>1. \A p \in Ids : Moves(p)
    BY <1>2, StepIsGateStep, GateMoves DEF WaitInv, GateInv
  <2> QED BY <2>1 DEF LifeNext, Moves
<1> QED BY <1>1, <1>2, AlwaysWaitInv, PTL DEF Spec, LifeSpec

(* A proposal that the Worker carries out was meant to be approved by      *)
(* someone who holds the secret.                                           *)
THEOREM OnlyIntendedApprovals == Spec => []ApprovedAsIntended
<1>1. WaitInv => ApprovedAsIntended
  BY DEF WaitInv, GateInv
<1> QED BY <1>1, AlwaysWaitInv, PTL

(* No client has more than twice the limit of secrets compared in any      *)
(* stretch of windowMs, whichever routes it uses.                          *)
THEOREM GuessesAreBounded == Spec => []GuessesBounded
BY AlwaysLimiterInv, GuessesFit, PTL

(* A client that is over the limit has a window that ends, that its own    *)
(* attempts do not prolong, and with which the limit on it ends: what      *)
(* LockoutEnds rests on besides a clock that runs.                         *)
LockoutShrinks(k) ==
  Blocked(k) =>
    /\ resetIn[k] > 0
    /\ resetIn'[k] <= resetIn[k]
    /\ LimiterTick => resetIn'[k] = resetIn[k] - 1
    /\ resetIn'[k] = 0 => ~Blocked(k)'

THEOREM LockoutsShrink == Spec => [][\A k \in Clients : LockoutShrinks(k)]_vars
<1>1. ASSUME LimiterInv, LimiterInv', GateStep, NEW k \in Clients
      PROVE  LockoutShrinks(k)
  <2>1. /\ resetIn[k] \in Nat /\ hits[k] \in Nat /\ Limit \in Nat \ {0}
        /\ resetIn[k] = 0 => hits[k] = 0
        /\ resetIn'[k] = 0 => hits'[k] = 0
    BY <1>1, GateAssumption DEF LimiterInv, LimiterFits, GateTypeOK
  <2>2. Blocked(k) => resetIn[k] > 0
    BY <2>1 DEF Blocked
  <2>3. resetIn'[k] = 0 => ~Blocked(k)'
    BY <2>1 DEF Blocked
  <2>4. ASSUME NEW j \in Clients, Hit(j) PROVE resetIn[k] > 0 => resetIn'[k] = resetIn[k]
    BY <1>1, <2>4, <2>1 DEF Hit, WindowAfter, LimiterInv, GateTypeOK
  <2>5. LimiterTick /\ resetIn[k] > 0 => resetIn'[k] = resetIn[k] - 1
    BY DEF LimiterTick
  <2>6. CASE LimiterTick
    BY <2>1, <2>2, <2>3, <2>5, <2>6 DEF LockoutShrinks
  <2>7. CASE ~LimiterTick
    <3>1. resetIn[k] > 0 => resetIn'[k] = resetIn[k]
      BY <1>1, <2>4, <2>7 DEF GateStep, GateNext, Refuse, Submit, AppSubmit, Decide,
        Expire, Carry, ApiCancel, Create, Settle, gateVars, limiterVars
    <3> QED BY <2>1, <2>2, <2>3, <2>7, <3>1 DEF LockoutShrinks
  <2> QED BY <2>6, <2>7
<1>2. ASSUME WaitInv, LimiterInv, LimiterInv', [Next]_vars
      PROVE  \A k \in Clients : LockoutShrinks(k)
  BY <1>1, <1>2, StepIsGateStep
<1> QED BY <1>2, AlwaysWaitInv, AlwaysLimiterInv, PTL DEF Spec

(* However long the client takes, a wait ends; and past APPROVAL_WAIT_MS   *)
(* and one round of the loop it only waits for the elicitation to end.     *)
THEOREM CallsAreBounded == Spec => []WaitBounded
<1>1. WaitInv => WaitBounded
  <2> SUFFICES ASSUME WaitInv, waited >= Wait + Poll + RequestTimeout
               PROVE  pc \in Closing
    BY DEF WaitInv, CallInv, Timed, WaitBounded
  <2>1. CallTypeOK /\ Timed
    BY DEF WaitInv, CallInv
  <2>2. pc \in Waiting /\ Wait > 0 /\ Rounds < Wait /\ Rounds \in Nat
    BY <2>1, WaitFacts, WaitAssumption DEF Timed, Rounds, Lesser
  <2>3. pc # "delay" /\ pc # "poll"
    BY <2>1, <2>2, WaitAssumption DEF Timed, CallTypeOK
  <2> QED BY <2>2, <2>3 DEF Waiting, Looping
<1> QED BY <1>1, AlwaysWaitInv, PTL

(* What a call tells the conversation is, or was, so.                      *)
THEOREM ReportsAreTrue == Spec => []ReportIsTrue
<1>1. WaitInv => ReportIsTrue
  BY DEF WaitInv, CallInv, Truthful
<1> QED BY <1>1, AlwaysWaitInv, PTL

(* Failed polls alone never end a wait.                                    *)
THEOREM WaitsAreNotCutByPolls == Spec => []NoEarlyGiveUp
<1>1. WaitInv => NoEarlyGiveUp
  BY DEF WaitInv, CallInv
<1> QED BY <1>1, AlwaysWaitInv, PTL

(* How far a wait is from its end: the time it has left first, then the    *)
(* elicitation, then its place in the loop.  From a poll the loop goes to  *)
(* a delay that has yet to run, and from there only time leads on.         *)
Place ==
  CASE pc = "delay" /\ timer = 0 -> 5
    [] pc = "poll" -> 4
    [] pc = "delay" /\ timer # 0 -> 3
    [] OTHER -> 2

Remaining ==
  IF pc \in Waiting
  THEN 8 * (WaitBound - waited) + (IF settled THEN 0 ELSE 1) + Place
  ELSE 0

LEMMA RemainingIsNatural ==
  ASSUME WaitInv
  PROVE  Remaining \in Nat
BY WaitFacts DEF WaitInv, CallInv, CallTypeOK, Timed, Remaining, Place

(* Whatever a waiting call does brings it closer to its end, so that it    *)
(* does finitely much, however its client, the Worker and the network      *)
(* behave: what CallReturns rests on besides timers that run.              *)
THEOREM WaitsComeToAnEnd ==
  Spec => /\ [](Remaining \in Nat)
          /\ [][(pc \in Waiting /\ callVars' # callVars) => (Remaining' < Remaining)]_vars
<1>1. ASSUME WaitInv, WaitInv', [Next]_vars, pc \in Waiting, callVars' # callVars
      PROVE  Remaining' < Remaining
  <2> waited \in Nat /\ waited <= WaitBound /\ WaitBound \in Nat /\ settled \in BOOLEAN
    BY <1>1, WaitFacts DEF WaitInv, CallInv, CallTypeOK, Timed, WaitBounded
  <2>1. ASSUME pc' = "idle" PROVE Remaining' < Remaining
    BY <1>1, <2>1 DEF Remaining, Place, Waiting, Looping, Closing
  <2>3. CASE StartPoll
    BY <2>3 DEF StartPoll, Goto, Remaining, Place, Waiting, Looping, Closing
  <2>4. CASE PollAnswered \/ PollFails
    BY <2>4, WaitAssumption DEF PollAnswered, PollFails, AfterPollError, NextRound, Goto,
      Remaining, Place, Waiting, Looping, Closing
  <2>5. CASE Elicited
    BY <2>5 DEF Elicited, Remaining, Place
  <2>6. CASE Tick
    <3>1. waited' = waited + 1 /\ settled' = settled /\ pc' = pc
      BY <2>6 DEF Tick
    <3>2. Place' <= Place + 2 /\ Place \in Nat /\ Place' \in Nat
      BY <3>1 DEF Place
    <3>3. Remaining = 8 * (WaitBound - waited) + (IF settled THEN 0 ELSE 1) + Place
      BY <1>1 DEF Remaining
    <3>4. Remaining' = 8 * (WaitBound - (waited + 1)) + (IF settled THEN 0 ELSE 1) + Place'
      BY <1>1, <3>1 DEF Remaining
    <3>5. \A w, b, t, p, q \in Int :
            q <= p + 2 => 8 * (b - (w + 1)) + t + q < 8 * (b - w) + t + p
      OBVIOUS
    <3>6. (IF settled THEN 0 ELSE 1) \in Int /\ Place \in Int /\ Place' \in Int
          /\ waited \in Int /\ WaitBound \in Int
      BY <3>2
    <3> QED BY <3>2, <3>3, <3>4, <3>5, <3>6
  <2>7. CASE Close
    BY <2>1, <2>7 DEF Close, Return
  <2> QED BY <1>1, <2>3, <2>4, <2>5, <2>6, <2>7
    DEF Next, CallNext, vars, Propose, Restore, CallCancel, Call, Stored, CreateFails,
      CreateAnswered, CancelAnswered, Waiting, Looping, Closing
<1> QED BY <1>1, RemainingIsNatural, AlwaysWaitInv, PTL DEF Spec
=============================================================================
