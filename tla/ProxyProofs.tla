------------------------------ MODULE ProxyProofs ------------------------------
(***************************************************************************)
(* Theorems about ProxyExchange and the sessions it leads to, for any      *)
(* finite sets of connections and session ids, any limit and idle time,    *)
(* and any number of failures.                                             *)
(***************************************************************************)
EXTENDS ProxyExchange, FiniteSetTheorems, TLAPS

-----------------------------------------------------------------------------
(* The table of sessions, whoever takes its steps.                         *)

(* Nobody asks anything.                                                   *)
Unasked ==
  \/ UNCHANGED sessionVars
  \/ \E c \in Conns : InitRejected(c) \/ Fails(c) \/ Finish(c)
  \/ \E c \in Conns : \E s \in Sids : Initialised(c, s)
  \/ \E C \in SUBSET Conns : Hangup(C)
  \/ Sweep
  \/ Tick
  \/ \E arriving \in SUBSET Conns : Signal(arriving)
  \/ \E c \in Conns : KeepAliveEnds(c)
  \/ Exit
  \/ Killed

(* No connection gets busy.                                                *)
Others == Unasked \/ \E s \in Sids : Touch(s) \/ Delete(s)

SessionStep ==
  \/ Others
  \/ \E c \in Conns : Initialise(c)
  \/ \E c \in Conns : \E s \in Sids : \E kind \in {"call", "stream"} :
       Request(c, s, kind)

(* A connection names a session of the Map or none.                        *)
OnFits == \A c \in Conns : on[c] \in sessions \cup {NoSid}

SessionsInv ==
  /\ SessionsTypeOK
  /\ NoOrphans
  /\ OnFits
  /\ AgeCoversQuiet

LEMMA LaterFits ==
  ASSUME NEW n \in Ticks PROVE Later(n) \in Ticks /\ Later(n) > 0 /\ n <= Later(n)
BY SessionsAssumption DEF Ticks, Later

LEMMA LaterMonotone ==
  ASSUME NEW m \in Ticks, NEW n \in Ticks, m <= n PROVE Later(m) <= Later(n)
BY SessionsAssumption DEF Ticks, Later

(* Releasing all the connections of the sessions that go keeps the rest.   *)
LEMMA DropKeeps ==
  ASSUME SessionsInv, NEW S \in SUBSET Sids, NEW C \in SUBSET Conns,
         Forget(S), Release(C), actions' \in Processes, sockets' \subseteq Conns,
         \A c \in Conns : on[c] \in S => c \in C
  PROVE  SessionsInv'
<1>1. 0 \in Ticks
  BY SessionsAssumption DEF Ticks
<1>2. SessionsTypeOK'
  BY <1>1 DEF SessionsInv, SessionsTypeOK, Forget, Release
<1>3. NoOrphans' /\ OnFits'
  BY SessionsAssumption
  DEF SessionsInv, SessionsTypeOK, NoOrphans, OnFits, Forget, Release, Served
<1>4. AgeCoversQuiet'
  <2> SUFFICES ASSUME NEW c \in Conns, conn'[c] \in Served
               PROVE  quiet'[on'[c]] <= age'[c]
    BY DEF AgeCoversQuiet
  <2>1. c \notin C /\ conn'[c] = conn[c] /\ on'[c] = on[c] /\ age'[c] = age[c]
    BY DEF Release, Served, SessionsInv, SessionsTypeOK
  <2>2. on[c] \in sessions \ S
    BY <2>1 DEF SessionsInv, NoOrphans
  <2>3. quiet'[on[c]] = quiet[on[c]]
    BY <2>2 DEF Forget, SessionsInv, SessionsTypeOK
  <2> QED BY <2>1, <2>3 DEF SessionsInv, AgeCoversQuiet
<1> QED BY <1>2, <1>3, <1>4 DEF SessionsInv

LEMMA ForgetNothing ==
  ASSUME SessionsTypeOK, UNCHANGED <<sessions, quiet>> PROVE Forget({})
BY DEF Forget, SessionsTypeOK

LEMMA DropStep ==
  ASSUME SessionsInv, NEW S \in SUBSET sessions, Drop(S), UNCHANGED <<actions, sockets>>
  PROVE  SessionsInv'
<1>1. /\ Open(S) \in SUBSET Conns /\ S \in SUBSET Sids
      /\ actions' \in Processes /\ sockets' \subseteq Conns
  BY DEF Open, SessionsInv, SessionsTypeOK
<1> QED BY <1>1, DropKeeps DEF Drop, Open

LEMMA ReleaseStep ==
  ASSUME SessionsInv, NEW c \in Conns, Release({c}),
         UNCHANGED <<sessions, quiet, actions, sockets>>
  PROVE  SessionsInv'
<1>1. Forget({}) /\ actions' \in Processes /\ sockets' \subseteq Conns
  BY ForgetNothing DEF SessionsInv, SessionsTypeOK
<1> QED BY <1>1, DropKeeps

LEMMA InitialisedStep ==
  ASSUME SessionsInv, NEW c \in Conns, NEW s \in Sids, Initialised(c, s)
  PROVE  SessionsInv'
<1>1. 0 \in Ticks
  BY SessionsAssumption DEF Ticks
<1>2. \A d \in Conns : on[d] # s
  BY SessionsAssumption DEF Initialised, SessionsInv, OnFits
<1>3. conn[c] \notin Served
  BY DEF Initialised, Served
<1>4. SessionsTypeOK'
  BY <1>1 DEF SessionsInv, SessionsTypeOK, Initialised, Release, Served
<1>5. NoOrphans' /\ OnFits'
  BY <1>2, <1>3, SessionsAssumption
  DEF SessionsInv, SessionsTypeOK, NoOrphans, OnFits, Initialised, Release, Served
<1>6. AgeCoversQuiet'
  <2> SUFFICES ASSUME NEW d \in Conns, conn'[d] \in Served
               PROVE  quiet'[on'[d]] <= age'[d]
    BY DEF AgeCoversQuiet
  <2>1. CASE d = c
    <3>1. on'[c] = s /\ quiet'[s] = 0 /\ age'[c] \in Ticks
      BY <2>1, <1>4 DEF Initialised, Release, Served, SessionsInv, SessionsTypeOK
    <3> QED BY <2>1, <3>1 DEF Ticks
  <2>2. CASE d # c
    <3>1. conn'[d] = conn[d] /\ on'[d] = on[d] /\ age'[d] = age[d]
      BY <2>2 DEF Initialised, Release, SessionsInv, SessionsTypeOK
    <3>2. quiet'[on[d]] = quiet[on[d]]
      BY <1>2 DEF Initialised, SessionsInv, SessionsTypeOK
    <3> QED BY <3>1, <3>2 DEF SessionsInv, AgeCoversQuiet
  <2> QED BY <2>1, <2>2
<1> QED BY <1>4, <1>5, <1>6 DEF SessionsInv

LEMMA ConnectsFits ==
  ASSUME SessionsTypeOK, NEW c \in Conns, Connects(c)
  PROVE  sockets' \subseteq Conns
BY DEF SessionsTypeOK, Connects, Spare

LEMMA RequestStep ==
  ASSUME SessionsInv, NEW c \in Conns, NEW s \in Sids,
         NEW kind \in {"call", "stream"}, Request(c, s, kind)
  PROVE  SessionsInv'
<1>1. 0 \in Ticks
  BY SessionsAssumption DEF Ticks
<1>2. SessionsTypeOK' /\ NoOrphans' /\ OnFits'
  BY <1>1, ConnectsFits
  DEF SessionsInv, SessionsTypeOK, NoOrphans, OnFits, Request, Seen, Served
<1>3. AgeCoversQuiet'
  <2> SUFFICES ASSUME NEW d \in Conns, conn'[d] \in Served
               PROVE  quiet'[on'[d]] <= age'[d]
    BY DEF AgeCoversQuiet
  <2>1. age'[d] = age[d] /\ age[d] \in Ticks
    BY DEF Request, SessionsInv, SessionsTypeOK
  <2>2. CASE on'[d] = s
    BY <2>1, <2>2 DEF Request, Seen, SessionsInv, SessionsTypeOK, Ticks
  <2>3. CASE on'[d] # s
    <3>1. d # c
      BY <2>3 DEF Request, SessionsInv, SessionsTypeOK
    <3>2. conn'[d] = conn[d] /\ on'[d] = on[d] /\ quiet'[on[d]] = quiet[on[d]]
      BY <2>3, <3>1 DEF Request, Seen, SessionsInv, SessionsTypeOK
    <3> QED BY <2>1, <3>2 DEF SessionsInv, AgeCoversQuiet
  <2> QED BY <2>2, <2>3
<1> QED BY <1>2, <1>3 DEF SessionsInv

LEMMA TouchStep ==
  ASSUME SessionsInv, NEW s \in Sids, Touch(s)
  PROVE  SessionsInv'
<1>1. 0 \in Ticks
  BY SessionsAssumption DEF Ticks
<1>2. SessionsTypeOK' /\ NoOrphans' /\ OnFits'
  BY <1>1 DEF SessionsInv, SessionsTypeOK, NoOrphans, OnFits, Touch, Seen,
    requestVars
<1>3. AgeCoversQuiet'
  <2> SUFFICES ASSUME NEW d \in Conns, conn[d] \in Served
               PROVE  quiet'[on[d]] <= age[d]
    BY DEF AgeCoversQuiet, Touch, requestVars
  <2>1. quiet'[on[d]] = quiet[on[d]] \/ quiet'[on[d]] = 0
    BY DEF Touch, Seen, SessionsInv, SessionsTypeOK
  <2> QED BY <2>1 DEF SessionsInv, AgeCoversQuiet, SessionsTypeOK, Ticks
<1> QED BY <1>2, <1>3 DEF SessionsInv

LEMMA HangupStep ==
  ASSUME SessionsInv, NEW C \in SUBSET Conns, Hangup(C)
  PROVE  SessionsInv'
<1>1. 0 \in Ticks
  BY SessionsAssumption DEF Ticks
<1>2. SessionsTypeOK'
  BY <1>1 DEF SessionsInv, SessionsTypeOK, Hangup, Served
<1>3. \A c \in Conns :
        IF c \in C
        THEN conn'[c] \notin Served /\ on'[c] = NoSid
        ELSE conn'[c] = conn[c] /\ on'[c] = on[c] /\ age'[c] = age[c]
  BY DEF Hangup, Served
<1>4. NoSid \notin sessions /\ UNCHANGED <<sessions, quiet>>
  BY SessionsAssumption DEF Hangup, SessionsInv, SessionsTypeOK
<1>5. NoOrphans' /\ OnFits'
  BY <1>3, <1>4 DEF SessionsInv, NoOrphans, OnFits
<1>6. AgeCoversQuiet'
  BY <1>3, <1>4 DEF SessionsInv, AgeCoversQuiet
<1> QED BY <1>2, <1>5, <1>6 DEF SessionsInv

LEMMA TickKeeps ==
  ASSUME SessionsInv, Tick
  PROVE  SessionsInv'
<1>1. 0 \in Ticks
  BY SessionsAssumption DEF Ticks
<1>2. SessionsTypeOK'
  BY <1>1, LaterFits DEF SessionsInv, SessionsTypeOK, Tick
<1>3. NoOrphans' /\ OnFits'
  BY DEF SessionsInv, NoOrphans, OnFits, Tick
<1>4. AgeCoversQuiet'
  <2> SUFFICES ASSUME NEW c \in Conns, conn[c] \in Served
               PROVE  quiet'[on[c]] <= age'[c]
    BY DEF AgeCoversQuiet, Tick
  <2>1. on[c] \in sessions /\ on[c] \in Sids
    BY DEF SessionsInv, SessionsTypeOK, NoOrphans
  <2>2. quiet'[on[c]] = Later(quiet[on[c]]) /\ age'[c] = Later(age[c])
    BY <2>1 DEF Tick
  <2>3. quiet[on[c]] \in Ticks /\ age[c] \in Ticks /\ quiet[on[c]] <= age[c]
    BY <2>1 DEF SessionsInv, SessionsTypeOK, AgeCoversQuiet
  <2> QED BY <2>2, <2>3, LaterMonotone
<1> QED BY <1>2, <1>3, <1>4 DEF SessionsInv

LEMMA SessionsStepKeeps ==
  ASSUME SessionsInv, SessionStep
  PROVE  SessionsInv'
<1>1. CASE UNCHANGED sessionVars
  BY <1>1 DEF sessionVars, requestVars, SessionsInv, SessionsTypeOK, NoOrphans,
    OnFits, AgeCoversQuiet
<1>2. ASSUME NEW c \in Conns, Initialise(c) PROVE SessionsInv'
  BY <1>2, ConnectsFits DEF Initialise, SessionsInv, SessionsTypeOK, NoOrphans, OnFits,
    AgeCoversQuiet, Served
<1>3. ASSUME NEW c \in Conns, InitRejected(c) \/ Finish(c) PROVE SessionsInv'
  BY <1>3, ReleaseStep DEF InitRejected, Finish
<1>4. ASSUME NEW c \in Conns, Fails(c) PROVE SessionsInv'
  <2>1. {on[c]} \in SUBSET sessions
    BY <1>4 DEF Fails, SessionsInv, NoOrphans, Served
  <2> QED BY <1>4, <2>1, DropStep DEF Fails
<1>5. ASSUME NEW s \in Sids, Delete(s) PROVE SessionsInv'
  BY <1>5, DropStep DEF Delete
<1>6. CASE Sweep
  BY <1>6, DropStep DEF Sweep, Idle
<1>7. ASSUME \/ \E arriving \in SUBSET Conns : Signal(arriving)
             \/ \E c \in Conns : KeepAliveEnds(c)
      PROVE  SessionsInv'
  BY <1>7 DEF Signal, KeepAliveEnds, Busy, requestVars, SessionsInv, SessionsTypeOK,
    NoOrphans, OnFits, AgeCoversQuiet, Processes
<1>8. CASE Exit \/ Killed
  <2>1. /\ Forget(sessions) /\ Release(Conns)
        /\ actions' \in Processes /\ sockets' \subseteq Conns
    BY <1>8 DEF Exit, Killed, Processes, SessionsInv, SessionsTypeOK
  <2>2. sessions \in SUBSET Sids
    BY DEF SessionsInv, SessionsTypeOK
  <2> QED BY <2>1, <2>2, DropKeeps
<1> QED BY <1>1, <1>2, <1>3, <1>4, <1>5, <1>6, <1>7, <1>8, InitialisedStep,
  RequestStep, TouchStep, HangupStep, TickKeeps DEF SessionStep, Others, Unasked

-----------------------------------------------------------------------------
(* The limit.                                                              *)

LEMMA FiniteTable ==
  ASSUME SessionsTypeOK
  PROVE  /\ IsFiniteSet(sessions) /\ Cardinality(sessions) \in Nat
         /\ IsFiniteSet(Pending) /\ Cardinality(Pending) \in Nat
         /\ Cardinality(Pending) <= Cardinality(Conns)
         /\ Cardinality(Conns) \in Nat
<1>1. sessions \in SUBSET Sids /\ Pending \in SUBSET Conns
  BY DEF SessionsTypeOK, Pending
<1> QED BY <1>1, SessionsAssumption, FS_Subset, FS_CardinalityType

LEMMA ShrinkKeepsLimit ==
  ASSUME SessionsTypeOK, OverCommitBounded,
         sessions' \subseteq sessions, Pending' \subseteq Pending
  PROVE  OverCommitBounded'
<1>1. /\ Cardinality(sessions') <= Cardinality(sessions)
      /\ Cardinality(Pending') <= Cardinality(Pending)
      /\ Cardinality(sessions') \in Nat
      /\ Cardinality(Pending') \in Nat
  BY FiniteTable, FS_Subset, FS_CardinalityType
<1> QED BY <1>1, FiniteTable, SessionsAssumption DEF OverCommitBounded

LEMMA InitialiseKeepsLimit ==
  ASSUME SessionsTypeOK, SessionsTypeOK', NEW c \in Conns, Initialise(c)
  PROVE  OverCommitBounded'
<1>1. Cardinality(sessions) < MaxSessions /\ sessions' = sessions
  BY FiniteTable, SessionsAssumption DEF Initialise, TooMany
<1>2. Cardinality(Pending') <= Cardinality(Conns) /\ Cardinality(Pending') \in Nat
  <2>1. Pending' \in SUBSET Conns
    BY DEF Pending
  <2> QED BY <2>1, SessionsAssumption, FS_Subset, FS_CardinalityType
<1> QED BY <1>1, <1>2, FiniteTable, SessionsAssumption DEF OverCommitBounded

LEMMA InitialisedKeepsLimit ==
  ASSUME SessionsTypeOK, OverCommitBounded,
         NEW c \in Conns, NEW s \in Sids, Initialised(c, s)
  PROVE  OverCommitBounded'
<1>1. c \in Pending /\ s \notin sessions /\ sessions' = sessions \cup {s}
  BY DEF Initialised, Pending
<1>2. Pending' = Pending \ {c}
  BY DEF Initialised, Pending, Release, SessionsTypeOK
<1>3. Cardinality(sessions') = Cardinality(sessions) + 1
  BY <1>1, FiniteTable, FS_AddElement
<1>4. Cardinality(Pending') = Cardinality(Pending) - 1
  BY <1>1, <1>2, FiniteTable, FS_RemoveElement
<1> QED BY <1>3, <1>4, FiniteTable, SessionsAssumption DEF OverCommitBounded

LEMMA LimitStep ==
  ASSUME SessionsInv, OverCommitBounded, SessionStep
  PROVE  OverCommitBounded'
<1>1. SessionsTypeOK /\ SessionsTypeOK'
  BY SessionsStepKeeps DEF SessionsInv
<1>2. ASSUME \/ UNCHANGED sessionVars
             \/ \E c \in Conns : InitRejected(c) \/ Fails(c) \/ Finish(c)
             \/ \E c \in Conns : \E s \in Sids :
                  \E kind \in {"call", "stream"} : Request(c, s, kind)
             \/ \E s \in Sids : Touch(s) \/ Delete(s)
             \/ \E C \in SUBSET Conns : Hangup(C)
             \/ \E arriving \in SUBSET Conns : Signal(arriving)
             \/ \E c \in Conns : KeepAliveEnds(c)
             \/ Sweep \/ Tick \/ Exit \/ Killed
      PROVE  sessions' \subseteq sessions /\ Pending' \subseteq Pending
  BY <1>1, <1>2 DEF sessionVars, requestVars, InitRejected, Fails, Finish, Request,
    Touch, Delete, Hangup, Sweep, Tick, Signal, KeepAliveEnds, Exit, Killed, Drop, Forget,
    Release, Pending, SessionsTypeOK
<1> QED BY <1>1, <1>2, ShrinkKeepsLimit, InitialiseKeepsLimit, InitialisedKeepsLimit
  DEF SessionStep, Others, Unasked

-----------------------------------------------------------------------------
(* The proxy takes the table's steps only.                                 *)

LEMMA UnaskedSteps ==
  ASSUME [Next]_vars, ~ActionsAsked
  PROVE  Unasked
<1>1. ASSUME NEW c \in Conns, Reset(c) \/ TimesOut(c) PROVE Unasked
  <2>1. Hangup({c}) /\ {c} \in SUBSET Conns
    BY <1>1 DEF Reset, TimesOut, BreakOff
  <2> QED BY <2>1 DEF Unasked
<1>2. CASE ProxyExit
  <2>1. Hangup(Waiting) /\ Waiting \in SUBSET Conns
    BY <1>2 DEF ProxyExit, Waiting
  <2> QED BY <2>1 DEF Unasked
<1>3. ASSUME NEW c \in Conns, Opens(c) \/ Answers(c) \/ SocketIdles(c) PROVE Unasked
  BY <1>3 DEF Opens, Answers, SocketIdles, Unasked
<1>4. CASE ActionsSignal
  BY <1>4 DEF ActionsSignal, Unasked
<1>5. CASE SweepStep \/ TickStep \/ ActionsDies \/ ExitStep
  BY <1>5 DEF SweepStep, TickStep, ActionsDies, ExitStep, Unasked
<1>6. CASE \/ \E c \in Conns :
                \/ \E credential \in Presented : Ask(c, credential)
                \/ Verified(c) \/ Head(c) \/ Refused(c) \/ Leave(c) \/ ClientIdles(c)
           \/ ProxySignal
           \/ UNCHANGED vars
  BY <1>6 DEF Ask, Verified, Head, Refused, Leave, ClientIdles, ProxySignal, vars,
    Unasked
<1> QED BY <1>1, <1>2, <1>3, <1>4, <1>5, <1>6 DEF Next, ActionsAsked

LEMMA StepsOfTheTable ==
  ASSUME [Next]_vars
  PROVE  SessionStep
<1>1. ASSUME NEW c \in Conns, Accept(c) PROVE SessionStep
  BY <1>1 DEF Accept, SessionStep
<1>2. ASSUME NEW c \in Conns, AnswerAtOnce(c) PROVE SessionStep
  BY <1>2 DEF AnswerAtOnce, SessionStep, Others, Unasked
<1> QED BY <1>1, <1>2, UnaskedSteps DEF ActionsAsked, SessionStep, Others

-----------------------------------------------------------------------------
(* Exchanges.                                                              *)

Idling == {"none", "lost"}

(* What one exchange says: the head is written once the response begins,   *)
(* Actions works only for exchanges that wait for it and carry the token,  *)
(* and the token came from the client or replaced a verified assertion.    *)
ExchangeFits(c) ==
  /\ exchange[c].heads = IF Phase(c) \in {"access", "upstream"} THEN 0 ELSE 1
  /\ conn[c] \notin Idling => c \in Waiting /\ Authorized(c)
  /\ Authorized(c) =>
       \/ exchange[c].cred = "token"
       \/ AccessOn /\ exchange[c].cred = "assertion"

ExchangesInv ==
  /\ exchange \in [Conns -> Exchanges]
  /\ proxy \in Processes
  /\ clients \subseteq Conns
  /\ failures \in 0..MaxFailures
  /\ \A c \in Conns : ExchangeFits(c)

ProxyInv == SessionsInv /\ OverCommitBounded /\ ExchangesInv

LEMMA ClosedFits == Closed(1) \in Exchanges
BY DEF Closed, Exchanges, Credentials

(* Only Accept brings a connection to the server.                          *)
LEMMA IdlersStay ==
  ASSUME SessionsTypeOK, Others
  PROVE  \A d \in Conns : conn[d] \in Idling => conn'[d] \in Idling
BY DEF Others, Unasked, Idling, sessionVars, requestVars, SessionsTypeOK, InitRejected,
  Fails, Finish, Initialised, Touch, Delete, Hangup, Sweep, Tick, Signal, KeepAliveEnds,
  Exit, Killed, Drop, Release

LEMMA DeliveredFits ==
  ASSUME ExchangesInv, NEW C \in SUBSET Waiting, exchange' = Delivered(C)
  PROVE  /\ exchange' \in [Conns -> Exchanges]
         /\ \A c \in Conns :
              exchange'[c] = IF c \in C THEN Closed(1) ELSE exchange[c]
<1>1. ASSUME NEW c \in C
      PROVE  exchange[c].heads + (IF Phase(c) = "upstream" THEN 1 ELSE 0) = 1
  BY DEF ExchangesInv, ExchangeFits, Waiting
<1>2. \A c \in Conns : exchange'[c] = IF c \in C THEN Closed(1) ELSE exchange[c]
  BY <1>1 DEF Delivered
<1>3. exchange' = [c \in Conns |-> exchange'[c]]
  BY DEF Delivered
<1> QED BY <1>2, <1>3, ClosedFits DEF ExchangesInv

LEMMA BrokenFits ==
  ASSUME ExchangesInv, NEW C \in SUBSET Conns,
         \A c \in C : Phase(c) # "access"
  PROVE  /\ Broken(C) \in [Conns -> Exchanges]
         /\ \A c \in Conns :
              Broken(C)[c] = IF c \in C THEN Closed(1) ELSE exchange[c]
<1>1. ASSUME NEW c \in C PROVE HeadOnError(exchange[c].heads) = 1
  BY DEF ExchangesInv, ExchangeFits, HeadOnError
<1>2. \A c \in Conns : Broken(C)[c] = IF c \in C THEN Closed(1) ELSE exchange[c]
  BY <1>1 DEF Broken
<1>3. Broken(C) = [c \in Conns |-> Broken(C)[c]]
  BY DEF Broken
<1> QED BY <1>2, <1>3, ClosedFits DEF ExchangesInv

(* Closing exchanges of connections the server is done with.               *)
LEMMA ClosingFits ==
  ASSUME ExchangesInv, NEW C \in SUBSET Conns,
         exchange' \in [Conns -> Exchanges],
         \A c \in Conns : exchange'[c] = IF c \in C THEN Closed(1) ELSE exchange[c],
         \A c \in Conns : conn[c] \in Idling => conn'[c] \in Idling,
         \A c \in C : conn'[c] \in Idling,
         proxy' \in Processes, clients' \subseteq Conns, failures' \in 0..MaxFailures
  PROVE  ExchangesInv'
<1> SUFFICES ASSUME NEW c \in Conns PROVE ExchangeFits(c)'
  BY DEF ExchangesInv
<1>1. CASE c \in C
  BY <1>1 DEF ExchangeFits, Phase, Waiting, Authorized, Closed
<1>2. CASE c \notin C
  <2>1. exchange'[c] = exchange[c] /\ ExchangeFits(c)
    BY <1>2 DEF ExchangesInv
  <2> QED BY <2>1 DEF ExchangeFits, Phase, Waiting, Authorized
<1> QED BY <1>1, <1>2

LEMMA FailuresFit ==
  ASSUME failures \in 0..MaxFailures, failures < MaxFailures, failures' = failures + 1
  PROVE  failures' \in 0..MaxFailures
BY ProxyAssumption

(* Responses that Actions completed are delivered.                         *)
LEMMA DeliverStep ==
  ASSUME ExchangesInv, SessionsTypeOK, NEW C \in SUBSET Waiting,
         exchange' = Delivered(C),
         \A c \in C : conn'[c] \in Idling,
         \A c \in Conns : conn[c] \in Idling => conn'[c] \in Idling,
         UNCHANGED <<proxy, clients, failures>>
  PROVE  ExchangesInv'
<1>1. /\ C \in SUBSET Conns
      /\ proxy' \in Processes /\ clients' \subseteq Conns /\ failures' \in 0..MaxFailures
  BY DEF Waiting, ExchangesInv
<1> QED BY <1>1, DeliveredFits, ClosingFits

LEMMA ExchangeSteps ==
  ASSUME ProxyInv, [Next]_vars
  PROVE  ExchangesInv'
<1> SessionsTypeOK /\ ExchangesInv
  BY DEF ProxyInv, SessionsInv
<1>1. ASSUME NEW c \in Conns, NEW credential \in Presented, Ask(c, credential)
      PROVE  ExchangesInv'
  <2>1. credential \in Credentials
    BY ProxyAssumption
  <2>2. exchange' \in [Conns -> Exchanges]
    BY <1>1, <2>1 DEF Ask, Closed, ExchangesInv, Exchanges, Credentials
  <2>3. ASSUME NEW d \in Conns PROVE ExchangeFits(d)'
    <3>1. CASE d = c
      BY <1>1, <3>1 DEF Ask, Closed, ExchangesInv, ExchangeFits, Phase, Waiting,
        Authorized, Idling, sessionVars, requestVars
    <3>2. CASE d # c
      <4>1. exchange'[d] = exchange[d] /\ conn' = conn /\ ExchangeFits(d)
        BY <1>1, <3>2 DEF Ask, ExchangesInv, sessionVars, requestVars
      <4> QED BY <4>1 DEF ExchangeFits, Phase, Waiting, Authorized
    <3> QED BY <3>1, <3>2
  <2> QED BY <1>1, <2>2, <2>3 DEF Ask, ExchangesInv
<1>2. ASSUME NEW c \in Conns, Verified(c) PROVE ExchangesInv'
  <2>1. PICK authorized \in Accepts(exchange[c].cred) :
          exchange' = [exchange EXCEPT
            ![c].phase = "upstream",
            ![c].sent = Forwarded(exchange[c].cred, authorized)]
    BY <1>2 DEF Verified
  <2>2. /\ Forwarded(exchange[c].cred, authorized) \in Credentials
        /\ Forwarded(exchange[c].cred, authorized) = "token" =>
             \/ exchange[c].cred = "token"
             \/ AccessOn /\ exchange[c].cred = "assertion"
    BY <2>1 DEF Accepts, Forwarded, ExchangesInv, Exchanges, Credentials
  <2>3. exchange' \in [Conns -> Exchanges]
    BY <2>1, <2>2 DEF ExchangesInv, Exchanges
  <2>4. ASSUME NEW d \in Conns PROVE ExchangeFits(d)'
    <3>1. ExchangeFits(d) /\ conn' = conn
      BY <1>2 DEF Verified, ExchangesInv, sessionVars, requestVars
    <3>2. CASE d = c
      <4>1. /\ exchange'[c].phase = "upstream"
            /\ exchange'[c].heads = exchange[c].heads
            /\ exchange'[c].cred = exchange[c].cred
            /\ exchange'[c].sent = Forwarded(exchange[c].cred, authorized)
        BY <2>1 DEF ExchangesInv, Exchanges
      <4> QED BY <1>2, <2>2, <3>1, <3>2, <4>1
        DEF Verified, ExchangeFits, Phase, Waiting, Authorized
    <3>3. CASE d # c
      <4>1. exchange'[d] = exchange[d]
        BY <2>1, <3>3 DEF ExchangesInv
      <4> QED BY <3>1, <4>1 DEF ExchangeFits, Phase, Waiting, Authorized
    <3> QED BY <3>2, <3>3
  <2> QED BY <1>2, <2>3, <2>4 DEF Verified, ExchangesInv
<1>3. ASSUME NEW c \in Conns, Head(c) PROVE ExchangesInv'
  <2>1. exchange[c].heads = 0
    BY <1>3 DEF Head, ExchangesInv, ExchangeFits
  <2>2. exchange' \in [Conns -> Exchanges]
    BY <1>3, <2>1 DEF Head, ExchangesInv, Exchanges
  <2>3. ASSUME NEW d \in Conns PROVE ExchangeFits(d)'
    <3>1. ExchangeFits(d) /\ conn' = conn
      BY <1>3 DEF Head, ExchangesInv, sessionVars, requestVars
    <3>2. CASE d = c
      <4>1. /\ exchange'[c].phase = "piping"
            /\ exchange'[c].heads = 1
            /\ exchange'[c].cred = exchange[c].cred
            /\ exchange'[c].sent = exchange[c].sent
        BY <1>3, <2>1 DEF Head, ExchangesInv, Exchanges
      <4> QED BY <3>1, <3>2, <4>1 DEF ExchangeFits, Phase, Waiting, Authorized
    <3>3. CASE d # c
      <4>1. exchange'[d] = exchange[d]
        BY <1>3, <3>3 DEF Head, ExchangesInv
      <4> QED BY <3>1, <4>1 DEF ExchangeFits, Phase, Waiting, Authorized
    <3> QED BY <3>2, <3>3
  <2> QED BY <1>3, <2>2, <2>3 DEF Head, ExchangesInv
<1>4. ASSUME NEW c \in Conns, Reset(c) \/ TimesOut(c) PROVE ExchangesInv'
  <2>1. /\ Hangup({c}) /\ exchange' = Broken({c}) /\ c \in Waiting
        /\ UNCHANGED <<proxy, clients>>
    BY <1>4 DEF Reset, TimesOut, BreakOff, TimerArmed, Waiting
  <2>2. failures' \in 0..MaxFailures
    BY <1>4, FailuresFit DEF Reset, TimesOut, ExchangesInv
  <2>3. Others /\ conn'[c] \in Idling /\ {c} \in SUBSET Conns
    BY <2>1 DEF Others, Unasked, Hangup, Idling
  <2>4. \A d \in {c} : Phase(d) # "access"
    BY <2>1 DEF Waiting
  <2> QED BY <2>1, <2>2, <2>3, <2>4, IdlersStay, BrokenFits, ClosingFits
    DEF ExchangesInv
<1>5. ASSUME NEW c \in Conns, Accept(c) PROVE ExchangesInv'
  <2>1. \A d \in Conns \ {c} : conn'[d] = conn[d]
    BY <1>5 DEF Accept, Initialise, Request, SessionsTypeOK
  <2>2. UNCHANGED proxyVars /\ c \in Waiting /\ Authorized(c)
    BY <1>5 DEF Accept, Arrived, Waiting
  <2>3. ASSUME NEW d \in Conns PROVE ExchangeFits(d)'
    <3>1. ExchangeFits(d) /\ exchange' = exchange
      BY <2>2 DEF ExchangesInv, proxyVars
    <3>2. conn'[d] = conn[d] \/ d = c
      BY <2>1
    <3> QED BY <2>2, <3>1, <3>2 DEF ExchangeFits, Phase, Waiting, Authorized
  <2> QED BY <2>2, <2>3 DEF ExchangesInv, proxyVars
<1>6. ASSUME NEW c \in Conns, AnswerAtOnce(c) PROVE ExchangesInv'
  <2>1. Others /\ conn[c] \in Idling /\ c \in Waiting
    BY <1>6 DEF AnswerAtOnce, Others, Unasked, Arrived, Waiting, Idling
  <2>2. {c} \cup Completed \in SUBSET Waiting
    BY <2>1 DEF Completed
  <2>3. \A d \in {c} \cup Completed : conn'[d] \in Idling
    BY <2>1, IdlersStay DEF Completed, Idling, Waiting
  <2> QED BY <1>6, <2>1, <2>2, <2>3, IdlersStay, DeliverStep DEF AnswerAtOnce
<1>7. ASSUME NEW c \in Conns, Refused(c) PROVE ExchangesInv'
  <2>1. conn[c] = "none" /\ Phase(c) = "upstream" /\ exchange' = Broken({c})
    BY <1>7 DEF Refused, Arrived
  <2>2. conn' = conn /\ UNCHANGED <<proxy, clients, failures>>
    BY <1>7 DEF Refused, sessionVars, requestVars
  <2>3. \A d \in {c} : conn'[d] \in Idling /\ Phase(d) # "access"
    BY <2>1, <2>2 DEF Idling
  <2>4. /\ exchange' \in [Conns -> Exchanges]
        /\ \A d \in Conns : exchange'[d] = IF d \in {c} THEN Closed(1) ELSE exchange[d]
    BY <2>1, <2>3, BrokenFits
  <2>5. \A d \in Conns : conn[d] \in Idling => conn'[d] \in Idling
    BY <2>2
  <2>6. /\ {c} \in SUBSET Conns
        /\ proxy' \in Processes /\ clients' \subseteq Conns /\ failures' \in 0..MaxFailures
    BY <2>2 DEF ExchangesInv
  <2> QED BY <2>3, <2>4, <2>5, <2>6, ClosingFits
<1>8. CASE (\E c \in Conns : Opens(c) \/ Answers(c)) \/ SweepStep
  <2>1. Others /\ Deliver
    BY <1>8 DEF Opens, Answers, SweepStep, Others, Unasked
  <2>2. Completed \in SUBSET Waiting /\ \A d \in Completed : conn'[d] \in Idling
    BY DEF Completed, Idling
  <2> QED BY <2>1, <2>2, IdlersStay, DeliverStep DEF Deliver
<1>9. CASE \/ TickStep \/ ActionsSignal \/ ExitStep \/ ProxySignal
           \/ \E c \in Conns : SocketIdles(c) \/ ClientIdles(c)
           \/ UNCHANGED vars
  <2>1. Others /\ exchange' = exchange
    BY <1>9 DEF TickStep, ActionsSignal, ExitStep, ProxySignal,
      SocketIdles, ClientIdles, vars, proxyVars, Others, Unasked
  <2>2. proxy' \in Processes /\ clients' \subseteq Conns /\ failures' \in 0..MaxFailures
    BY <1>9 DEF TickStep, ActionsSignal, ExitStep, ProxySignal, SocketIdles, ClientIdles,
      vars, proxyVars, ExchangesInv, Processes
  <2> QED BY <2>1, <2>2, IdlersStay DEF ExchangesInv, ExchangeFits, Phase,
    Waiting, Authorized
<1>10. CASE ActionsDies
  <2>1. PICK orderly \in SUBSET {c \in Conns : Phase(c) = "piping"} :
          exchange' = [c \in Conns |->
            IF c \notin orderly
            THEN Broken({d \in Waiting : conn[d] # "none"} \ orderly)[c]
            ELSE IF exchange[c].left THEN Closed(1)
            ELSE [exchange[c] EXCEPT !.phase = "hung"]]
    BY <1>10 DEF ActionsDies
  <2> DEFINE failed == {d \in Waiting : conn[d] # "none"} \ orderly
  <2>2. failed \in SUBSET Conns /\ \A d \in failed : Phase(d) # "access"
    BY DEF Waiting
  <2>3. \A c \in Conns : Broken(failed)[c] = IF c \in failed THEN Closed(1) ELSE exchange[c]
    BY <2>2, BrokenFits
  <2>4. ASSUME NEW c \in orderly
        PROVE  /\ [exchange[c] EXCEPT !.phase = "hung"] \in Exchanges
               /\ exchange[c].heads = 1
    BY DEF ExchangesInv, Exchanges, ExchangeFits
  <2>5. ASSUME NEW c \in Conns
        PROVE  \/ exchange'[c] = Closed(1)
               \/ exchange'[c] = exchange[c]
               \/ c \in orderly /\ exchange'[c] = [exchange[c] EXCEPT !.phase = "hung"]
    BY <2>1, <2>3
  <2>6. exchange' \in [Conns -> Exchanges]
    <3>1. ASSUME NEW c \in Conns PROVE exchange'[c] \in Exchanges
      BY <2>4, <2>5, ClosedFits DEF ExchangesInv
    <3>2. exchange' = [c \in Conns |-> exchange'[c]]
      BY <2>1
    <3> QED BY <3>1, <3>2
  <2>7. \A c \in Conns : conn'[c] \in Idling
    BY <1>10 DEF ActionsDies, Killed, Release, Idling
  <2>8. ASSUME NEW c \in Conns PROVE ExchangeFits(c)'
    <3>1. CASE exchange'[c] = Closed(1)
      BY <2>7, <3>1 DEF ExchangeFits, Phase, Waiting, Authorized, Closed
    <3>2. CASE exchange'[c] = exchange[c]
      BY <2>7, <3>2 DEF ExchangesInv, ExchangeFits, Phase, Waiting, Authorized
    <3>3. CASE c \in orderly /\ exchange'[c] = [exchange[c] EXCEPT !.phase = "hung"]
      <4>1. /\ exchange'[c].phase = "hung" /\ exchange'[c].heads = 1
            /\ exchange'[c].sent = exchange[c].sent
            /\ exchange'[c].cred = exchange[c].cred
        BY <2>4, <3>3 DEF ExchangesInv, Exchanges
      <4> QED BY <2>7, <4>1 DEF ExchangesInv, ExchangeFits, Phase, Waiting, Authorized
    <3> QED BY <2>5, <3>1, <3>2, <3>3
  <2>9. proxy' \in Processes /\ clients' \subseteq Conns /\ failures' \in 0..MaxFailures
    BY <1>10, FailuresFit DEF ActionsDies, ExchangesInv
  <2> QED BY <2>6, <2>8, <2>9 DEF ExchangesInv
<1>11. ASSUME NEW c \in Conns, Leave(c) PROVE ExchangesInv'
  <2>1. conn' = conn /\ clients' = clients \ {c} /\ UNCHANGED <<proxy, failures>>
    BY <1>11 DEF Leave, sessionVars, requestVars
  <2>2. exchange' \in [Conns -> Exchanges]
    BY <1>11, ClosedFits DEF Leave, ExchangesInv, Exchanges
  <2>3. ASSUME NEW d \in Conns PROVE ExchangeFits(d)'
    <3>1. ExchangeFits(d)
      BY DEF ExchangesInv
    <3>2. CASE d = c /\ Phase(c) = "hung"
      <4>1. exchange'[c] = Closed(1)
        BY <1>11, <3>2 DEF Leave, ExchangesInv
      <4> QED BY <2>1, <3>1, <3>2, <4>1
        DEF ExchangeFits, Phase, Waiting, Authorized, Closed
    <3>3. CASE d # c \/ Phase(c) # "hung"
      <4>1. /\ exchange'[d].phase = exchange[d].phase
            /\ exchange'[d].heads = exchange[d].heads
            /\ exchange'[d].sent = exchange[d].sent
            /\ exchange'[d].cred = exchange[d].cred
        BY <1>11, <3>3 DEF Leave, ExchangesInv, Exchanges
      <4> QED BY <2>1, <3>1, <4>1 DEF ExchangeFits, Phase, Waiting, Authorized
    <3> QED BY <3>2, <3>3
  <2> QED BY <2>1, <2>2, <2>3 DEF ExchangesInv
<1>12. CASE ProxyExit
  <2>1. exchange' = [c \in Conns |-> Closed(1)] /\ Hangup(Waiting)
    BY <1>12 DEF ProxyExit
  <2>2. \A c \in Conns : conn'[c] \in Idling
    BY <2>1 DEF Hangup, ExchangesInv, ExchangeFits, Idling
  <2>3. proxy' \in Processes /\ clients' \subseteq Conns /\ failures' \in 0..MaxFailures
    BY <1>12 DEF ProxyExit, Processes, ExchangesInv
  <2>4. exchange' \in [Conns -> Exchanges]
    BY <2>1, ClosedFits
  <2>5. \A c \in Conns : exchange'[c] = IF c \in Conns THEN Closed(1) ELSE exchange[c]
    BY <2>1
  <2> QED BY <2>2, <2>3, <2>4, <2>5, ClosingFits
<1> QED BY <1>1, <1>2, <1>3, <1>4, <1>5, <1>6, <1>7, <1>8, <1>9, <1>10, <1>11,
  <1>12 DEF Next

LEMMA InitProxyInv ==
  ASSUME Init PROVE ProxyInv
<1>1. 0 \in Ticks /\ 0 \in 0..MaxFailures
  BY SessionsAssumption, ProxyAssumption DEF Ticks
<1>2. SessionsInv
  BY <1>1 DEF Init, SessionsInit, SessionsInv, SessionsTypeOK, NoOrphans, OnFits,
    AgeCoversQuiet, Served, Processes
<1>3. OverCommitBounded
  <2>1. sessions = {} /\ Pending = {}
    BY DEF Init, SessionsInit, Pending
  <2>2. Cardinality({}) = 0
    BY FS_EmptySet
  <2>3. Cardinality(Conns) \in Nat
    BY SessionsAssumption, FS_CardinalityType
  <2> QED BY <2>1, <2>2, <2>3, SessionsAssumption DEF OverCommitBounded
<1>4. ExchangesInv
  BY <1>1, ClosedFits DEF Init, SessionsInit, ExchangesInv, ExchangeFits, Closed, Phase,
    Authorized, Idling, Processes
<1> QED BY <1>2, <1>3, <1>4 DEF ProxyInv

LEMMA StepProxyInv ==
  ASSUME ProxyInv, [Next]_vars PROVE ProxyInv'
<1>1. SessionStep
  BY StepsOfTheTable
<1> QED BY <1>1, SessionsStepKeeps, LimitStep, ExchangeSteps DEF ProxyInv

(* The inductive invariant: the table, its limit, and the exchanges that   *)
(* its connections belong to.                                              *)
THEOREM AlwaysProxyInv == Spec => []ProxyInv
BY InitProxyInv, StepProxyInv, PTL DEF Spec

-----------------------------------------------------------------------------
(* Invariants.                                                             *)

(* The variables of the proxy and of the sessions keep their types.        *)
THEOREM TypeCorrect == Spec => []TypeOK
<1>1. ProxyInv => TypeOK
  BY DEF ProxyInv, SessionsInv, ExchangesInv, TypeOK
<1> QED BY <1>1, AlwaysProxyInv, PTL

(* Whenever a session goes, by the sweeper, a DELETE, an error or a crash, *)
(* the responses of its transport go with it.                              *)
THEOREM NothingOutlivesItsSession == Spec => []NoOrphans
<1>1. ProxyInv => NoOrphans
  BY DEF ProxyInv, SessionsInv
<1> QED BY <1>1, AlwaysProxyInv, PTL

(* The check of the limit before an await lets through at most as many     *)
(* sessions over it as there are other connections.                        *)
THEOREM LimitExceededByFewerThanConnections == Spec => []OverCommitBounded
<1>1. ProxyInv => OverCommitBounded
  BY DEF ProxyInv
<1> QED BY <1>1, AlwaysProxyInv, PTL

(* Whatever the client presents, Actions serves it only for the token or   *)
(* for an assertion that the proxy has verified.                           *)
THEOREM ServedOnlyIfAuthorised == Spec => []OnlyAuthorisedServed
<1>1. ProxyInv => OnlyAuthorisedServed
  BY DEF ProxyInv, ExchangesInv, ExchangeFits, OnlyAuthorisedServed, Idling
<1> QED BY <1>1, AlwaysProxyInv, PTL

-----------------------------------------------------------------------------
(* Steps.                                                                  *)

(* An exchange that ends for a client that is there ended with one head.   *)
(* ExchangeFits leaves heads at 1 whatever step ended it.                  *)
THEOREM EachExchangeEndsWithOneHead == Spec => OneHead
<1>1. ProxyInv' => \A c \in Conns : exchange'[c].phase = "none" => exchange'[c].heads = 1
  BY DEF ProxyInv, ExchangesInv, ExchangeFits, Phase
<1> DEFINE Ends == \A c \in Conns :
       Phase(c) # "none" /\ exchange'[c].phase = "none" /\ ~exchange[c].left
         => exchange'[c].heads = 1
<1>2. ProxyInv' => [Ends]_vars
  BY <1>1
<1> QED BY <1>2, AlwaysProxyInv, PTL DEF OneHead

(* A stream that Actions completes was on a session that goes.             *)
LEMMA StreamsEndWithTheirSession ==
  ASSUME SessionsInv, NEW c \in Conns, conn[c] = "stream", conn'[c] = "none",
         \/ UNCHANGED sessionVars
         \/ \E d \in Conns : InitRejected(d) \/ Fails(d) \/ Finish(d)
         \/ \E d \in Conns : \E s \in Sids : Initialised(d, s)
         \/ \E s \in Sids : Touch(s) \/ Delete(s)
         \/ Sweep
  PROVE  on[c] \notin sessions'
<1>1. ASSUME NEW d \in Conns, InitRejected(d) \/ Finish(d) PROVE FALSE
  BY <1>1 DEF InitRejected, Finish, Release
<1>2. ASSUME NEW d \in Conns, NEW s \in Sids, Initialised(d, s) PROVE FALSE
  BY <1>2 DEF Initialised, Release, SessionsInv, SessionsTypeOK
<1>3. ASSUME NEW S \in SUBSET Sids, Drop(S) PROVE on[c] \notin sessions'
  BY <1>3 DEF Drop, Release, Forget, Open
<1>4. ASSUME NEW d \in Conns, Fails(d) PROVE on[c] \notin sessions'
  <2>1. {on[d]} \in SUBSET Sids
    BY <1>4 DEF Fails, SessionsInv, SessionsTypeOK, NoOrphans, Served
  <2> QED BY <1>4, <2>1, <1>3 DEF Fails
<1>5. CASE Sweep
  <2>1. Idle \in SUBSET Sids
    BY DEF Idle, SessionsInv, SessionsTypeOK
  <2> QED BY <1>5, <2>1, <1>3 DEF Sweep
<1>6. CASE UNCHANGED sessionVars \/ \E s \in Sids : Touch(s) \/ Delete(s)
  BY <1>6, <1>3 DEF sessionVars, requestVars, Touch, Delete
<1> QED BY <1>1, <1>2, <1>4, <1>5, <1>6

StreamEndsFor(c) ==
  Phase(c) = "piping" /\ conn[c] = "stream" /\ exchange'[c].phase # "piping"
    => \/ on[c] \notin sessions'
       \/ failures' > failures
       \/ proxy' = "exited"

LEMMA StreamStep ==
  ASSUME ProxyInv, [Next]_vars, NEW c \in Conns
  PROVE  StreamEndsFor(c)
<1> SUFFICES ASSUME Phase(c) = "piping", conn[c] = "stream",
                    exchange'[c].phase # "piping"
             PROVE  \/ on[c] \notin sessions'
                    \/ failures' > failures
                    \/ proxy' = "exited"
  BY DEF StreamEndsFor
<1> SessionsInv /\ exchange \in [Conns -> Exchanges] /\ failures \in Nat
  BY ProxyAssumption DEF ProxyInv, ExchangesInv
<1>1. ASSUME NEW d \in Conns,
             \/ \E credential \in Presented : Ask(d, credential)
             \/ Verified(d) \/ Head(d) \/ TimesOut(d) \/ Refused(d) \/ Leave(d)
      PROVE  FALSE
  BY <1>1 DEF Ask, Verified, Head, TimesOut, TimerArmed, BreakOff, Broken, Refused,
    Arrived, Leave, Phase, Exchanges
<1>2. CASE ActionsDies \/ \E d \in Conns : Reset(d)
  BY <1>2 DEF ActionsDies, Reset
<1>3. CASE \/ TickStep \/ ActionsSignal \/ ExitStep \/ ProxySignal
           \/ \E d \in Conns : Accept(d) \/ SocketIdles(d) \/ ClientIdles(d)
           \/ UNCHANGED vars
  BY <1>3 DEF TickStep, ActionsSignal, ExitStep, ProxySignal, Accept, SocketIdles,
    ClientIdles, vars, proxyVars, Phase
<1>4. CASE (\E d \in Conns : Opens(d) \/ Answers(d)) \/ SweepStep
  <2>1. exchange' = Delivered(Completed)
    BY <1>4 DEF Opens, Answers, SweepStep, Deliver
  <2>2. c \in Completed
    BY <2>1 DEF Delivered, Phase
  <2> QED BY <1>4, <2>2, StreamsEndWithTheirSession
    DEF Completed, Opens, Answers, SweepStep
<1>5. ASSUME NEW d \in Conns, AnswerAtOnce(d) PROVE on[c] \notin sessions'
  <2>1. exchange' = Delivered({d} \cup Completed) /\ Phase(d) = "upstream"
    BY <1>5 DEF AnswerAtOnce, Arrived
  <2>2. c \in Completed
    BY <2>1 DEF Delivered, Phase
  <2> QED BY <1>5, <2>2, StreamsEndWithTheirSession DEF Completed, AnswerAtOnce
<1>6. CASE ProxyExit
  BY <1>6 DEF ProxyExit
<1> QED BY <1>1, <1>2, <1>3, <1>4, <1>5, <1>6 DEF Next

(* A stream that has begun is not cut off by the proxy's timeout, by other *)
(* requests or by the end of a call: only its session's end, a failure or  *)
(* the proxy's exit ends it.                                               *)
THEOREM StreamsAreKept == Spec => StreamKept
<1>1. ProxyInv /\ [Next]_vars => [\A c \in Conns : StreamEndsFor(c)]_vars
  BY StreamStep
<1>2. [\A c \in Conns : StreamEndsFor(c)]_vars =>
        [\A c \in Conns :
           Phase(c) = "piping" /\ conn[c] = "stream" /\ exchange'[c].phase # "piping"
             => \/ on[c] \notin sessions'
                \/ failures' > failures
                \/ proxy' = "exited"]_vars
  BY DEF StreamEndsFor
<1> QED BY <1>1, <1>2, AlwaysProxyInv, PTL DEF Spec, StreamKept

(* The sweeper compares a session's last request, which is no older than   *)
(* any response still open on it: what it cuts off is older than the idle  *)
(* time.                                                                   *)
LEMMA SweepStepCutsOldResponses ==
  ASSUME ProxyInv, SweepStep, NEW c \in Conns, conn[c] \in Served, conn'[c] = "none"
  PROVE  age[c] > IdleTime
<1>1. on[c] \in Idle
  BY DEF SweepStep, Sweep, Drop, Release, Open, Served
<1>2. quiet[on[c]] > IdleTime /\ on[c] \in Sids
  BY <1>1 DEF Idle, ProxyInv, SessionsInv, SessionsTypeOK
<1>3. quiet[on[c]] <= age[c] /\ quiet[on[c]] \in Nat /\ age[c] \in Nat
  BY <1>2 DEF ProxyInv, SessionsInv, SessionsTypeOK, AgeCoversQuiet, Ticks
<1> QED BY <1>2, <1>3, SessionsAssumption

(* No call younger than the idle time is cut off by the sweeper.           *)
THEOREM ShortCallsAreNotSwept == Spec => ShortCallsSurvive
<1> DEFINE Spared == SweepStep => \A c \in Conns :
             conn[c] \in Served /\ conn'[c] = "none" => age[c] > IdleTime
<1>1. ProxyInv => [Spared]_vars
  BY SweepStepCutsOldResponses
<1> QED BY <1>1, AlwaysProxyInv, PTL DEF ShortCallsSurvive
-----------------------------------------------------------------------------
(* Progress, as far as it is a matter of single steps.                     *)

(* What is left of an exchange: its phases and the client's leaving.       *)
ToGo(c) ==
  (CASE Phase(c) = "access" -> 8 [] Phase(c) = "upstream" -> 6 [] Phase(c) = "piping" -> 4
     [] Phase(c) = "hung" -> 2 [] OTHER -> 0)
  + (IF Phase(c) # "none" /\ ~exchange[c].left THEN 1 ELSE 0)

GoesForward(c) ==
  Phase(c) # "none" => exchange'[c] = exchange[c] \/ ToGo(c)' < ToGo(c)

LEMMA EndedGoesForward ==
  ASSUME ProxyInv, NEW c \in Conns, exchange'[c].phase = "none"
  PROVE  GoesForward(c)
BY DEF ProxyInv, ExchangesInv, Exchanges, GoesForward, ToGo, Phase

LEMMA ForwardStep ==
  ASSUME ProxyInv, [Next]_vars, NEW c \in Conns
  PROVE  GoesForward(c)
<1> SUFFICES ASSUME Phase(c) # "none", exchange'[c] # exchange[c], exchange'[c].phase # "none"
             PROVE  ToGo(c)' < ToGo(c)
  BY EndedGoesForward DEF GoesForward
<1>0. exchange \in [Conns -> Exchanges] /\ exchange[c] \in Exchanges
  BY DEF ProxyInv, ExchangesInv
<1>1. ASSUME NEW d \in Conns, Verified(d) PROVE ToGo(c)' < ToGo(c)
  BY <1>0, <1>1 DEF Verified, Exchanges, ToGo, Phase
<1>2. ASSUME NEW d \in Conns, Head(d) PROVE ToGo(c)' < ToGo(c)
  BY <1>0, <1>2 DEF Head, Exchanges, ToGo, Phase
<1>3. ASSUME NEW d \in Conns, Leave(d) PROVE ToGo(c)' < ToGo(c)
  BY <1>0, <1>3 DEF Leave, Closed, Exchanges, ToGo, Phase
<1>4. ASSUME NEW d \in Conns, NEW credential \in Presented, Ask(d, credential) PROVE FALSE
  BY <1>0, <1>4 DEF Ask
<1>5. ASSUME NEW C, exchange' = Delivered(C) \/ exchange' = Broken(C) PROVE FALSE
  BY <1>5 DEF Delivered, Broken, Closed
<1>6. CASE ActionsDies
  BY <1>0, <1>6 DEF ActionsDies, Broken, Closed, Exchanges, ToGo, Phase
<1>7. CASE ProxyExit
  BY <1>7 DEF ProxyExit, Closed
<1>8. ASSUME NEW d \in Conns, TimesOut(d) \/ Reset(d) \/ AnswerAtOnce(d) \/ Refused(d)
                              \/ Opens(d) \/ Answers(d)
      PROVE  FALSE
  BY <1>5, <1>8 DEF TimesOut, Reset, BreakOff, AnswerAtOnce, Refused, Opens, Answers, Deliver
<1>9. CASE SweepStep
  BY <1>5, <1>9 DEF SweepStep, Deliver
<1>10. CASE \/ \E d \in Conns : Accept(d) \/ SocketIdles(d) \/ ClientIdles(d)
            \/ TickStep \/ ActionsSignal \/ ExitStep \/ ProxySignal
            \/ UNCHANGED vars
  BY <1>10 DEF Accept, SocketIdles, ClientIdles, TickStep, ActionsSignal, ExitStep,
    ProxySignal, vars, proxyVars
<1> QED BY <1>1, <1>2, <1>3, <1>4, <1>6, <1>7, <1>8, <1>9, <1>10 DEF Next

(* An exchange only goes forward, whatever the client, the proxy's timer,  *)
(* Actions, its sweeper and failures do to it, and so changes finitely     *)
(* often before it ends (proxy/index.ts:100): the safety half of           *)
(* EveryRequestIsAnswered.                                                 *)
THEOREM ExchangesGoForward == Spec => [][\A c \in Conns : GoesForward(c)]_vars
<1>1. ProxyInv /\ [Next]_vars => [\A c \in Conns : GoesForward(c)]_vars
  BY ForwardStep
<1> QED BY <1>1, AlwaysProxyInv, PTL DEF Spec

-----------------------------------------------------------------------------
(* Shutdown.                                                               *)

(* Of a closing server only the connections it kept carry requests.        *)
KeptBusy == actions # "listening" => Busy \subseteq sockets

LEMMA KeptBusyStep ==
  ASSUME SessionsInv, KeptBusy, SessionStep
  PROVE  KeptBusy'
<1> SUFFICES ASSUME actions' # "listening" PROVE Busy' \subseteq sockets'
  BY DEF KeptBusy
<1>0. conn \in [Conns -> {"none", "init", "lost"} \cup Served]
  BY DEF SessionsInv, SessionsTypeOK
<1>1. ASSUME NEW C, Release(C) PROVE Busy' \subseteq Busy
  BY <1>1 DEF Release, Busy
<1>2. CASE \E arriving \in SUBSET Conns : Signal(arriving)
  BY <1>2 DEF Signal, Busy, requestVars
<1>3. CASE Exit \/ Killed
  BY <1>3 DEF Exit, Killed, Release, Busy
<1>4. ASSUME NEW c \in Conns, Connects(c), \A d \in Conns \ {c} : conn'[d] = conn[d],
             UNCHANGED actions
      PROVE  Busy' \subseteq sockets'
  <2>1. Busy \subseteq sockets /\ Busy' \subseteq Busy \cup {c}
    BY <1>4 DEF KeptBusy, Busy
  <2> QED BY <1>4, <2>1 DEF Connects, Spare, Busy
<1>5. ASSUME NEW c \in Conns,
             Initialise(c) \/ \E s \in Sids : \E kind \in {"call", "stream"} : Request(c, s, kind)
      PROVE  Busy' \subseteq sockets'
  <2>1. /\ Connects(c) /\ UNCHANGED actions
        /\ \A d \in Conns \ {c} : conn'[d] = conn[d]
    BY <1>0, <1>5 DEF Initialise, Request
  <2> QED BY <1>4, <2>1
<1>6. CASE \E C \in SUBSET Conns : Hangup(C)
  BY <1>6 DEF Hangup, KeptBusy, Busy
<1>7. CASE \E c \in Conns : KeepAliveEnds(c)
  BY <1>7 DEF KeepAliveEnds, KeptBusy, Busy, Spare, requestVars
<1>8. ASSUME NEW c \in Conns, NEW s \in Sids, Initialised(c, s)
      PROVE  Busy' \subseteq sockets'
  <2>1. Busy' \subseteq Busy
    BY <1>0, <1>1, <1>8 DEF Initialised, Busy
  <2> QED BY <1>8, <2>1 DEF Initialised, KeptBusy
<1>9. CASE \/ \E c \in Conns : InitRejected(c) \/ Fails(c) \/ Finish(c)
           \/ \E s \in Sids : Delete(s)
           \/ Sweep
  BY <1>1, <1>9 DEF InitRejected, Fails, Finish, Delete, Sweep, Drop, KeptBusy
<1>10. CASE UNCHANGED sessionVars \/ Tick \/ \E s \in Sids : Touch(s)
  BY <1>10 DEF sessionVars, requestVars, Tick, Touch, KeptBusy, Busy
<1> QED BY <1>2, <1>3, <1>5, <1>6, <1>7, <1>8, <1>9, <1>10 DEF SessionStep, Others, Unasked

(* httpServer.close does not end before the last response has: when the    *)
(* process exits of itself, whatever came in after the signal, nothing is  *)
(* being served (actions/index.ts:30).                                     *)
THEOREM ExitCutsOffNothing == Spec => [][ExitStep => Busy = {}]_vars
<1>1. Init => KeptBusy
  BY DEF Init, SessionsInit, KeptBusy
<1>2. ProxyInv /\ KeptBusy /\ [Next]_vars => KeptBusy'
  BY StepsOfTheTable, KeptBusyStep DEF ProxyInv
<1>3. KeptBusy => [ExitStep => Busy = {}]_vars
  BY DEF KeptBusy, ExitStep, Exit
<1> QED BY <1>1, <1>2, <1>3, AlwaysProxyInv, PTL DEF Spec

(* What a stopping Actions still has to do for a connection.               *)
ToDo(c) ==
  CASE conn[c] = "init" -> 3 [] conn[c] = "opening" -> 2
    [] conn[c] \in {"call", "stream", "lost"} -> 1 [] OTHER -> 0

LeftAlone ==
  /\ \A c \in Conns : conn'[c] = conn[c] \/ ToDo(c)' < ToDo(c)
  /\ \A s \in sessions \cap sessions' : quiet[s] <= quiet'[s]

WindsDown ==
  actions # "listening" =>
    /\ actions' # "listening"
    /\ Cardinality(sockets') <= Cardinality(sockets)
    /\ ~ActionsAsked => LeftAlone /\ sockets' \subseteq sockets

LEMMA LeftAloneStep ==
  ASSUME SessionsInv, Unasked
  PROVE  LeftAlone
<1>0. /\ conn \in [Conns -> {"none", "init", "lost"} \cup Served]
      /\ quiet \in [Sids -> Ticks] /\ sessions \subseteq Sids
      /\ \A s \in Sids : quiet[s] \in Nat
  BY SessionsAssumption DEF SessionsInv, SessionsTypeOK, Ticks
<1>1. ASSUME NEW C, Release(C), NEW c \in Conns
      PROVE  conn'[c] = conn[c] \/ ToDo(c)' < ToDo(c)
  BY <1>0, <1>1 DEF Release, ToDo, Served
<1>2. ASSUME NEW S, Forget(S), NEW s \in sessions \cap sessions' PROVE quiet[s] <= quiet'[s]
  BY <1>0, <1>2 DEF Forget
<1>3. CASE Sweep \/ \E c \in Conns : Fails(c)
  BY <1>1, <1>2, <1>3 DEF Sweep, Fails, Drop, LeftAlone
<1>4. ASSUME NEW c \in Conns, InitRejected(c) \/ Finish(c) PROVE LeftAlone
  BY <1>0, <1>1, <1>4 DEF InitRejected, Finish, LeftAlone
<1>5. ASSUME NEW c \in Conns, NEW s \in Sids, Initialised(c, s) PROVE LeftAlone
  <2>1. \A t \in sessions : quiet'[t] = quiet[t]
    BY <1>0, <1>5 DEF Initialised
  <2>2. \A d \in Conns : conn'[d] = conn[d] \/ ToDo(d)' < ToDo(d)
    BY <1>0, <1>1, <1>5 DEF Initialised, ToDo, Served
  <2> QED BY <1>0, <2>1, <2>2 DEF LeftAlone
<1>6. ASSUME NEW C \in SUBSET Conns, Hangup(C) PROVE LeftAlone
  BY <1>0, <1>6 DEF Hangup, LeftAlone, ToDo, Served
<1>7. CASE Exit \/ Killed
  BY <1>1, <1>2, <1>7 DEF Exit, Killed, LeftAlone
<1>8. CASE Tick
  <2>1. \A s \in sessions : quiet'[s] = Later(quiet[s])
    BY <1>0, <1>8 DEF Tick
  <2>2. \A s \in sessions : quiet[s] <= quiet'[s]
    BY <1>0, <2>1, LaterFits
  <2> QED BY <1>8, <2>2 DEF Tick, LeftAlone
<1>9. CASE \/ UNCHANGED sessionVars
           \/ \E arriving \in SUBSET Conns : Signal(arriving)
           \/ \E c \in Conns : KeepAliveEnds(c)
  BY <1>0, <1>9 DEF sessionVars, requestVars, Signal, KeepAliveEnds, LeftAlone
<1> QED BY <1>3, <1>4, <1>5, <1>6, <1>7, <1>8, <1>9 DEF Unasked

LEMMA NoMoreSockets ==
  ASSUME SessionsInv, SessionStep, actions # "listening"
  PROVE  /\ actions' # "listening"
         /\ Cardinality(sockets') <= Cardinality(sockets)
         /\ Unasked => sockets' \subseteq sockets
<1>1. IsFiniteSet(sockets) /\ Cardinality(sockets) \in Nat
  BY SessionsAssumption, FS_Subset, FS_CardinalityType DEF SessionsInv, SessionsTypeOK
<1>2. ASSUME NEW c \in Conns, Connects(c)
      PROVE  Cardinality(sockets') <= Cardinality(sockets)
  <2>1. CASE c \in sockets
    BY <1>1, <1>2, <2>1 DEF Connects
  <2>2. CASE c \notin sockets
    <3>1. PICK d \in sockets : sockets' = (sockets \ {d}) \cup {c}
      BY <1>2, <2>2 DEF Connects, Spare
    <3>2. Cardinality(sockets \ {d}) = Cardinality(sockets) - 1 /\ IsFiniteSet(sockets \ {d})
      BY <1>1, FS_RemoveElement
    <3>3. Cardinality(sockets') = Cardinality(sockets \ {d}) + 1
      BY <2>2, <3>1, <3>2, FS_AddElement
    <3> QED BY <1>1, <3>2, <3>3
  <2> QED BY <2>1, <2>2
<1>3. ASSUME Others PROVE sockets' \subseteq sockets /\ actions' # "listening"
  <2>1. actions \in {"closing", "exited"}
    BY DEF SessionsInv, SessionsTypeOK, Processes
  <2> QED BY <1>3, <2>1 DEF Others, Unasked, sessionVars, InitRejected, Fails, Finish,
    Initialised, Touch, Delete, Hangup, Sweep, Tick, Signal, KeepAliveEnds, Exit, Killed
<1>4. ASSUME Others PROVE Cardinality(sockets') <= Cardinality(sockets)
  BY <1>1, <1>3, <1>4, FS_Subset
<1>5. CASE \/ \E c \in Conns : Initialise(c)
           \/ \E c \in Conns : \E s \in Sids : \E kind \in {"call", "stream"} : Request(c, s, kind)
  <2>1. actions' # "listening" /\ Cardinality(sockets') <= Cardinality(sockets)
    BY <1>2, <1>5 DEF Initialise, Request
  <2> QED BY <1>3, <2>1 DEF Others
<1> QED BY <1>3, <1>4, <1>5 DEF SessionStep, Others

(* Once told to stop, Actions stays with the connections it then had, at   *)
(* most handed on between requests, and what comes over those may use      *)
(* sessions again (mcp-http.ts:133).  Every other step brings the end      *)
(* nearer: connections close or get on with what they carry, and sessions  *)
(* get older until the sweeper takes them.  The safety half of             *)
(* ShutdownEnds.                                                           *)
THEOREM ActionsWindsDown == Spec => [][WindsDown]_vars
<1>1. ProxyInv /\ [Next]_vars => [WindsDown]_vars
  BY StepsOfTheTable, UnaskedSteps, LeftAloneStep, NoMoreSockets DEF ProxyInv, WindsDown
<1> QED BY <1>1, AlwaysProxyInv, PTL DEF Spec
=============================================================================
