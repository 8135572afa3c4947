------------------------------ MODULE McpSessions ------------------------------
(***************************************************************************)
(* The sessions of the Actions MCP server (src/common/mcp-http.ts, started *)
(* by src/actions/index.ts): the Map of sessions, the requests being       *)
(* served on them, the sweeper, and the process's life.                    *)
(*                                                                         *)
(* A connection carries one request at a time.  The SDK's transport is     *)
(* external: it creates the session somewhere inside an initialisation,    *)
(* answers calls when their tool returns, keeps one stream per session and *)
(* ends every response of a transport that is closed.  Session ids are     *)
(* fresh UUIDs: an id no session has stands for one never used.            *)
(*                                                                         *)
(* While the server listens a request always finds a connection.  Once it  *)
(* has closed its listener, only connections it was busy with are left     *)
(* (`sockets`).  They stay open when their response ends and carry further *)
(* requests, of whoever the client's agent gives them to, until they idle  *)
(* for too long.                                                           *)
(*                                                                         *)
(* Time is what the sweeper compares: the ticks since lastSeen, counted up *)
(* to IdleTime + 1.                                                        *)
(***************************************************************************)
EXTENDS Naturals, FiniteSets

CONSTANTS
  Conns,        \* connections to the server
  Sids, NoSid,  \* session ids
  MaxSessions,  \* maxSessions
  IdleTime      \* sessionIdleMs, in ticks

ASSUME SessionsAssumption ==
  /\ IsFiniteSet(Conns)
  /\ IsFiniteSet(Sids)
  /\ NoSid \notin Sids
  /\ MaxSessions \in Nat \ {0}
  /\ IdleTime \in Nat \ {0}

VARIABLES
  conn,      \* what the server does for each connection
  on,        \* the session its request belongs to
  sessions,  \* the keys of the Map
  quiet,     \* ticks since a session's lastSeen
  age,       \* history: ticks since the request arrived
  actions,   \* the process: "listening", "closing" after a signal, "exited"
  sockets    \* while it is closing: the connections that are still open

requestVars == <<conn, on, age>>
sessionVars == <<requestVars, sessions, quiet, actions, sockets>>

(* "init" until the SDK has created the session, "opening" until its       *)
(* answer is complete; "lost" is an initialisation whose client is gone.   *)
Served == {"opening", "call", "stream"}
Busy == {c \in Conns : conn[c] \notin {"none", "lost"}}
Pending == {c \in Conns : conn[c] \in {"init", "lost"}}
Open(S) == {c \in Conns : on[c] \in S}

Processes == {"listening", "closing", "exited"}
Ticks == 0..IdleTime + 1
Later(n) == IF n > IdleTime THEN n ELSE n + 1

SessionsInit ==
  /\ conn = [c \in Conns |-> "none"]
  /\ on = [c \in Conns |-> NoSid]
  /\ sessions = {}
  /\ quiet = [s \in Sids |-> 0]
  /\ age = [c \in Conns |-> 0]
  /\ actions = "listening"
  /\ sockets = {}

(* The server has no more to do for the connections C.                     *)
Release(C) ==
  /\ conn' = [c \in Conns |-> IF c \in C THEN "none" ELSE conn[c]]
  /\ on' = [c \in Conns |-> IF c \in C THEN NoSid ELSE on[c]]
  /\ age' = [c \in Conns |-> IF c \in C THEN 0 ELSE age[c]]

Forget(S) ==
  /\ sessions' = sessions \ S
  /\ quiet' = [s \in Sids |-> IF s \in S THEN 0 ELSE quiet[s]]

(* Mutation: drop forgets the session and leaves its transport open.       *)
DropEntry(S) == Forget(S) /\ UNCHANGED requestVars

(* drop, of each session of S: closing the transport ends its responses.   *)
Drop(S) == Forget(S) /\ Release(Open(S))

(* A request finds a connection: a new one while the server listens, then  *)
(* its own or another that is open and idle.                               *)
Spare == {c \in sockets : conn[c] = "none"}
Reachable == actions = "listening" \/ Spare # {}

Connects(c) ==
  /\ Reachable
  /\ IF actions = "listening" \/ c \in sockets
     THEN UNCHANGED sockets
     ELSE \E d \in Spare : sockets' = (sockets \ {d}) \cup {c}

-----------------------------------------------------------------------------
(* POST without a session id: initialisation.                              *)

(* Mutation: the limit is off by one.                                      *)
TooManyByOne == Cardinality(sessions) > MaxSessions

TooMany == Cardinality(sessions) >= MaxSessions

(* The limit is checked, then connect and handleRequest are awaited.       *)
Initialise(c) ==
  /\ Connects(c)
  /\ conn[c] = "none"
  /\ ~TooMany
  /\ conn' = [conn EXCEPT ![c] = "init"]
  /\ UNCHANGED <<on, age, sessions, quiet, actions>>

(* onsessioninitialized.                                                   *)
Initialised(c, s) ==
  /\ conn[c] \in {"init", "lost"}
  /\ s \in Sids \ sessions
  /\ sessions' = sessions \cup {s}
  /\ quiet' = [quiet EXCEPT ![s] = 0]
  /\ IF conn[c] = "lost"
     THEN Release({c})
     ELSE /\ conn' = [conn EXCEPT ![c] = "opening"]
          /\ on' = [on EXCEPT ![c] = s]
          /\ UNCHANGED age
  /\ UNCHANGED <<actions, sockets>>

(* The SDK refuses or throws before there is a session.                    *)
InitRejected(c) ==
  /\ conn[c] \in {"init", "lost"}
  /\ Release({c})
  /\ UNCHANGED <<sessions, quiet, actions, sockets>>

(* It throws once there is one: `failed` closes the transport, whose       *)
(* onclose deletes the session.                                            *)
Fails(c) ==
  /\ conn[c] = "opening"
  /\ Drop({on[c]})
  /\ UNCHANGED <<actions, sockets>>

-----------------------------------------------------------------------------
(* Requests on a session: `existing` refreshes lastSeen as they arrive.    *)

(* Mutation: a request does not refresh lastSeen.                          *)
SeenAtCreation(s) == UNCHANGED quiet

Seen(s) == quiet' = [quiet EXCEPT ![s] = 0]

(* A call (POST) or the standalone stream (GET), at most one per session.  *)
Request(c, s, kind) ==
  /\ Connects(c)
  /\ conn[c] = "none"
  /\ s \in sessions
  /\ kind = "stream" => \A d \in Open({s}) : conn[d] # "stream"
  /\ conn' = [conn EXCEPT ![c] = kind]
  /\ on' = [on EXCEPT ![c] = s]
  /\ Seen(s)
  /\ UNCHANGED <<age, sessions, actions>>

(* One that the SDK answers at once: a notification, a second stream, an   *)
(* invalid message.                                                        *)
Touch(s) ==
  /\ Reachable
  /\ s \in sessions
  /\ Seen(s)
  /\ UNCHANGED <<requestVars, sessions, actions, sockets>>

(* DELETE: the SDK calls onsessionclosed and closes the transport.         *)
Delete(s) ==
  /\ Reachable
  /\ s \in sessions
  /\ Drop({s})
  /\ UNCHANGED <<actions, sockets>>

(* The tool returned, or failed: either way the response is complete.      *)
Finish(c) ==
  /\ conn[c] \in {"opening", "call"}
  /\ Release({c})
  /\ UNCHANGED <<sessions, quiet, actions, sockets>>

(* The connections C close: their responses are gone, an initialisation    *)
(* goes on.                                                                *)
Hangup(C) ==
  /\ conn' = [c \in Conns |->
       IF c \notin C THEN conn[c]
       ELSE IF conn[c] \in {"init", "lost"} THEN "lost" ELSE "none"]
  /\ on' = [c \in Conns |-> IF c \in C THEN NoSid ELSE on[c]]
  /\ age' = [c \in Conns |-> IF c \in C THEN 0 ELSE age[c]]
  /\ sockets' = sockets \ C
  /\ UNCHANGED <<sessions, quiet, actions>>

-----------------------------------------------------------------------------
(* Time, the sweeper, and the process.                                     *)

Tick ==
  /\ quiet' = [s \in Sids |-> IF s \in sessions THEN Later(quiet[s]) ELSE 0]
  /\ age' = [c \in Conns |-> IF conn[c] \in Served THEN Later(age[c]) ELSE 0]
  /\ UNCHANGED <<conn, on, sessions, actions, sockets>>

(* Mutations: the sweeper spares sessions with an open response; stops at  *)
(* the signal.                                                             *)
IdleUnlessOpen == {s \in sessions : quiet[s] > IdleTime /\ Open({s}) = {}}
IdleWhileListening ==
  {s \in sessions : quiet[s] > IdleTime /\ actions = "listening"}

(* lastSeen < cutoff.                                                      *)
Idle == {s \in sessions : quiet[s] > IdleTime}

Sweep ==
  /\ actions # "exited"
  /\ Idle # {}
  /\ Drop(Idle)
  /\ UNCHANGED <<actions, sockets>>

(* httpServer.close: the listener and idle connections are closed; what is *)
(* busy stays, and connections on which a request is arriving.             *)
Signal(arriving) ==
  /\ actions = "listening"
  /\ actions' = "closing"
  /\ sockets' = Busy \cup arriving
  /\ UNCHANGED <<requestVars, sessions, quiet>>

(* The server's keepAliveTimeout, or the client's agent, closes an idle    *)
(* connection.                                                             *)
KeepAliveEnds(c) ==
  /\ c \in Spare
  /\ sockets' = sockets \ {c}
  /\ UNCHANGED <<requestVars, sessions, quiet, actions>>

(* httpServer.close calls back when no connection is left: `shutdown`      *)
(* drops every session, then the process exits.                            *)
Exit ==
  /\ actions = "closing"
  /\ sockets = {}
  /\ actions' = "exited"
  /\ Forget(sessions)
  /\ Release(Conns)
  /\ UNCHANGED sockets

(* The process is killed.  Sessions live in memory only; Docker starts it  *)
(* again, unless it was being stopped.                                     *)
Killed ==
  /\ actions # "exited"
  /\ actions' = IF actions = "closing" THEN "exited" ELSE "listening"
  /\ sockets' = {}
  /\ Forget(sessions)
  /\ Release(Conns)

-----------------------------------------------------------------------------
(* Invariants of the table, for whoever composes these actions.            *)

SessionsTypeOK ==
  /\ conn \in [Conns -> {"none", "init", "lost"} \cup Served]
  /\ on \in [Conns -> Sids \cup {NoSid}]
  /\ sessions \subseteq Sids
  /\ quiet \in [Sids -> Ticks]
  /\ age \in [Conns -> Ticks]
  /\ actions \in Processes
  /\ sockets \subseteq Conns

(* No response outlives its session: a call on a session that was dropped, *)
(* deleted or lost is not left waiting on a transport nobody closes.       *)
NoOrphans == \A c \in Conns : conn[c] \in Served <=> on[c] \in sessions

(* Initialisations that run at once can pass the limit together, but never *)
(* by more than the connections that carry them.                           *)
OverCommitBounded ==
  Cardinality(sessions) + Cardinality(Pending)
    <= MaxSessions + Cardinality(Conns) - 1

(* A response is at least as old as its session's last request.            *)
AgeCoversQuiet ==
  \A c \in Conns : conn[c] \in Served => quiet[on[c]] <= age[c]
=============================================================================
