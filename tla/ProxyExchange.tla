----------------------------- MODULE ProxyExchange -----------------------------
(***************************************************************************)
(* The access proxy (src/proxy/index.ts) in front of the Actions server:   *)
(* one exchange per connection, from the client's request to the end of    *)
(* the proxy's response, with the upstream request it makes to the         *)
(* sessions of McpSessions.                                                *)
(*                                                                         *)
(* The proxy does not look at its client again once it has asked upstream: *)
(* when the client leaves, the upstream exchange goes on.  Requests that   *)
(* the proxy answers itself (a host it does not serve, /healthz, another   *)
(* path) have no state and are left out.                                   *)
(***************************************************************************)
EXTENDS McpSessions

(* MCP_TOKEN, a valid assertion for an allowed address, anything else.     *)
Credentials == {"token", "assertion", "other"}

CONSTANTS
  Presented,   \* the credentials that clients present
  AccessOn,    \* whether the three CLOUDFLARE_ACCESS settings are given
  MaxFailures  \* bound on broken connections and killed processes

ASSUME ProxyAssumption ==
  /\ Presented \subseteq Credentials
  /\ AccessOn \in BOOLEAN
  /\ MaxFailures \in Nat

VARIABLES
  exchange,  \* per connection, see Exchanges
  proxy,     \* the process: "listening", "closing", "exited"
  clients,   \* while it is closing: the connections clients still have
  failures   \* failures so far

proxyVars == <<exchange, proxy, clients, failures>>
vars == <<sessionVars, proxyVars>>

Exchanges ==
  [phase : {"none", "access", "upstream", "piping", "hung"},
   cred  : Credentials,   \* what the client presents
   sent  : Credentials,   \* what the upstream request presents
   left  : BOOLEAN,       \* the client has gone
   heads : {0, 1}]        \* calls of response.writeHead

(* heads is what an exchange leaves behind.                                *)
Closed(heads) ==
  [phase |-> "none", cred |-> "other", sent |-> "other", left |-> FALSE,
   heads |-> heads]

Init ==
  /\ SessionsInit
  /\ exchange = [c \in Conns |-> Closed(1)]
  /\ proxy = "listening"
  /\ clients = {}
  /\ failures = 0

Phase(c) == exchange[c].phase
Waiting == {c \in Conns : Phase(c) \in {"upstream", "piping"}}

-----------------------------------------------------------------------------
(* The request handler.                                                    *)

(* A closing proxy serves the connections it has, as Actions does.         *)
Ask(c, credential) ==
  /\ proxy = "listening" \/ c \in clients
  /\ Phase(c) = "none"
  /\ conn[c] = "none"
  /\ exchange' = [exchange EXCEPT ![c] =
       [Closed(0) EXCEPT !.phase = "access", !.cred = credential]]
  /\ UNCHANGED <<sessionVars, proxy, clients, failures>>

(* External: jwtVerify accepts only a valid assertion, and may fail for    *)
(* want of the team's keys.                                                *)
Accepts(credential) ==
  IF AccessOn /\ credential = "assertion" THEN BOOLEAN ELSE {FALSE}

(* Mutation: the internal token is added for everyone.                     *)
AlwaysInternal(credential, authorized) == "token"

(* forwardedHeaders.                                                       *)
Forwarded(credential, authorized) ==
  IF authorized THEN "token" ELSE credential

(* The assertion has been verified: the upstream request starts.           *)
Verified(c) ==
  /\ Phase(c) = "access"
  /\ \E authorized \in Accepts(exchange[c].cred) :
       exchange' = [exchange EXCEPT
         ![c].phase = "upstream",
         ![c].sent = Forwarded(exchange[c].cred, authorized)]
  /\ UNCHANGED <<sessionVars, proxy, clients, failures>>

(* The response begins: the timeout is switched off and the body piped.    *)
Head(c) ==
  /\ Phase(c) = "upstream"
  /\ conn[c] \in Served
  /\ exchange' = [exchange EXCEPT ![c].phase = "piping", ![c].heads = @ + 1]
  /\ UNCHANGED <<sessionVars, proxy, clients, failures>>

(* The responses of Actions on C are complete: the pipe ends the proxy's.  *)
Delivered(C) ==
  [c \in Conns |->
     IF c \notin C THEN exchange[c]
     ELSE Closed(exchange[c].heads + IF Phase(c) = "upstream" THEN 1 ELSE 0)]

(* Mutation: the error handler writes a head whatever was sent before.     *)
HeadOnEveryError(heads) == heads + 1

HeadOnError(heads) == IF heads = 0 THEN 1 ELSE heads

(* upstream's 'error': a 502 unless the head is out; the response ends.    *)
Broken(C) ==
  [c \in Conns |-> IF c \in C THEN Closed(HeadOnError(exchange[c].heads))
                   ELSE exchange[c]]

BreakOff(c) ==
  /\ exchange' = Broken({c})
  /\ Hangup({c})
  /\ UNCHANGED <<proxy, clients>>

(* Mutations: nobody listens to 'timeout'; the timeout stays armed once    *)
(* the response has begun.                                                 *)
NeverArmed(c) == FALSE
ArmedThroughout(c) == c \in Waiting

TimerArmed(c) == Phase(c) = "upstream"

TimesOut(c) == TimerArmed(c) /\ BreakOff(c) /\ UNCHANGED failures

(* The socket to Actions reports an error, before or after the head.       *)
Reset(c) ==
  /\ failures < MaxFailures
  /\ c \in Waiting
  /\ BreakOff(c)
  /\ failures' = failures + 1

-----------------------------------------------------------------------------
(* What Actions does with the upstream request.                            *)

(* Its bearer check: Actions has no Cloudflare options of its own.         *)
Authorized(c) == exchange[c].sent = "token"

Arrived(c) == Phase(c) = "upstream" /\ conn[c] = "none"

Accept(c) ==
  /\ Arrived(c)
  /\ Authorized(c)
  /\ \/ Initialise(c)
     \/ \E s \in Sids, kind \in {"call", "stream"} : Request(c, s, kind)
  /\ UNCHANGED proxyVars

(* Responses that Actions completes in this step.                          *)
Completed == {c \in Waiting : conn[c] # "none" /\ conn'[c] = "none"}

(* An answer at once: 401, 404, 405, 413, 503, 500; or a request on a      *)
(* session that needs no tool.                                             *)
AnswerAtOnce(c) ==
  /\ Arrived(c)
  /\ Reachable
  /\ \/ UNCHANGED sessionVars
     \/ Authorized(c) /\ \E s \in Sids : Touch(s) \/ Delete(s)
  /\ exchange' = Delivered({c} \cup Completed)
  /\ UNCHANGED <<proxy, clients, failures>>

(* The connection is refused: Actions is stopping or gone, and the agent   *)
(* has no connection to spare.                                             *)
Refused(c) ==
  /\ Arrived(c)
  /\ ~Reachable
  /\ exchange' = Broken({c})
  /\ UNCHANGED <<sessionVars, proxy, clients, failures>>

Deliver ==
  /\ exchange' = Delivered(Completed)
  /\ UNCHANGED <<proxy, clients, failures>>

Opens(c) == (InitRejected(c) \/ \E s \in Sids : Initialised(c, s)) /\ Deliver

Answers(c) == (Finish(c) \/ Fails(c)) /\ Deliver

SweepStep == Sweep /\ Deliver

TickStep == Tick /\ UNCHANGED proxyVars

SocketIdles(c) == KeepAliveEnds(c) /\ UNCHANGED proxyVars

ExitStep == Exit /\ UNCHANGED proxyVars

(* Killed in the middle of a response, the kernel closes the connection    *)
(* with a reset, which is an error of the request, or in good order, which *)
(* is one of the response only: nobody listens to that, and the pipe does  *)
(* not end the client's.                                                   *)
ActionsDies ==
  /\ failures < MaxFailures
  /\ failures' = failures + 1
  /\ Killed
  /\ \E orderly \in SUBSET {c \in Conns : Phase(c) = "piping"} :
       LET failed == {c \in Waiting : conn[c] # "none"} \ orderly IN
       exchange' = [c \in Conns |->
         IF c \notin orderly THEN Broken(failed)[c]
         ELSE IF exchange[c].left THEN Closed(1)
         ELSE [exchange[c] EXCEPT !.phase = "hung"]]
  /\ UNCHANGED <<proxy, clients>>

-----------------------------------------------------------------------------
(* Clients leave; both processes are told to stop.                         *)

Leave(c) ==
  /\ Phase(c) # "none"
  /\ ~exchange[c].left
  /\ exchange' = [exchange EXCEPT ![c] =
       IF Phase(c) = "hung" THEN Closed(1) ELSE [@ EXCEPT !.left = TRUE]]
  /\ clients' = clients \ {c}
  /\ UNCHANGED <<sessionVars, proxy, failures>>

ActionsSignal ==
  /\ \E arriving \in SUBSET {c \in Conns : Arrived(c)} : Signal(arriving)
  /\ UNCHANGED proxyVars

ProxySignal ==
  /\ proxy = "listening"
  /\ proxy' = "closing"
  /\ clients' = {c \in Conns : Phase(c) # "none" /\ ~exchange[c].left}
  /\ UNCHANGED <<sessionVars, exchange, failures>>

(* Either side closes a connection that idles: keepAliveTimeout.           *)
ClientIdles(c) ==
  /\ c \in clients
  /\ Phase(c) = "none"
  /\ clients' = clients \ {c}
  /\ UNCHANGED <<sessionVars, exchange, proxy, failures>>

(* server.close calls back when no client is connected: process.exit, and  *)
(* with it go the upstream requests of clients that left.                  *)
ProxyExit ==
  /\ proxy = "closing"
  /\ clients = {}
  /\ proxy' = "exited"
  /\ exchange' = [c \in Conns |-> Closed(1)]
  /\ Hangup(Waiting)
  /\ UNCHANGED <<clients, failures>>

Next ==
  \/ \E c \in Conns :
       \/ \E credential \in Presented : Ask(c, credential)
       \/ Verified(c)
       \/ Head(c)
       \/ TimesOut(c)
       \/ Reset(c)
       \/ Accept(c)
       \/ AnswerAtOnce(c)
       \/ Refused(c)
       \/ Opens(c)
       \/ Answers(c)
       \/ Leave(c)
       \/ SocketIdles(c)
       \/ ClientIdles(c)
  \/ SweepStep
  \/ TickStep
  \/ ActionsDies
  \/ ActionsSignal
  \/ ExitStep
  \/ ProxySignal
  \/ ProxyExit

Spec == Init /\ [][Next]_vars

(* Timers fire, keep-alive's included, verification and the SDK's          *)
(* initialisation end, tools return, processes exit when they may.         *)
(* Streams end and clients leave only if they like.                        *)
Fairness ==
  /\ WF_vars(TickStep)
  /\ WF_vars(SweepStep)
  /\ WF_vars(ExitStep)
  /\ WF_vars(ProxyExit)
  /\ \A c \in Conns : /\ WF_vars(Verified(c))
                      /\ WF_vars(TimesOut(c))
                      /\ WF_vars(Opens(c))
                      /\ WF_vars(Answers(c))
                      /\ WF_vars(SocketIdles(c))
                      /\ WF_vars(ClientIdles(c))

FairSpec == Spec /\ Fairness

-----------------------------------------------------------------------------
(* Properties.                                                             *)

TypeOK ==
  /\ SessionsTypeOK
  /\ exchange \in [Conns -> Exchanges]
  /\ proxy \in Processes
  /\ clients \subseteq Conns
  /\ failures \in 0..MaxFailures

(* A request that Actions works on for a client came with the token, or    *)
(* with an assertion the proxy verified before it added the token itself.  *)
OnlyAuthorisedServed ==
  \A c \in Conns : conn[c] \notin {"none", "lost"} =>
    \/ exchange[c].cred = "token"
    \/ AccessOn /\ exchange[c].cred = "assertion"

(* When an exchange ends for a client that is still there, one head was    *)
(* written: an error after the head adds none (writeHead would throw out   *)
(* of an event handler and end the proxy), and no response ends without.   *)
OneHead ==
  [][\A c \in Conns :
       Phase(c) # "none" /\ exchange'[c].phase = "none" /\ ~exchange[c].left
         => exchange'[c].heads = 1]_vars

(* CHANGELOG.md:160: the proxy times out the start of a response only.  A  *)
(* stream that has begun lasts until its session goes or something breaks. *)
StreamKept ==
  [][\A c \in Conns :
       Phase(c) = "piping" /\ conn[c] = "stream" /\ exchange'[c].phase # "piping"
         => \/ on[c] \notin sessions'
            \/ failures' > failures
            \/ proxy' = "exited"]_vars

(* The sweeper looks at the session's last request, not at what is being   *)
(* served on it; still no response younger than the idle time is cut off.  *)
ShortCallsSurvive ==
  [][SweepStep => \A c \in Conns :
       conn[c] \in Served /\ conn'[c] = "none" => age[c] > IdleTime]_vars

(* The proxy answers every request, or begins to, whatever Actions does.   *)
Unanswered(c) == Phase(c) \in {"access", "upstream"}
EveryRequestIsAnswered == \A c \in Conns : Unanswered(c) ~> ~Unanswered(c)

(* A session whose client is gone is not kept, although the proxy does not *)
(* tell Actions, and a stream to nobody stays open on it: each session is  *)
(* used again or goes.                                                     *)
AbandonedSessionsGo == \A s \in Sids : []<>(quiet[s] = 0)

(* A process that was told to stop stops, with streams open: Actions       *)
(* because the sweeper still runs, the proxy because Actions ends them.    *)
(* Only its clients can keep it: with requests, for ever, over connections *)
(* that were busy at the signal; or, the proxy, with one that an Actions   *)
(* killed in the middle of a response left hanging.                        *)
ActionsAsked == \E c \in Conns : Accept(c) \/ AnswerAtOnce(c)
ProxyAsked == \E c \in Conns : \E credential \in Presented : Ask(c, credential)

ShutdownEnds ==
  /\ <>[](actions = "closing") => []<><<ActionsAsked>>_vars
  /\ <>[](proxy = "closing") =>
       []<><<ProxyAsked>>_vars \/ <>[](\E c \in Conns : Phase(c) = "hung")
=============================================================================
