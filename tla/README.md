# Formal model of mail-mcp-suite

TLA+ modules, TLC runs and TLAPS proofs about mail-mcp-suite: an MCP server
that lets a language model propose mail (messages to send, batches of messages
to move) and a Worker that carries a proposal out once a human has approved it.
The promise that matters is the Worker's: **nothing leaves without approval,
nothing is carried out twice, and what the Worker reports is what happened** —
with a JSON file as its database, an SMTP server that may not answer, and a
process that may die at any await.

Paths below are relative to the repository.

## 1. The system

| Component | Source | State it keeps | Operations | Interacts with |
|---|---|---|---|---|
| Proposal store | `src/worker/store.ts` | `#entries` (cached array), `outbox.json`, `#tail` (queue of operations) | initialize, create, createMove, get, list, approve, cancel, claimDue, markSent, markMoveOutcome, markFailed, markUncertain | called by API and scheduler |
| Scheduler | `src/worker/scheduler.ts` | `running`, `stopped`, the proposal in hand | runOnce on an interval, processProposal, stop | store, SMTP, IMAP |
| Delivery | `src/worker/smtp.ts`, `sent-copy.ts` | a cached transporter | deliver, appendSentCopy | SMTP server, Sent mailbox |
| Moves | `src/worker/imap-move.ts` | none between calls; a batch's results while it runs | prepareMoveItems, executeMoveItems, reverseMovedItems | IMAP server |
| Worker process | `src/worker/index.ts` | up, shutting down | start, SIGTERM/SIGINT, exit | container runtime |
| Worker API, approval pages | `src/worker/server.ts`, `approval-ui.ts` | rate limiter | create, list, get, cancel, restore, approval pages, app routes | store, moves |
| Actions tools, Worker client | `src/actions/*` | a pending elicitation per call | create/list/get/cancel/restore tools, awaitApproval | Worker API, MCP client |
| MCP HTTP server | `src/common/mcp-http.ts` | sessions with lastSeen | initialise, request, stream, delete, sweep, shutdown | MCP clients, through the proxy |
| Access proxy | `src/proxy/index.ts` | one exchange per request | forward, time out, fail | Actions, Cloudflare Access |
| In-chat app | `src/app/main.ts` | the view shown | load, approve, cancel | app routes of the Worker |
| Policies | `src/common/types.ts`, `security.ts`, `access-jwt.ts` | none (a key cache) | validate recipients, moves, hosts, signatures | all servers |
| Reader | `src/reader/*` | none | read-only IMAP tools | IMAP server |
| Configuration, translations, MJML, deployment | `src/common/env.ts`, `i18n.ts`, `*/config.ts`, `mjml.ts`, `compose.yaml` | read once | — | — |

What is hard in each, and what makes it correct:

* **Store.** Every operation mutates the cached array *before* it writes, and a
  write that throws does not undo the mutation; `chmod` can throw after
  `rename` has published the new file. So memory and file drift apart, in both
  senses. Correct: the state diagram is followed whatever the callers do; the
  file only lags; one move proposal per idempotency key; no approval outside
  the window; answers are not contradicted later.
* **Scheduler and delivery.** Between "the SMTP server took the message" and
  "the outcome is in the file" there are four awaits, and the catch clauses
  cover failed deliveries and failed writes alike. Correct: at most once,
  write-ahead, truthful verdicts, the Sent copy.
* **Process.** Shutdown does not wait for the running cycle. Correct: a restart
  never repeats and never forgets interrupted work; everything settles.
* **Moves.** A batch may stop half way; other clients use the mailbox before,
  between and after the identity check and MOVE; the results exist only in a
  local array until the batch ends; UIDs are kept for a restore days later.
  Correct: verdicts and items' results agree with the mailboxes; only messages
  that pass for the approved ones are moved; a restore returns exactly what was
  moved.
* **API.** Two store calls per approval with checks between them. Correct: only
  a valid secret and signature lead to `approve`, and only what the form in front
  of the human said; the second call's guard holds; the limiter bounds guesses
  and lets a locked-out client in again.
* **Actions tools.** Three ways for the wait to end; a timed-out creation is
  invisible to the caller. Correct: the tool never reports an outcome the
  Worker did not give; the wait ends, and not because one poll failed.
* **MCP sessions, proxy.** Check-then-insert across awaits, a sweeper beside
  running requests, timeouts racing responses, clients that leave without
  anybody telling Actions, two processes that each wait for connections to
  close, keep-alive connections that outlive the signal. Correct: bounded
  sessions, no leak, one response head per exchange, every request answered,
  both processes stop once nobody asks any more.

## 2. Modules

| Module | What it is |
|---|---|
| `ProposalStore` | `store.ts`, one action per operation, plus the process's death and restart |
| `Worker` | extends `ProposalStore` with scheduler, delivery, moves (per batch), shutdown |
| `DeliveryContract` | abstract: what the outbox and the mail servers promise, per proposal |
| `ProposalLife` | abstract: how a proposal's status may change, for everyone but the scheduler; `ApprovalGate` is built on it, `Worker` implements it |
| `MoveExecution` | `imap-move.ts`: batches item by item, with mailboxes and other IMAP clients; a second implementation of `DeliveryContract` |
| `ApprovalGate` | the four approval routes of `server.ts`: forms, limiter, secret, two calls of the store |
| `ApprovalWait` | extends `ApprovalGate` with one call of an Actions tool: create or cancel, poll, elicitation, deadline (`tools.ts`, `worker-client.ts`) |
| `McpSessions` | `mcp-http.ts`: the session table, requests on it, sweeper, shutdown |
| `ProxyExchange` | extends `McpSessions` with `proxy/index.ts`: the two composed, from the client's request to the end of the proxy's response |
| `MCProposalStore`, `MCWorker`, `MCMoveExecution`, `MCApprovalWait`, `MCProxyExchange` | instances for TLC |
| `StoreProofs`, `WorkerProofs`, `RefinementProofs` | theorems and their proofs: the store, the Worker's invariant, and that the Worker implements `DeliveryContract` |
| `MoveProofs` | theorems about `MoveExecution`, and that it implements `DeliveryContract` |
| `ContractProofs` | what `DeliveryContract` promises, inherited by whatever implements it |
| `DurableProofs` | what callers of the Worker were told stays true while writes succeed, and that the Worker then implements `ProposalLife` |
| `WaitProofs` | theorems about `ApprovalWait`, the gate's included |
| `ProxyProofs` | theorems about `ProxyExchange`, the session table's included |

### How `ProposalStore` corresponds to `store.ts`

`mem` is `#entries`, `disk` what `#load` would read from `outbox.json`, both
functions from ids to entries, with the entry `Absent` for "no such proposal".
`issued` are the ids `randomUUID` has returned. `authorised` and `told` are
history: ids on which `approve` was accepted, and the last status a caller was
given.

*One operation is one action.* `#exclusive` chains every operation behind the
previous one, so between an operation's mutation of the array and the end of
its write no other operation runs. A process that dies inside an operation
leaves the old file (the operation did not happen) or the new one (it did, and
then the process died): both are behaviours of the model. How a write ends is a
parameter of every writing action: `ok`, `notWritten` (anything before `rename`
threw), `writtenNotAcked` (`chmod` threw). In both failing cases the mutation
stays in `mem`, as in the code.

`Refresh` is the `if (expire) persist` that begins get, list, approve and
cancel; if it throws the rest of the operation does not happen (`Refuse`).
`RepeatMove` is createMove with a known key, which returns (or refuses) without
writing what `#expire` changed. `approve` and `claimDue` evaluate
`now = new Date()` when they are *called*, before they wait in the queue; the
parameter `now` of the actions may lag up to `QueueLag` ticks behind `clock`
(in `Worker` the loop's call is explicit: `calledAt`).

### How `Worker` corresponds to `scheduler.ts`, `smtp.ts`, `sent-copy.ts`, `index.ts`

`pc` says at which await the loop is:

| `pc` | waiting for | ends with |
|---|---|---|
| `idle` | the interval | `RunOnce` |
| `claim` | claimDue | `Claim` |
| `build` | buildRaw | `BuildRaw` (an error is not a DeliveryError: `markFailed`) |
| `smtp`, `accepted` | sendMail, before and after the server took the message | `SmtpAccepts`, `SmtpConfirms`, `SmtpFails` (DeliveryError: `markUncertain`) |
| `copy` | appendSentCopy | `AppendSentCopy` (an error becomes the warning) |
| `markSent`, `markMove` | the mark; if its write throws, the catch clause calls `markFailed` | `RecordSent`, `RecordMove` |
| `move`, `moved` | executeMoveItems, before and after the first message moved | `MoveThrows`, `MoveBegins`, `MoveReturns` |
| `markUncertain`, `markFailed` | the mark in the catch clause; if it throws, runOnce gives up | `RecordUncertain`, `RecordFailed` |

The store's handler operations (`Handler`) and the clock interleave with every
one of these. `Stop` is SIGTERM, `Exit` the `process.exit` of `shutdown`, which
may come at any `pc`; `CrashWorker` is death without warning, `RestartWorker`
`initialize` in the new process (which dies again if its write throws).
`handed[p]` counts how often the SMTP server accepted proposal p, or, for a
move, how often its batch began to take effect; `copied` is the Sent mailbox.

### How `MoveExecution` corresponds to `imap-move.ts`

The IMAP account is `box` and `uid` (where each message is) and `uidNext`. Two
actors the code does not control change it: `ForeignClient` moves or deletes a
message at any time, `Renumber` gives the messages of a mailbox new UIDs (a new
UIDVALIDITY, which the Worker does not look at; not while its session has the
mailbox selected). The server gives every message put into a mailbox the next
UID, `Place`.

A batch is proposed by `RequestMove` (`POST /api/proposals`) or
`RequestRestore` (`POST /api/proposals/:id/restore`, which calls
`reverseMovedItems`), both behind `validateMoveRequest` (`ValidMove`). Then
`PrepareItem` is one turn of `prepareMoveItems`' loop; the proposal exists after
the last. `who` in an item is history: the message that was looked at. Approval
and the outbox are reduced to `status`; `ProposalStore` and `Worker` model them.

`phase` is where `executeMoveItems` is:

| `phase` | waiting for | ends with |
|---|---|---|
| `idle` | the scheduler | `Claim` |
| `connect` | connect, verifyMailboxes | `Connect`, `ConnectFails` (the scheduler's `markFailed`) |
| `fetch` | lock and fetch of the next item, or, after the last, the outcome's write | `FetchItem`, `RejectItem` (gone, or `assertIdentity` throws), `FetchFails`; `MarkMoveOutcome` |
| `move` | MOVE, not carried out yet | `ServerMoves`, `MoveUnconfirmed` |
| `answer` | the answer to a MOVE carried out | `MoveConfirmed` (with or without UIDPLUS), `MoveUnconfirmed` |
| `down` | nothing: `initialize` throws at every start | — |

`results` is the local array of that name and is lost when the Worker dies.
Death and the next start are one action (`Restart`, or `RestartFails` when
`#load` cannot parse the file; `Storable` are the messages whose headers
`MoveItemSchema` accepts). `carried` is history: what the server did, for which
item. For a UID that disappeared after the check, MOVE does nothing and succeeds
nonetheless, so an item `moved` without a new UID may have moved nothing: the
properties claim a moved message only for items with a new UID, the only ones
that can be restored.

### How `ApprovalGate` corresponds to `server.ts`

`status` is the store's answer per proposal, with `carried` for sending and all
that follows; what it may become (`CanBecome`) is said by `ProposalLife`, which
`Worker` implements (`ImplementsLife`). A route is two steps. `Submit` (the
page) and `AppSubmit` (the app, which presents the proposal's token as well) are
everything up to the second store call: limiter, `store.get`, form signature,
secret; `right` says whether the secret was right, and a submission that passed
waits in `deciding`.
`Decide` is `store.approve` or `store.cancel`, with the store's own guard.
`Refuse` is an attempt that is counted and turned away earlier. Between the two
steps the proposal may expire, be claimed, or be cancelled by Actions
(`ApiCancel`), which needs no secret.

A signature is unforgeable, so a form *is* the pair it was signed for;
`PageForms`, `ViewForms` and `appTokens` are those the Worker hands out. `hits`
and `resetIn` are the limiter's entry of an address. `compared` and `intended`
are history: how often an address had a secret compared in each of the last
`Window` ticks, and which proposals somebody with the secret meant to approve —
judged by the form they submitted, not by the route it reached.

### How `ApprovalWait` corresponds to `tools.ts` and `worker-client.ts`

| `pc` | waiting for | ends with |
|---|---|---|
| `idle` | the MCP client | `Propose`, `Restore`, `CallCancel` |
| `create`, `created` | the request to the Worker, before and after it stored the proposal | `Stored`, `CreateFails` (refused, or `WORKER_REQUEST_TIMEOUT_MS`), `CreateAnswered` (returns, or sends the elicitation and begins the first delay) |
| `cancel` | the cancel request | `CancelAnswered` |
| `delay` | `setTimeout(APPROVAL_POLL_MS)` | `StartPoll` |
| `poll` | the poll, with the Worker client's timeout | `PollAnswered`, `PollFails`: found, or the loop's test (`NextRound`) |
| `found`, `gaveUp` | `await elicited`, after the loop | `Close` |

The elicitation runs beside the loop: `Elicited` is any way for it to settle,
the SDK's own timeout included. The code sends it, takes the deadline and tests
the loop's condition for the first time in one turn of the event loop
(`tools.ts:151-169`), so every wait has at least one delay and one poll; later
tests run in the turn in which a poll ends. No test is a step of its own.
`waited` counts from the elicitation; `Tick` does not pass a timer that is due.
`seen` is the proposal the tool holds, and `report` what it told its caller.
The limiter has a clock of its own: its windows are minutes, the wait's timers
seconds.

### How `McpSessions` and `ProxyExchange` correspond to `mcp-http.ts` and `proxy/index.ts`

`conn[c]` is what Actions does for a connection:

| `conn` | meaning | ends with |
|---|---|---|
| `none` | nothing | `Initialise`, `Request`; `Touch`, `Delete` and refusals are answered at once |
| `init` | `handleRequest` of an initialisation, no session yet | `Initialised` (onsessioninitialized), `InitRejected` |
| `lost` | the same, its connection gone | the same |
| `opening` | the session exists, the answer is not complete | `Finish`, `Fails` (the catch clause closes the transport) |
| `call` | a tool runs | `Finish` |
| `stream` | the GET stream | `Drop` of its session only |

`sessions` are the Map's keys, `quiet` the time since `lastSeen`. `Sweep` is the
interval, `Drop` closes transports and so ends their responses; `Signal` and
`Exit` are `shutdown` (`actions/index.ts`), `Killed` a death followed by
Docker's restart. The limit is tested by `Initialise` and the session inserted
by `Initialised`, with awaits of the SDK in between.

`httpServer.close` ends the listener and the connections that are idle at that
moment, no others. `sockets` are those that a closing Actions still has: the
ones it was busy with, and the ones on which the proxy's agent was sending a
request (`Signal`'s `arriving`). They stay open after their response and carry
further requests, of whichever exchange the agent gives them to (`Connects`:
an exchange without a connection takes over an idle one); such a request
refreshes `lastSeen`, begins a call, even a session. `KeepAliveEnds` closes an
idle one, `Exit` waits until none is left. Only when no connection is to be had
is a request refused (`Reachable`, `Refused`). `clients` are the same for the
proxy: after its signal `Ask` needs one of them, `ClientIdles` and `Leave` close
them, `ProxyExit` waits for the last.

`exchange[c].phase` is where the proxy is: `access` (verifying the Cloudflare
assertion), `upstream` (asked, no head yet; the only phase with a timeout),
`piping`, and `hung`: the upstream response was cut off in good order, which
the proxy does not notice. `heads` counts `writeHead`. A step of Actions that
completes responses (`Completed`) is one step with their end at the proxy
(`Deliver`); an error of the upstream request is `Broken`. A client that leaves
(`Leave`) only changes `left`: the proxy does not look at it again.

### The abstract specifications

`DeliveryContract` knows only the *stage* that the file gives a proposal
(none, open, closed, begun, sent, failed, incomplete, uncertain), who
authorised it and what the mail servers saw. `Worker` implements it with
`stage <- [p \in Ids |-> Stage(disk[p])]` (property `ImplementsContract`). The
mapping reads the *file*, because the file is what survives.

`MoveExecution` implements the same contract, with `handed` standing for "some
MOVE of the batch was carried out". That is the assumption `Worker` makes when
it treats a batch as one delivery (`MoveBegins`, `MoveReturns`, `MoveThrows`).

`ProposalLife` knows only the status of a proposal as the store's callers see
it: absent, waiting for approval, approved (scheduled or not), carried (claimed
and whatever follows), cancelled, expired. `ApprovalGate` takes it for the store
behind the routes. `Worker` implements it with the status a caller would be
given (`Standing`): what memory says, or, while the process is down, what the
next `initialize` will load. That holds while writes succeed
(`worker_durable`); a failed write can take a status back (`cancel_lost`).

## 3. Runs

| Run | Asks | Instance |
|---|---|---|
| `store_any_caller` | what the store promises to any caller, claims and marks in any order | 2 ids, 3 drafts (a send due a tick later, one move key with two different batches), window of 2 ticks, clock to 3, lag 1, 1 failed write, 1 crash |
| `worker_faults` | delivery with a failed write and a crash or shutdown at any step | 2 ids, a scheduled send and a move, window 2, clock to 2, 1 failed write, 1 crash |
| `worker_durable` | is what callers were told kept, does the store live as the approval routes assume, and does everything settle, when writes succeed | the same, window 1, clock to 3, no failed write, 2 crashes, lag 1, fairness |
| `worker_stuck` | *violation*: a claim whose write fails | 1 failed write, no crash, fairness |
| `cancel_lost` | *violation*: a cancellation whose write fails | 1 failed write, 1 crash |
| `moves` | are only approved messages moved, are results true, is a restore exact | 2 batches, 3 messages, 2 mailboxes, requests of 1 and 2 items, 1 foreign change, 1 renumbering, 1 crash |
| `approvals` | can only the intended be approved, is guessing bounded, does every call return, in time and with the truth | 2 proposals, 1 client address, limit 1 per window of 2 ticks, 2 submissions in flight; wait 2, poll 1, request timeout 1, elicitation timeout 4; fairness |
| `gateway` | do sessions and exchanges end, is none lost, are requests answered, do both processes stop unless they are kept asking | 2 connections, 2 session ids, limit 1, idle time 1, verified and other credentials, 1 failure; fairness |
| `wait_cut_short` | *violation*: a client that accepts the elicitation before the time is up | as `approvals` |
| `wait_overrun` | *violation*: a client that leaves the elicitation open | as `approvals` |
| `restore_renumbered` | *violation*: a restore after the mailbox got new UIDs | 1 renumbering |
| `outbox_rejected` | *violation*: a proposal whose headers the schema rejects | 1 crash |

Properties:

* `FollowsDiagram`, `DiskIsBehind`, `OneProposalPerKey`, `ApprovedInWindow`
  (store alone), `AnswersLast` (over time, for callers).
* `AtMostOnce`, `OnlyAsAuthorised`, `WriteAhead`, `VerdictIsTrue`,
  `SentCopyIsKept`, `CancelSticks`, `EveryProposalSettles`,
  `ImplementsContract`, `ImplementsLife`.
* `MovesOnlyApproved`, `ResultsAreTrue`, `EachItemOnce`, `RestoreIsExact`,
  `ImplementsContract` (`MoveExecution`).
* `ApprovedAsIntended`, `GuessesBounded`, `LockoutEnds` (the gate),
  `WaitBounded`, `ReportIsTrue`, `NoEarlyGiveUp`, `CallReturns` (the call).
* `NoOrphans`, `OverCommitBounded`, `ShortCallsSurvive`, `AbandonedSessionsGo`
  (the session table), `OnlyAuthorisedServed`, `OneHead`, `StreamKept`,
  `EveryRequestIsAnswered`, `ShutdownEnds` (with the proxy).

**Bounds and why they are enough.** Two proposals are what any property
relates (a key shared by two proposals, a claim that expires a neighbour, a
write that publishes another proposal's withheld progress). The window closes
and a schedule falls due within two ticks of a creation, so approval before,
at and after both limits occurs. One failed write reaches every catch clause
and every divergence of memory and file; a crash after it makes the divergence
visible; `worker_durable` has two crashes so that recovered work is interrupted
again. `MaxClock` stops the clock: in that run `CreateUntil` keeps creations
early enough for their windows, of one tick, to close. Once the clock is stopped
and everything settled, `Get` can always be called, so the runs need no
exception for deadlock. For moves: two batches are an original and its restore,
or two batches about the same messages; two items are a batch that stops half
way; three messages are one identified by its Message-ID, one by its headers,
and one the outbox cannot hold. A foreign change makes a UID disappear before or
after the check; a renumbering lets an old UID meet another message.
`CHECK_DEADLOCK FALSE` in the three cfgs of `MoveExecution`: when both batches
are settled and the bounds are used up there is nothing left to do, and `down`
is final. Ids and batches are symmetric where no liveness is checked.

For approvals: a form of one proposal can only be tried on a second one, and two
submissions in flight are an approval racing a cancellation. With limit 1 the
second attempt is over it, and a window of 2 ticks lets attempts fall at the end
of one window and the start of the next, which is where twice the limit comes
from. The wait's four durations are chosen so that each way to end comes first
in some behaviour: an answer before the deadline 2, the elicitation's 4 only
after deadline, poll and its timeout, a poll that fails and is repeated, a poll
that is still running when the deadline passes. The gate's
clients are independent of each other, so one is enough.

For the gateway: the limit can only be passed by initialisations that run at
once, so two connections and limit 1 show it; two session ids let one session
be swept while the other is used. Idle time 1 makes a call outlive it after two
ticks. `assertion` and `other` are the two kinds of credentials between which
the proxy decides; a client with the token is treated like one with a verified
assertion from the moment the upstream request starts (no client of the
instance presents it; `ServedOnlyIfAuthorised` is for all credentials). One
failure is a reset, or Actions killed, in any phase. Two connections are enough
for one that a closing process has kept to be handed to the other's request.

**Fairness** (`Fairness` in `Worker`), and what justifies it: the clock
advances; the scheduler's next step is eventually taken (the interval fires,
and every SMTP and IMAP call has connection, greeting and socket timeouts); a
shutdown ends in an exit (the container runtime kills after
`stop_grace_period`); the process is restarted (`restart: unless-stopped`,
`compose.yaml:17`). No fairness on handlers: nobody has to approve, cancel or
look. Weak fairness is on the *disjunction* of the scheduler's steps, so it
says nothing about which way an SMTP call ends.

In `ApprovalWait`: both clocks advance, timers that are due run, a request to
the Worker ends (by `AbortSignal.timeout`), and an elicitation ends by the SDK's
timeout if by nothing else. Nothing obliges a client to answer it, a human to
decide, or a poll to succeed. In `ProxyExchange`: the clock and the sweeper's
interval, the proxy's timeout, the verification of an assertion and the SDK's
initialisation (each of which ends or throws), the tools (each of which ends by
`CallReturns` or by the timeout of its request), Node's `keepAliveTimeout` on
both servers (5 s unless set, and the code does not set it), and `process.exit`
once it may. Nothing obliges a client to leave or to stop asking, a stream to
end, or a connection to break. Weak fairness of `SocketIdles` and `ClientIdles`
asks for nothing of a connection that is used again and again: `ShutdownEnds`
therefore says that a process that was told to stop stops, *or* is asked for
something for ever over the connections it kept (or, the proxy, waits for a
client whose response was cut off in good order).

### What the violations show

* `cancel_lost`: cancel mutates, its write fails, the caller sees an error and
  retries; the retry finds `cancelled` in memory and answers so without
  writing (`store.ts:238`). A crash brings the approved proposal back and it is
  carried out. With working writes `CancelSticks` holds (`worker_durable`).
* `worker_stuck`: claimDue mutates, its write fails, the cycle is abandoned.
  The entry says `sending` and nobody works on it until a restart turns it
  `uncertain` (`store.ts:271`).
* `restore_renumbered`: `reverseMovedItems` keeps the destination UID and drops
  the Message-ID. If the mailbox was renumbered since, the restore is prepared
  from whatever message has that UID now, and the identity check at execution
  compares that message with itself (`imap-move.ts:223`). A human sees and has
  to approve the new snapshot, but the restore is not of what was moved.
* `wait_cut_short`: the loop of `awaitApproval` runs only while the elicitation
  is unsettled (`tools.ts:168`), and a client settles a URL elicitation as soon
  as its user agrees to *open* the page. After the delay and the poll under way
  at that moment the call returns the snapshot of the creation, long before the
  deadline and before a human could well decide. What it says is true
  (`ReportIsTrue`), but it does not wait "for the outcome".
* `wait_overrun`: the other way round, `await elicited` (`tools.ts:182`) comes
  after the loop, and a client that shows the elicitation until somebody answers
  keeps the call until the SDK's timeout, whatever `APPROVAL_WAIT_MS` says, even
  when the decision is known. `SECURITY.md:147` says that the setting bounds the
  wait. The property grants a last round of the loop, and the run needs a
  setting below the SDK's timeout. What does hold is `WaitBounded`.
* `outbox_rejected`: subject, sender and Message-ID go into the outbox as the
  message has them, and the schema (1 to 1000 characters) is applied only when
  the file is read (`store.ts:52`). With such a proposal in the file every start
  of the Worker fails: what it persisted (`README.md:14`) it cannot execute.

## 4. Proofs

TLAPS checks, for any set of proposals, keys, drafts, any window and any bound
on clock, lag, crashes and failed writes (the assumptions are
`KeysAssumption`, `DraftsAssumption`, `BoundsAssumption`, `NoJobAssumption`,
and for the modules of the last rows those named below the table):

| Theorem | Statement |
|---|---|
| `StoreTypeCorrect` | `StoreSpec => []StoreTypeOK` |
| `DiskIsBehindCorrect` | `StoreSpec => []DiskIsBehind` |
| `ApprovedInWindowCorrect` | `StoreSpec => []ApprovedInWindow` |
| `FollowsDiagramCorrect` | `StoreSpec => FollowsDiagram` |
| `OneProposalPerKeyCorrect` | `StoreSpec => []OneProposalPerKey` |
| `TypeCorrect` | `Spec => []TypeOK` |
| `InvariantCorrect` | `Spec => []IInv` |
| `AtMostOnceCorrect`, `OnlyAsAuthorisedCorrect`, `WriteAheadCorrect`, `VerdictIsTrueCorrect`, `SentCopyIsKeptCorrect` | `Spec => []` the property of that name |
| `ImplementsContractCorrect` | `Spec => ImplementsContract` |
| `PromisesKept`, `VerdictsAreFinal` | `Spec => []Promises` of `DeliveryContract`; a proposal with a verdict stays as it is |
| `VerdictsLast` | a verdict in `outbox.json` is never overwritten and nothing more is handed over |
| `CancelSticksCorrect`, `AnswersLastCorrect` | if `MaxFaults = 0`: `Spec => []CancelSticks`, `Spec => AnswersLast` |
| `NothingIsLeftSending` | if `MaxFaults = 0`: only the proposal in the scheduler's hand says `sending` |
| `ImplementsLifeCorrect` | if `MaxFaults = 0`: `Spec => ImplementsLife` |
| `MoveTypeCorrect`, `MoveInvariantCorrect` | `Spec => []TypeOK`, `Spec => []IInv` of `MoveExecution` |
| `MovesOnlyApprovedCorrect`, `ResultsAreTrueCorrect`, `RestoreIsExactCorrect` | `Spec => []` the property of that name |
| `MoveContractCorrect` | `Spec => ImplementsContract` of `MoveExecution` |
| `EachItemOnceCorrect` | `Spec => []EachItemOnce` |
| `BatchesRest` | a batch with a verdict keeps status and results, and no command for it is carried out any more |
| `ExecutionComesToAnEnd` | each step of `executeMoveItems` lowers the natural number `Work`; no other step raises it |
| `ComesBackWithStorableHeaders` | if `Messages \subseteq Storable`: `Spec => []WorkerComesBack` |
| `RestoresReturnWithoutRenumbering` | if `MaxRenumbers = 0`: `Spec => []RestoreReturnsTheMessages` |
| `WaitTypeCorrect`, `OnlyIntendedApprovals` | `Spec => []TypeOK`, `Spec => []ApprovedAsIntended` of `ApprovalWait` |
| `CallsAreBounded`, `ReportsAreTrue`, `WaitsAreNotCutByPolls` | `Spec => []WaitBounded`, `[]ReportIsTrue`, `[]NoEarlyGiveUp` |
| `GuessesAreBounded` | `Spec => []GuessesBounded` |
| `LockoutsShrink` | a lockout only gets shorter, whatever is submitted |
| `WaitsComeToAnEnd` | each step of a waiting call lowers the natural number `Remaining` |
| `GateFollowsLife` | `Spec => LifeSpec`: the gate moves proposals along `ProposalLife` |
| `ProxyProofs!TypeCorrect`, `NothingOutlivesItsSession`, `LimitExceededByFewerThanConnections`, `ServedOnlyIfAuthorised` | `Spec => []` of `TypeOK`, `NoOrphans`, `OverCommitBounded`, `OnlyAuthorisedServed` of `ProxyExchange` |
| `EachExchangeEndsWithOneHead`, `StreamsAreKept`, `ShortCallsAreNotSwept` | `Spec => OneHead`, `StreamKept`, `ShortCallsSurvive` |
| `ExchangesGoForward` | every change of an exchange before its end lowers the natural number `ToGo` |
| `ExitCutsOffNothing` | when a stopping Actions exits of itself, nothing is being served |
| `ActionsWindsDown` | once told to stop, Actions never listens again and gets no further connection; every step but a request over those it has brings connections nearer their end and lets sessions age |

The rows about `MoveExecution` are for any messages, headers, mailboxes, batches
and requests and any bound on crashes, renumberings and foreign changes
(`MailAssumption`, `PolicyAssumption`). Those about `ApprovalWait` are for any
proposals, addresses, limit, window and the four durations of the wait, zero
wait included (`GateAssumption`, `WaitAssumption`); those about `ProxyExchange`
for any finite sets of connections and session ids, any limit and idle time,
any credentials, with Cloudflare Access on or off, and any number of failures
(`SessionsAssumption`, `ProxyAssumption`).

*The argument for the store.* `StoreInv` is types, `Fresh` (an id that was not
issued is absent everywhere), `DiskIsBehind`, and `Timely` per entry. All
handlers, and a claim that finds nothing, are shown to have one common effect,
`HandlerEffect`: each entry of memory and of a newly written file is made from
the entry *in memory* by leaving, creating, closing or approving it. Claims,
marks, death and restart have an effect lemma each. The invariant is then
preserved effect by effect. `OneProposalPerKey` needs more: a restart replaces
memory by the file, so keys have to be unique in both, and they are because
every proposal in the file is in memory under the same key (`KeyInv`).

*The argument for the Worker.* None of the five safety properties is inductive.
`IInv` adds what they rest on: each entry, in memory or in the file, tells the
truth (`EntryIsTrue`); memory is the file plus the progress that failed writes
withheld, and only work whose claim reached the file is ever decided
(`FileLags`); the mail servers act only after that (`HandedAfterWrite`); and
the program counter knows what happened to the job (`LoopKnows`). The heart is
that a claim whose write fails never reaches the mail server while a claim
whose write succeeds is visible to every later restart, so `handed` can become
1 only once. For proposals other than the job one lemma, `QuietGood`, covers
handlers, claims and marks; the job has a lemma per kind of step (`ClaimDueGood`,
`MarkGood`, `MailStepGood`, `DieIInv`, `RestartIInv`).

*The argument for answers.* With working writes memory is the file, except for
expiries that `createMove` finds and does not write; `InStep` says that these
are exactly the ones the next `initialize` will find again, because the clock
does not run back. `DurableInv` adds that what a caller was told leads to where
the proposal stands (`Standing`): in memory, or, while the process is down, in
the file as it will be loaded. Every step is an operation that answers, if at
all, with what memory says (`Operation`), a death, a start or a tick.

The same lemma of edges gives two more results. An edge of the diagram is a step
of `ProposalLife` or none (`EdgeIsLife`), and `Standing` takes at most one edge
per step of the Worker, dying and loading included (`DieEdge`, `RestartEdge`,
`TickEdge`): that is the refinement `ImplementsLife`. And with working writes
nothing but a claim makes a proposal `sending`, and every way out of the loop
writes a verdict or dies (`SendingIsInHand`).

*The argument for the refinement.* Every write publishes memory, so each step
takes each proposal's stage one step along the contract (`Stepped`). When a
write publishes what an earlier failed write withheld (`PublishSteps`),
`FileLags` says that at most one stage lies in between, and `EntryIsTrue` that
the verdict published is true; `QuietSteps`, `ClaimSteps`, `MarkSteps`,
`HandSteps` and `RestartSteps` are the other kinds of step. What the contract
promises is proved once, of the contract (`ContractProofs`), and inherited:
`VerdictsLast` is `VerdictsAreFinal` read through the mapping, with
`VerdictOfStage` for the way back from a stage to the status.

*The argument for moves.* `MovesOnlyApproved` needs to know that between the
check and MOVE the checked UID is not given to another message. It is not,
because UIDs only grow: `UidsGrow` keeps every UID in use below `uidNext`,
`InHand` keeps the checked one below it, and `PlaceKeeps` shows that a message
put into a mailbox, by the Worker or by another client, takes neither.
`ResultsAreTrue` rests on `CarriedInOrder` (no MOVE was carried out for an item
the loop has not reached) and `ResultsSoFar` (the array in memory is true item
by item, and only results change); both ways for a batch to end are one lemma,
`EndStep`. `RestoreIsExact` holds because a stored original never changes again
(`RestoresKept`, which follows a restore from its requests to its items) and,
without renumbering, a destination UID still belongs to the message moved
(`UidsGrow`, third part). For the contract, `StatusSteps` lists what a status may
become without a MOVE; that `sent` implies a MOVE needs that no batch is empty.
`EachItemOnce` follows from `CarriedInOrder`: the server acts only on the item
after the results collected so far, for which nothing was carried out yet, and a
restart gives up a batch instead of beginning again. `BatchesRest` is `OneJob`
at work: the loop's batch is the only one in `sending`. Two theorems say that
the violations found have one cause each: with headers that the schema accepts
every file loads (`ComesBackWithStorableHeaders`), without renumbering every
restore is exact (`RestoresReturnWithoutRenumbering`).

*The argument for the wait.* `WaitInv` has a part for the gate and one for the
call. `ApprovedAsIntended` is not inductive, because the status changes one step
after the check: `DecidingIntended` says that an approval on its way to the
store was meant. `Truthful` follows what the call knows from creation to
report: `seen` can become the present status by steps of the store, and what
reaches a status reaches all that the store may make of it, so other actors'
steps keep it true.
`Timed` bounds `waited` by program point: the test of the loop is passed before
the deadline, and from there delay and poll cost at most their timers; after the
loop only the elicitation is left, which ends at its own timeout. Inside the
loop `waited` stays below the setting and one round, so whoever has waited longer
is past it: the second half of `WaitBounded`.

*The argument for the limiter.* `LimiterInv` splits the last `Window` ticks at the
moment the limiter's present window began: secrets compared since then
(`Current`) are at most `hits`, and so at most `Limit`; those compared before
(`Past`) all fall into the window before, and are at most `Limit` as well. A
tick moves the split along, the end of a window makes the present the past, and
what is then older than `Window` is forgotten. So twice the limit can be reached
at the seam of two windows, and no more.

*The argument for the gateway.* The table's part of `ProxyInv` is types,
`NoOrphans`, that only served connections are on a session (`OnFits`),
`AgeCoversQuiet` (a response is at least as old as its session's last request,
which makes `ShortCallsSurvive` a fact about one sweep) and the limit. For the
limit, sessions *plus* initialisations under way are counted: an initialisation
starts with fewer than `MaxSessions` sessions and at most all other connections
pending, and completing one moves a unit from one summand to the other.
`ExchangeFits` relates the two processes per connection: what Actions works on
for a client has an exchange that waits for it and carries the token, no head is
out before `piping`, and the token came from the client or replaced a verified
assertion. Shutdown rests on `KeptBusy`: a server that no longer listens is busy
with connections in `sockets` only, because a request takes one of those or the
place of an idle one. So there is nothing to cut off when none is left
(`ExitCutsOffNothing`), and their number cannot grow (`NoMoreSockets`).

*Towards liveness.* Liveness itself is beyond the prover and stays with TLC:
`EveryProposalSettles`, `LockoutEnds`, `CallReturns`, `EveryRequestIsAnswered`,
`AbandonedSessionsGo`, `ShutdownEnds`. What is proved is the part of it that is
about single steps, for every value of the constants. Something that has to come
to an end is given a natural number that each of its steps lowers and nobody
else's raises: a waiting call (`WaitsComeToAnEnd`), an execution
(`ExecutionComesToAnEnd`), an exchange (`ExchangesGoForward`), a stopping server
(`ActionsWindsDown`), a lockout (`LockoutsShrink`). What remains to TLC is that
some step is always possible and is taken.

Only model-checked are these liveness properties and the violations of section 3.

## 5. What is not modelled

* **Data.** Messages, headers, notes, `sentAt`, error texts. `attempts` changes
  only together with `sending`. `error` is kept as the bit `warned` of a sent
  proposal.
* **The clock** never runs backwards, and a tick is the resolution of every
  comparison.
* **Ties** in claimDue's sort are broken by array position in the code; the
  model allows any of the equal entries.
* **The disk** keeps what `rename` made visible: the model's crashes are of the
  process, not of the machine (the directory is not fsynced). A corrupt file,
  which makes initialize throw until an operator intervenes, is modelled only
  where the Worker itself writes it (`outbox_rejected`).
* **Moves.** Flags are not modelled; a MOVE is one atomic step of the server
  (a server without MOVE would need copy and delete); a Message-ID
  identifies a message of the instance. Idempotency keys and failed writes are
  `ProposalStore`'s.
* **Temporary files** left by failed writes, and the growth of the outbox,
  which is never pruned.
* **SAVE_SENT_COPY** is on; off, `copied` and the warning play no role.
* **The gate's store** has working writes, like the Worker in
  `ImplementsLifeCorrect`: what a failed write does to an approval or a
  cancellation is `ProposalStore`'s and `Worker`'s (`cancel_lost`).
  A form counts as issued as soon as its proposal exists, whether
  or not a browser asked for it.
* **One call of a tool.** Concurrent calls share only the store, and the gate's
  own `Create` and `ApiCancel` stand for them. A repeated idempotency key makes
  the tool report an already moved batch with its present status, as modelled;
  the accompanying words (`i18n.ts:122`) are not.
* **How long a wait is.** `WaitBounded` is in terms of the settings and of the
  SDK's timeout for the elicitation (60 s unless given).
* **Connections while a process listens.** A request then always finds one, a
  new one if need be, so which are kept alive is not modelled before the signal;
  after it, which of the kept ones a request gets is any idle one.
* **The limiter's memory.** `GuessesBounded` and `LockoutEnds` are about one life
  of the Worker: the limiter is in memory, and a restart, which forgets it, is
  not a step of `ApprovalGate`.
* **The SDK's transport** is external. Whether two initialisations can really
  both pass the limit depends on whether it awaits anything before it creates
  the session; the model lets it, and `OverCommitBounded` bounds the excess.
* **Durations between containers.** Docker kills 30 seconds after its signal
  (`compose.yaml:18`), before the sweeper would end a stream; `ShutdownEnds` says
  that the processes would stop by themselves, `Killed` that they may be stopped.
* **After a client left**, its stream stays open at Actions until the session
  is swept, and the one stream a session may have is taken: a client that
  reconnects is refused that stream until then. `AbandonedSessionsGo` is the
  promise that remains.
* **Policies** other than those of moves: `validateRecipients`,
  `validateSchedule`, `hostAllowed` and the schemas of messages only refuse
  requests, by rules about strings and addresses; a refused request is
  `CreateFails`, or never starts. Headers, CORS, previews and HTML change no
  state.
* **In-chat app**: the DOM, and that buttons are disabled during a call. The
  Worker does not rely on either.
* Components without state worth a model: the Reader and `registerStateless`
  (nothing is kept between requests), MJML, configuration (read once, the values
  that matter are CONSTANTS), translations, deployment.

## 6. Plan

Done, in this order:

1. `ProposalStore`, `DeliveryContract`, `Worker` and their runs.
2. `StoreProofs`: types, `DiskIsBehind`, `ApprovedInWindow`, `FollowsDiagram`,
   `OneProposalPerKey`.
3. `WorkerProofs`: `IInv` and the safety properties that follow from it;
   `RefinementProofs`: the Worker implements `DeliveryContract`.
4. `MoveExecution` (`imap-move.ts`), its runs, and `MoveProofs`: invariant,
   safety properties, refinement of `DeliveryContract`.
5. `McpSessions` and `ProxyExchange` (`mcp-http.ts`, `proxy/index.ts`), composed
   because each one's end depends on the other, and `ProxyProofs`.
6. `DurableProofs`: answers last and cancellations stick while writes succeed.
7. `ApprovalGate` and `ApprovalWait` (`server.ts`, `tools.ts`,
   `worker-client.ts`, `app/main.ts`), and `WaitProofs`.
8. `ProposalLife` in place of the gate's own idea of the store, with the
   refinement by the Worker; `ContractProofs` and what the Worker inherits; the
   limiter's bound; progress of calls, executions, exchanges and shutdown; the
   positive counterparts of the violations.

A module of the policies was planned and dropped: the code is a handful of pure
refusals, whose reference definition would repeat them.

Left, most useful first: copy and delete in place of MOVE, and two messages that
share a Message-ID, in `MoveExecution`; progress of the scheduler's loop, by the
number of claimable proposals; what a failed write leaves of `ProposalLife`.
