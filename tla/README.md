# Oracle Amigo in TLA+

Oracle Amigo lets the personal agents of two colleagues exchange messages and
files: a *local agent* on each machine (`src/`, SQLite), a *control plane* that
relays between them (`apps/control-plane`, Postgres), and interfaces on top.
This directory models the parts where something can go wrong that a unit test
would hardly reach, checks them with TLC on small instances, and proves all of the
safety that is checked with TLAPS for every size.

## The system

| Component | State | Operations | Hard because | Correct when |
|---|---|---|---|---|
| A2A relay queue (`apps/control-plane/src/relay`) | `relay_tasks`, `relay_messages` | send, fetch inbox, ack, respond, sweep | handlers read before their transaction; two tables; a sweep in two statements; crashes between them | the tables agree, terminal and acked stay so, a key names one task, nothing hangs |
| Relay delivery (`src/runtime/InboxPoller.ts`, `RemoteTaskDispatcher.ts`) | `local_relay_dispatches`, chat timeline, runs of `pollOnce` | poll, dispatch, report, record, ack | polls overlap; calls are lost or served late; either side restarts | what is acked is recorded, "stored" is true, no more writes than deliveries |
| Voice commands (`src/voice`, `executeRemoteFileRequest`) | `voice_commands`, executions in memory | create, confirm, cancel, send, late result | retries of a send that may still be served | the owner is asked once per command |
| Receiver approvals (`ReceiverAgentOrchestrator`, `ReceiverApprovalRoutes`) | `receiver_approvals`, transfers in memory | create, approve, reject, background transfer | the outcome is written after the answer, without looking again | only what was selected leaves; outcomes stand |
| File requests end to end (the dispatcher's `file.request` and `file.transfer.available`) | the ledgers, agentic storage | search, fetch, store, receipt, tell | dispatches overlap; one of five steps fails; either agent restarts | asked, agreed, held, confirmed, in this order |
| Approvals and what they set off (`src/protocol`, `src/storage`, `ApprovalTransferOrchestrator`) | `approval_requests`, `approval_transfer_jobs` | approve, reject, feedback, rebind, stage, upload, announce | five awaits after a synchronous decision; overlapping calls share one job row; files change | only approved bytes leave, decisions are final, what is announced exists |
| File transfers (`apps/control-plane/src/transfers`) | `file_transfers`, encrypted files | init, upload, download, receipt, sweep | file and row are never written together; the sweep does not look again | no ready row without a file, expired is final, receipts count |
| Sandbox sessions (`src/sandbox`) | the map of sessions, the chain of promises, cleanup timers | create, run, close, time out | whoever ends tidies up the chain others queue on | one operation at a time, every session closes |
| Agent runs (`src/agent-runs`) | runs in memory | probe, reason, search, run a command, time out | a run that lost the race goes on | every run settles, an answer stands |
| Signed-in user (`src/cloud`, `src/enrollment`, `auth/AuthService.ts`) | `local_cloud_identity`, `refresh_tokens` | login, refresh, enroll, logout, clear, reset; disable by the admin | four kinds of call read the row, wait, and write over it; a refresh token is good once; the admin revokes at any time | no refresh presents a used or revoked token, but for the exceptions below |
| Presence (`apps/control-plane/src/presence`) | `presence`, `agent_instances` | heartbeat, enroll, disable, sweep | a heartbeat writes after its checks; the sweep is two statements | nobody who was disabled stays online |
| Audit chain (`apps/control-plane/src/audit`) | `audit_events` | append, verify | time, last hash and insert are three steps | the chain verifies |
| Task workflow, contacts, directory, chat storage, notifications, admin, ANP, search, interfaces | | | | not modelled: see the end |

The requester's voice command (or chat) sends a relay task; the owner's agent polls,
dispatches, searches and asks its user; approving starts a transfer to the control
plane and a `file.transfer.available` message through the same relay; the requester's
agent downloads, verifies, sends a receipt to the control plane and tells the owner.

## Modules

A statement or transaction of the database is one action, and so is the code of an
agent between two awaits. What a step read before an await is kept in a variable until
it is used.

* **RelayLifecycle** is what the relay promises a sender: a task is absent,
  pending, held or done, only moves forward, and is unique for its key.
* **RelayQueue** is the relay's two tables. Handlers that read first (`ackRelay`,
  `respondRelay`, `sendRelay`'s lookup) are two actions with the snapshot kept in
  `handler` or `send`. `FetchInbox` is the whole fetch transaction: expiry, dead
  letter, claim. Tasks are named by the request that inserts them. Timestamps are
  the two facts the queries read from them, `overdue` and `backoff`. It implements
  RelayLifecycle (`ImplementsLifecycle`).
* **RelayDelivery** extends RelayQueue with the receiving agent: runs of
  `pollOnce` call the actions of RelayQueue. A call is the handler's read and its
  transaction; `NoAnswer` abandons it, `LateCommit` lets the control plane finish it
  anyway. `ledger` is `local_relay_dispatches`, `timeline` counts appends to the chat.
* **VoiceCommand** is the requester's table and its executions. A send that is not
  answered goes to `stray` and may be served at any later time.
* **ReceiverApproval** is the owner's table, the background transfer an approve kicks
  off, and what the control plane holds of it (`uploaded`, `announced`). Bytes are the
  file and the version it had when it was read.
* **FileRequest** extends these two with the dispatches between them: the owner's
  search, the requester's fetch, their ledgers and receipts. Of the relay it uses what
  RelayDelivery establishes, that a message is dispatched any number of times,
  overlapping ones included, until there is a ledger row. **Handover** is its
  abstract specification: a file changes hands only after the requester asked and the
  owner agreed to it, a receipt stands for it, nothing is taken back.
* **ApprovalTransfer** is one approval of a relayed request on the older path and what
  approving it sets off. A decision is one synchronous step; an approving call then
  runs through the awaits of `scheduleForApproval` with the row it was given. `agreed`
  remembers what the user approved. Idempotency keys change only the wording of an
  answer (a recorded key implies a decision), so they are not state.
* **FileTransfer** is the row and the file of each transfer. An upload is one
  transaction that writes the file before it commits: others see `initialized`
  until then, and updates of the row wait (`Unlocked`), so `uploading` is never
  seen. The sweep chooses, deletes and expires in separate steps.
* **SandboxSession** is the session map, its timers and `withSessionLock`: `lock` is
  the last promise of the chain, `op[o].after` the promise an operation awaits.
* **AgentRun** extends it with the runs: the probe before the loop, the loop and the
  timeout that races it. A run's commands are operations like any user's.
* **UserSession** is the identity row, the calls that rewrite it and the state of the
  tokens. The control plane lets a call in and serves it in two steps (`LetIn`), and
  the admin may disable its user in between; `disabled` are the users it did.
  `spoiled` is a history variable: a logout, or a refresh whose answer nobody took, has
  happened since the last sign-in.
* **Presence** is one instance, its presence row, heartbeats in three steps and the
  sweep in two. Times are ages; beyond `OldAge` no comparison changes. Heartbeats say
  "online", as the agent's `HeartbeatService` does; the endpoint would take other
  statuses, which nobody in the repository sends.
* **CloudAudit** is the rows of one organisation; `overlapped` is a history variable.
* The **...Proofs** modules hold the theorems about the module they are named for;
  FileRequestProofs also those about ReceiverApproval, AgentRunProofs those about
  SandboxSession, TimedServicesProofs those about FileTransfer and Presence,
  RecordsProofs those about UserSession and CloudAudit.
* The **MC** modules give the constants their values. `MCTimedServices` and `MCRecords`
  put services that do not meet into one run: the variable `service` (`record`) chooses
  one at the start and the others never begin, so the states are a sum, not a product.

Definitions named `<definition>_<what_went_wrong>` are the same definition with a
bug one could plausibly have written; each property is broken by one of them.

## What is checked

Passing runs (each explores its whole state space):

| Run | Instance | Shows |
|---|---|---|
| RelayQueueSafety | a keyed send, its retry and another, two handlers | the tables agree; one key, one task; terminal and acked are final; the lifecycle is implemented |
| RelayQueueLiveness | two sends, sweep fairness | no task stays undelivered, also when its enqueue was lost or nobody polls; where the receiver polls, a half-done sweep is finished |
| RelayDelivery | a chat and a status message in one batch, two polls, one server worker, two attempts (3.1 million states) | acked implies recorded; "stored" is accounted for; no more writes than deliveries; the ledger decides once |
| FileRequest | one command, two approvals of it, two files, two fetches, restarts of both agents (1.1 million states) | only what was selected leaves; receipts stand for stored bytes; outcomes stand; Handover is implemented |
| ApprovalSafety | three approving calls, one changing file, failures and restarts | approved bytes only; announced is uploaded; completed is delivered |
| ApprovalRebind | two calls, two files, a rebind, failures, no restart | nothing leaves unapproved; the stored copy is the approved one; decisions are final; jobs settle |
| TimedServices | two transfers and two sweeps; or two sessions, a run and a user's call; or one instance, two heartbeats and the sweep | no dangling transfer, expired is final, receipts count, overdue transfers settle; one operation at a time, sessions close, runs settle, answers stand; a disabled instance fades out |
| Records | two users, three tokens, two calls; or two commands, three executions; or three appends | no token used or revoked before is presented, but for disabled users and spoiled states; one task per command; the audit chain verifies where appends do not overlap |

Runs that find a disagreement between code and documentation:

| Run | Documented | Found |
|---|---|---|
| RelayQueueRegress | a repeated ack does not regress (`docs/relay-architecture.md:28`) | an ack that read its row early sets `waiting_approval` back to stored |
| RelayDeliveryUnwritten | written before ack, failures retried (`README.md:130`) | a recorded failure makes the retry a duplicate, which is acked |
| ApprovalDuplicate | duplicate approvals create no duplicate transfers (`docs/security-model.md:11`) | a second approve before the upload begins does |
| ApprovalRebound | approval binds the file (`docs/api-contract.md:122`) | a rebind under way lands after the approval, and a replay uploads it |

### Seen while modelling

These are in the models as the code has them. Where a property below holds, it holds
in spite of them or says where it stops.

* Voice commands: a failed execution clears mission and task; a retry after a lost
  answer stores its own `missionId` beside the task of the first execution
  (`docs/voice-command-api.md:33` has each command store its linked ids); a restart in
  `submitted` leaves the command there; a late result overwrites `cancelled`
  (`VoiceCommandService.ts:209`). One task per command rests on the key
  `voice-<id>`, which a client could replace and none in the repository does.
* File requests: a second receipt is refused, so after a stop between receipt and
  message the owner is never told; a receiver approval does not bind bytes, the file is
  read when the transfer starts; after a restart an approval stays `approved`.
* Approvals: no decision looks at `expires_at`, although `docs/security-model.md:10`
  counts expired ones as terminal.
* Transfers: `docs/control-plane-architecture.md:185` has the sweep delete expired
  rows, and `expireOldTransfers` marks them `expired`.
* Sandbox: a timer's close that queued behind a user's close throws in a promise nobody
  awaits, and the agent stops (`AgentStops`); when closing a machine throws, the
  session stays in the map without a timer (`broken`); a failed probe forgets its
  session, which lives until its timer.
* Signed-in user: a refresh writes back the status from before its await; a login
  that overlaps a refresh or an enrollment mixes two identities in one row; a refresh
  or an enrollment that ends after a logout brings its part of the row back; a lost
  answer to a refresh loses the session; a call whose refresh failed clears the tokens
  a login may have written meanwhile, and sets the status it had read before. A user's
  login, or refresh, that was let in before the admin disabled the user leaves a live
  token, which is refused at every refresh (`AuthService.ts:127`, `AdminRoutes.ts:127`).
  `PresentsLiveToken` therefore has three exceptions: tokens of disabled users, and
  `spoiled` states, after a logout or after an answer nobody took.
* Presence: a delayed heartbeat writes an older time, and over `revoked`. What remains
  true is that it fades out (`DisabledFadesOut`).
* Audit: the time is taken before the last row is read; appends that overlap or share a
  millisecond may fork or misorder the chain, and it no longer verifies
  (`docs/database-backup-restore.md:39` expects that it does). `AuditVerifies` says
  that nothing else breaks it.

### Bounds

Every hazard listed in `PROJECT.json` is between two actors, so two handlers, two
polls, two sweeps, two fetches, two heartbeats and two cloud calls meet all of their
orders; a third attempt, call or append is given where a retry meets an overlap. Tasks
share no state except through keys and a fetch's batch: two tasks of one sender meet
both. Bounds of the code itself: `MaxAttempts`, `MaxBatch`, `MaxIterations`,
`ProbeCommands` (1 in TimedServices, 3 in the code). Bounds of the models: `MaxClock`
(three different times, for three appends), `SweepTakes` (a sweep lasts at most one unit
of time), `OldAge` (ages past every threshold are one), `OnlineFor` and `StaleFor`
(1 and 2 units; 1 and 5 minutes in the code, of which only the order matters),
and the finite sets of everything
that may be created. Sweeps, polls, heartbeats and fetches may run any number of times.
`CHECK_DEADLOCK FALSE` is set in Records only: all its appends and commands may end.
Symmetry is used only in runs without liveness properties. What is proved holds for
every value of the constants, so there the bounds do not matter.

### Fairness

The 60-second timer of `main.ts` keeps the sweeps of relay, transfers and presence fair
(`SweepFairness`, `PresenceFairness`); in `FileTransfer` the control plane is further
assumed not to be restarted for ever in the middle of its sweeps:
`<>[][Running]_vars`. Only `ExpiredMessageCloses` assumes that receivers poll, as its
premise `PollFairness`. `TtlElapses` and `TimePasses` are fair because time passes. An
upload transaction ends because a statement of it fails or commits; a heartbeat is a
request that ends. In `ApprovalTransfer` every await of a call is answered, with a
value or an error: the HTTP client has a timeout. `JobSettles` is checked without
restarts, because after one nothing resumes a job. In `AgentRun` timers fire, resolved
promises are continued, a command ends by its own timeout, and starting or closing a
machine succeeds or throws; the model and the file search need not answer, which is
why the run's timeout is there.

## What is proved

Assumed everywhere are the modules' `ASSUME`s on their constants: distinct names for
"none", positive bounds, functions with the right domains. Except where said, the sets
of actors may have any size, also none or infinitely many.

`RelayQueueProofs` further assumes `ForwardResponses`: receivers do not answer with a
status from before "stored", which `statusFromResponse` would accept and no agent in
this repository sends. `MessageAgreesWithTask` is not inductive alone: a handler that
is about to commit acts on what it read. The invariant `QueueInv` adds that such a
snapshot is stale in one direction only (`HandlerInv`: what was past delivery when read
still is), that the sweep holds expired tasks only (`SweepInv`), that rows come in pairs
(`RowsInv`) and that keys are unique (`KeysInv`). The argument: every step makes
only allowed moves (`StepMoves`); moves keep snapshots true enough (`HandlerStep`);
with those, an ack that closes a message finds or makes its task held
(`AgreementStep`). From `QueueInv` follow `TypeCorrect`, `Agreement`, `Idempotence`,
the action properties `Finality` and `AckFinality`, and `Refinement`, which maps
every step to a step of RelayLifecycle or a stutter. `AckKeepsProgressAlone` adds what
RelayQueueRegress leaves true: with one worker, which serves one request after another,
and receivers that do not answer "stored", what an ack has read is still so when it
commits (`AloneInv`), and it takes nothing back.

`RelayDeliveryProofs`, for any overlapping runs of `pollOnce`, first shows that agent
and control plane together are a behaviour of the queue (`UsesQueue`), so that
everything above carries over. None of the agent's invariants is inductive alone: a
request may be served long after the run that sent it has gone on, or ended.
`AgentInv` says what a run has done by each of its awaits (`PollInv`), that no two
runs wait for one call (`CallInv`), and that what a request said when it was sent is
still true when it is served (`HandledInv`): ledger rows and timeline entries are
never taken back (`TablesGrow`). `AckedRecorded` and `StoredAccounted` follow from
who acks a message (`AckedByAck`) and who stores a task (`StoredByHandler`).
`AckedAccounted` delimits RelayDeliveryUnwritten: a message acked without having been
written is on record as failed.
`ShownOncePerDelivery` counts the runs that still carry a task as showings to come
(`ShowingsInv`); it assumes that the set of runs is finite.

`VoiceCommandProofs`: a key names one task (`CommandInv`), which needs no more, since
whoever serves a send, early or late, looks the key up. `VoiceInv` adds that sends,
executions and tasks belong to remote commands past their preview
(`OnlyConfirmedAsk`) and that the task a command names is its own
(`TasksNamedAreOwn`). A preview may also be left by a cancel: `CancelEnds` says that
a command cancelled before anything was sent stays so.

`FileRequestProofs`: `FlowInv` joins what commands, owner and requester promise each
other. `OwnerInv` says by the place of a transfer what it has read, uploaded and
announced, and that one runs only for an approved row; that its outcome may be written
blindly follows, because an approved row is decided. `DispatchInv` says by the place of
a fetch what it has stored, receipted and told, and that nobody searches unasked. From
it follow `SelectedOnly`, `ReceiptHeld`, `DecisionsStand`, and `HandsOver`: every step
of the flow is a step of Handover or a stutter, under the mapping at the end of
FileRequest. The commands in the flow are those of VoiceCommand (`UsesCommands`), so
their theorems carry over, and with them `BothAgree`: what has left was selected by
the owner for a command that the requester had executed.

`AgentRunProofs`: the chain of promises has no invariant over two operations at a time,
because an entry may have been taken away and set again while others still wait.
`ChainInv` says there is a numbering of the operations in the order they queued, such
that each awaits the last one before it in its session that has not ended, and the lock
entry is the latest there is (`NumberedInv`, `AwaitsInv`, `LatestInv`); whoever runs
awaits nobody (`RunningInv`). Each step keeps or extends the numbering. From it
follow `SandboxExclusion`, and `NobodyIsStranded`: in a session where somebody waits
there is exactly one whose turn it is, namely the lowest in the numbering, so the
queue cannot wedge. That is the part of `EverySessionCloses` and `EveryRunSettles` that
needs no fairness. `UsesSandbox` shows that runs do to the sessions only what users do,
so that `OneAtATime` and `NoRunIsStranded` carry over; `RunsAreWatched` says that a
running run has its timer or is in its probe, and that the command it waits for is in
line or has ended. `AnswersStand` needs that only a loop that lost the race goes on with
a run that is no longer running (`RaceInv`).

`RecordsProofs`: `PresentsLiveToken` alone is not inductive, since a token may be good
now and in the hands of an abandoned refresh. `UserInv` adds who holds what: a login's
answer is in nobody else's hands (`LoginInv`), refreshes share one call
(`OneRefreshInv`), every held token was issued (`IssuedInv`), and unless spoiled the
tokens of the row and of the refresh are `Safe`, out of reach of abandoned refreshes and
logouts, and `Good`: live, or of a user the admin disabled (`LiveInv`).
`TokensUsedOnce` is the control plane's side: a used or revoked token is never good
again, nor another user's. `OneIdentityAlone` says that the mixed identities above,
under "Seen while modelling", take calls that overlap: one call at a time keeps the row
one user's (`IdentityInv`), also when refreshes are served late or refused, over resets
and restarts, and whomever the admin disables.
`ChainVerifies` holds for any ids and any clock bound: as long as nothing overlapped
there is one append at a time, later than every row, and what it read is still the last
row (`AloneInv`); hence its row is the last one when it is inserted. `ChainIsRooted`
needs no such premise: overlapping appends may fork the chain, but each row's hash
covers a row that was there before (`ReadInv`), ids are unique and rows stay.

`TimedServicesProofs`: for any transfers and overlapping sweeps, `NoDangling` needs that
a sweep works on overdue transfers only, although it never looks again (`SweepInv`),
and that an upload under way has its file from the write on (`WrittenInv`).
`ExpiryFinality` and `ReceiptsCount` follow action by action. Of Presence,
`NeverMarkedTooSoon` says that a row marked stale or offline has been silent for as
long as its threshold, whatever is written between the statements of the sweep, and
`DisabledIsBounded` is the part of `DisabledFadesOut` that needs no fairness: a
disabled instance lets no heartbeat in, and uses up one that was let in before each time
it shows up online.

The two compositions are proved to be of each service as it is (`TimedIsEachService`,
`RecordsIsEachRecord`): their type invariants (`TimedTypeCorrect`,
`RecordsTypeCorrect`) and their safety (`TimedSafety`, `RecordsSafety`) follow from the
theorems about the parts.

`ApprovalTransferProofs`, for any files, calls, rebinds, failures and restarts: what is
under way was started by an approval (`UnderwayInv`), and how far a call is says what
the control plane has of its transfer (`UploadedInv`). `Unapproved`, `StoredCopy`,
`Announcement`, `Completion` and `Decision` need no more. Two theorems delimit what the
runs refute. `ApprovedBytes` assumes `Rebinds = {}`, as ApprovalSafety does: only a
rebind breaks it (ApprovalRebound). `OneTransferAlone` assumes that approving calls do
not overlap, that none fails and that nothing restarts (`OneCallAtATime`, `~CallsFail`,
`~MayCrash`): then the one transfer keeps its job from being scheduled again
(`SoleInv`), so that the second one of ApprovalDuplicate takes an overlap, a failure
or a restart.

Every safety property of a passing run is proved. Only model-checked: liveness, which
is out of the prover's reach (`EveryTaskSettles`, `ExpiredMessageCloses`,
`OverdueSettles`, `JobSettles`, `EverySessionCloses`, `EveryRunSettles`,
`DisabledFadesOut`). The four violated properties are refuted by their runs; the four
theorems named above say of each where it does hold.

## Not modelled

* **Task workflow**: a table of allowed transitions whose callers catch or ignore a
  refused one; the states it is meant to track are those of the approvals and
  dispatches that are modelled.
* **Contacts**: each operation is one statement after a check of the same row; two
  requests at once are decided by a UNIQUE constraint.
* **Admin authentication**: one administrator at a time; codes and sessions are
  cryptography. A recovery code is read and marked in two statements
  (`AdminAuthService.ts:313`), which two requests at once could both pass.
* **Admin service and routes**, except for the three routes that write: disabling a user
  or an instance and revoking a device are `Disable` of Presence, and what the first
  does to refresh tokens is `DisableUser` of UserSession. What they do to device tokens
  is in neither. The other routes, and the service, only read.
* **ANP handshake**: without its cryptography a model would say nothing of it.
* **Directory, chat storage, notifications, file search, web interfaces, Windows
  bridge**: queries, storage of what other components decide, scoring of text, and
  presentation; nothing in them waits for anything else.
* Inside modelled components: parsing, speech and language models, the cipher of
  transfers, feedback's refined approvals, expiry of access tokens (a refusal), the
  Redis queue (a placeholder), and Postgres row-lock deadlocks (a transaction is one
  step here; the loser is a lost call).

The modules cover a small share of the repository's lines: most of the repository is a
vendored PDF worker, user interface, routes that pass values on, tests and documents,
in which there is no protocol to check.

What would be worth adding: the dispatch of status messages in FileRequest, the
refined approvals that feedback creates, and for the liveness properties more of their
safety halves, as for the sessions and Presence: what a state must still have under way
as long as the awaited outcome has not come.
