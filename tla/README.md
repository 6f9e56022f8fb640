# A TLA+ development for agent-comms

agent-comms is a coordination wire for agent and human threads: one bus, one
registry and a set of SQLite and JSON ledgers under a shared root directory,
written by many processes at once (the owner process of each agent, CLI calls,
the ACP server, MCP tools, watchers, the installer). No server serialises them.
What keeps the system correct is a family of small protocols over durable rows:
reserve before launching, attest after committing, fence with a generation,
freeze an intent before appending to the bus, hold a barrier while installing.
This project models those protocols, checks them with TLC and proves the most
important of their properties with TLAPS.

File names below are relative to `src/agent_comms/` in the repository;
`PROJECT.json` maps every definition to its lines.

## 1. The system's parts

| Part | Source | State here |
|---|---|---|
| Goal attempt ledger: which generation of a goal may run, who reserved it, who launched it | `goal_attempts.py`, `goal_generation.py`, `goal_attempt_phase.py` | `GoalAttempts`, `GoalTurns`; proved |
| Turn settlement of goal work | `turn_terminal.py`, `turn_goal_account.py`, `execution/owned_turn.py` | the ledger's side, in `GoalAttempts` |
| Maintenance barrier: stop intake, drain, install, resume | `storage/maintenance_barrier.py` | `MaintenanceBarrier` |
| Carried-store transactions | `storage/typed_table.py`, `storage/locked_store.py`, `storage/store_files.py` | lock, check, commit and capture, in `MaintenanceBarrier` |
| Restart queue and its watcher | `restart_queue.py`, `restart_refusals.py` | `RestartQueue`; proved |
| Owner restart | `owner_restart.py`, `execution/owner_lifecycle.py`, `root_runtime.py` | one owner, in `RestartQueue` |
| Change signals | `watched.py` | the watcher's side, in `RestartQueue` |
| Fenced response publication | `coordination/response.py`, `coordination/snapshot.py`, `publisher.py` | `ResponsePublication`; proved |
| Recovery of a dead attempt | `attempt_recovery.py` | one stopped owner, in `ResponsePublication` |
| Native source cursor: up to which message a recipient's sources are settled | `cursor_owner.py`, `proven_source_coverage.py`, `historical_native_inputs.py`, `native_runtime_input.py` | `NativeCursor`; proved |
| Cursor publication to clients, unread views | `cursor_publication.py`, `read_ledger.py`, `view_unread.py` | not modelled: projections, no durable state |
| Registry | `registry/` | the row of a thread and the edits that change it, where the protocols use them |
| Coordination attempts, assignments, triage | `coordination/tables/`, `attempt_states.py`, `assignment_states.py`, `selected_*.py` | not modelled (section 6) |
| Turn lease and owner fences: who may act as a thread's running turn | `turn_lease.py`, `agent_activity.py`, `registry/`, `execution/owner_lifecycle.py` | `TurnLease`, `TurnGrant`; proved |
| Bus | `bus.py`, `bus_write.py`, `bus_publication.py`, `message_bus.py` | keyed append and the sequence of direct messages |
| Input intake and drain, private send | `execution/input_drain.py`, `queued_input.py`, `input_disposition.py`, `private_send_*.py` | not modelled (section 6) |
| Goal waits and schedule: goals on standby until others report | `planning/goal_waits.py`, `goal_actions.py`, `goal_scheduler.py` | `GoalWaits`; proved |
| Todos and plans | `todos.py`, `plan_phases.py` | not modelled: one document under one lock, mostly validation |
| Installer, CLI, ACP server, transports, CLI bridges, native harness adapters | `installer/`, `cli_*`, `acp*.py`, `transport/`, `cli_bridges/`, `pi_*.py` | not modelled: I/O, parsing and framing around the operations above |
| Transcripts, views, context, instructions, teams | `transcripts.py`, `ui_model/`, `turn_context.py`, `team/` | not modelled: projections to text |
| Toad UI, Pi extension | another repository; `extensions/` | not modelled: no state of their own |

How they interact: an owner process leases a turn in the registry, reserves and
claims a goal generation in the ledger, runs a native turn, publishes its replies
through the coordinator and the bus, and settles the goal. The restart queue
fences and replaces that owner between turns. The maintenance barrier closes the
stores that all of them write while an install replaces the code. The models
share no variables: each treats the others' moves as environment actions
(`StopOwner`, `OtherWrite`, `HoldMaintenance`, `Crash`). `TurnLease` composes the
registry row, the turn files, the owner's life cycle and the turn runners, which
`RestartQueue`, `ResponsePublication` and `GoalWaits` see only as "the row names
a running turn"; that a row names at most one acting turn is what `TurnLease`
shows.

## 2. The modules

### GoalAttempts (and GoalTurns)

The tables `generations`, `attempts`, `decisions`, `usage` are durable;
`readyGrants` and `owned` are what each process's `GoalAttemptStore` remembers;
`call` is where each caller stands between a commit and what follows it. A store
method is one transaction followed by an attestation (fsync and a readback on a
fresh connection) outside the write lock, hence pairs of actions: `Reserve` and
`AttestReserve`, `ClaimLaunch` and `AttestClaim`, `ReadyChange` and
`AttestReady`, `RetireGoal` and `AttestRetire`. `Crash` drops what a process
remembers and every call in it. A turn's settlement is `AdvanceReady`,
`RecordVerifiedProgress`, `RecordVerifiedCompletion`, `Stop` or `Fail`;
`AuthorizeRetry` and `AuthorizeReadyRecovery` are the operator's decisions;
`StopReleasedOwner` settles a stopped owner whose exit is established.
`published`, `authority` and `launches` are history variables.

`GoalTurns` is the abstract promise: the turns of a goal do not overlap, each
spends a newer generation, and none starts after the goal is closed.

### MaintenanceBarrier

`target`, `marker` and `state` are the three witness files. A rewrite
(`Begin`, `Retarget`, `AdvancePhase`) is followed by `WriteTarget`,
`WriteMarker`, `WriteState`, one file at a time; `WriteRaises` and `Die`
interrupt it. `Current` decodes what the three say together. `ObserveDead`
followed by `ReleaseDead` or `ReleaseOvertaken` is the release of a dead holder,
decided outside the lock. Carried-store transactions (`BeginTransaction`,
`CheckTransaction`, `CommitTransaction`) read the witness under their own lock
only; inputs (`BeginInput`, `Admit`, `EndInput`) under the registry lock.
`CaptureFile` is the installer's copy of a store after its writers drained.

### RestartQueue

`rows` is the queue store, `registry` the owners' entries, `host` the worker
host, `claim` the watcher lock. A client runs `CheckEnqueue`, `Enqueue` and
`StartWatcher`; a watcher `ClaimWatcher`, `Prepare`, `ReadBarrier`, then per row
`Attempt`, `CheckRestart`, `Fence`, `StopFenced`, `Relaunch`, `Complete`, and
finally `ReleaseIfEmpty` or `Wake`. Turns, stops, starts, a host exit,
maintenance and deaths are the environment. The target's availability is a free
choice. Commits to the bus wake the watcher only while it waits, which is the
only time they matter.

### ResponsePublication

Coordinator rows: `intent`, `dispatch`, `receipt`, `obligation`, `execution`.
Bus: `row`, `claims`. For each route the owner runs `Capture` (the registry cut
that every later transaction is compared with), `Prepare` (Tx1, freeze),
`Dispatch` (the durable barrier), `Settle` (take the locks and look), `Append`
(the bus commits alone) and `Commit` (receipt, obligation and, with the last
route, the execution). `RollBack` fails the SQL commit after the bus committed.
`PrepareTurn` and `RecoverOwner` start `resolve_retained`; `FailUnknown` and
`Abandon` settle without a publication. `lock` is the registry read lock with the
coordinator's write lock, which `committing` and `writing` hold together.
The model follows one execution with one attempt, so a dispatch's match with its
attempt is its existence, and the fence's token is the flag `fence`. The order of
routes is a free choice; the checks of routes and assignments against the
original bus rows are taken to pass; `failed` stands for failed or deferred. The
branch of `Settle` that finds a receipt is defensive in the code and is never
taken in the model.

### NativeCursor

`bus` and `sealed` are the messages and the accepted cohorts of one recipient,
`executions` its executions with one native input per attempt, `registry` and
`generation` the claim and the participant generation that fence its owner, and
`cursor` the one `CurrentNativeCursor` row. A call starts with `Refresh` (the
live claim) and `ReadParticipant`, or with `Settle` (a turn, for its own input).
`ReadState` reads the row and captures the bus prefix; `ReadCohort` and
`ReadEvidence` prove one message after the other in separate read transactions;
`Commit` compares owner, generation and row under the locks and publishes.
`Refused` ends a call at any point: a changed turn, a busy store, a dead process.
Calls of one session are serialised by its `observation_lock`; the model lets two
calls run together because several connections and the processes of an old and a
new owner share no such lock.

Messages are for someone else, delivered without a wake, or a wake that goes
straight to a full execution; triage is left out. An input in context has its
prompt equality established, which the code verifies before it records the
context. Starting an attempt, reserving its input and granting the send are one
step. Capturing the prefix together with the row loses nothing, since a message
sent between the two could as well be sent before both. The pages of one call are
one page. `conflict` is the state after an `IdentityConflict` or a refused
column guard; no behaviour reaches it, which is what `NoIdentityConflict` says.

### TurnLease (and TurnGrant)

One agent thread. `registry` is its saved row (status, process, input claim,
owner generation, turn generation, turn record), `files` one turn file per
generation (turn ID, claim, phase), `edit` the registry edit that holds the
exclusive lock, `runners` the task of each turn with the lease it holds, `host`
the worker host, `stop` what a stop has fenced. A lease is `LeaseTurn` (the new
file), `SaveLease` (the row), `RetireSuperseded` (the old file) and `ReadLease`
(the runner reads its file back, under no registry lock). `Transition` is a phase
change under the shared lock; `ReleaseTurn` and `SaveRelease` end a turn, or
`ReleaseRefused` tells a late runner that it is no longer its own. `FenceStop`,
`StopUnbound`, `CompleteSession`, `FinishStopped`, `Archive`, `Heartbeat` and
`StartOwner` withdraw the claim from the referenced turn file and then `Save` the
row; `ClientDies` and `HostDies` fall between the two.

`TurnGrant` is what this promises: one turn at most may act, a turn that lost
that permission never gets it back, and a turn is reported as completed only when
it gave up a permission it held. The mapping takes the holder to be the turn the
row references while its file still records a claim.

The wall clock is left out: a row without a process is present or not by the age
of its heartbeat, which the model leaves open. A stop that lands between the lease's edit
and `ReadLease` makes `begin_turn` raise before its caller could release the turn;
the row then keeps the reference until the stop completes or a new owner is
reserved. An archive of a row whose stop is
still pending is undone when the session completes (`complete_session` calls
`unregister`, which writes a stopped row); the model has that behaviour and no
property forbids it.

### GoalWaits

`threads` is the registry row of each agent with its goal, `waits` the wait
table, `bus` the direct messages, `work` what each running turn is doing and
`releases` the callbacks and observations under way. A standby is
`PrepareStandby` (a review of goal, owner, targets and bus cut, unlocked) and
`PublishStandby` or `RefuseStandby` (rechecked under the lock). A handled message
runs `ReviewReply` and `ConsumeReply`. A finished turn leaves a callback that
takes `FindWaits`, then for each wait `NextWait`, `ReadReplies` (unlocked) and
`Release`, with `Recapture` when owner or turn changed under it, `ReadAgain` when
a message arrived, `ReleaseRefused` when its reason is gone. `Observe` is the
owner's own drain that finds its standby closed. `PublishStandbyDies`,
`ReleaseDies`, `ChangeGoal` with `dies`, and `HostDies` are deaths between the
two files or in a turn. The recursive walk of `closed_wait_group` is stated as the
existence of a closed set with the owner in it (`Closes`), which is what the walk
finds. `ClosedGroupIsAttended` speaks of every such set: while nobody died and no
wait of the set is answered, some agent its waits name is at work, or the callback
of that agent's latest turn is still to run.
A review that leaves an earlier reply unread is refused without effect, so the
model starts after that check.

## 3. The runs

| Run | Checks | Shows |
|---|---|---|
| `goal_attempts` | `AtMostOneLaunch`, `AtMostOneRunningTurn`, `ReservedFromAcknowledgedGrant`, `EveryGenerationExplained`, `SettledWorkIsFinal`, `ImplementsGoalTurns` | crashes and failed attestations at every step never launch a generation twice, overlap turns, revive settled work or spend an unacknowledged grant |
| `maintenance_barrier` | `TypeOK`, `InputOnlyWhileOpen`, `CapturesStayExact`, `LiveHoldIsKept` | an interrupted rewrite admits nobody, a live hold stays with its operator, and a captured store is not changed behind the installer |
| `retargeted_ledger` | `RetargetedLedgerStaysExact` (violated) | finding 1 |
| `restart_queue` | `TypeOK`, `OneIntentPerOwner`, `FencedOnce`, `PendingIsAttended`, `FencesTheSelected` | at most one fence per request, of exactly the owner it selected; no request is orphaned by the exit race |
| `restart_queue_progress` | `PendingIsTakenUp` | a pending request is taken up |
| `held_restart` | `HeldRequestResumes` (violated) | finding 2 |
| `response_publication` | `SentAtMostOnce`, `RowIsRecoverable`, `AcknowledgedHasRow`, `SettledHoldsNoClaim`, `AppendsWhileRunning` | a reply is sent at most once, can be acknowledged once it is on the bus, and is never overtaken by a settlement |
| `native_cursor` | `TypeOK`, `CoveredIsSettled`, `RefreshIsNeverHeldBack`, `InjectedIsLatest`, `NoIdentityConflict`, `FencedWrites` | two concurrent calls over stops and restarts: nothing unsettled is covered, the recorded input is that of the last injected source, a replaced owner publishes nothing, a new owner continues the cursor |
| `turn_lease` | `GenerationHasItsFile`, `RecordedClaimIsCurrent`, `RevokedNeverCompletes`, `PhaseNeedsTheClaim`, `FinishesItsOwnTurn`, `ImplementsGrant`, `HeldTurnIsReleased` | row and turn files behave as one grant through every edit and a death between any two writes, and a held turn does not stay referenced |
| `goal_waits` | `TypeOK`, `ClosedGroupIsAttended`, `ReleasedOnlyWhenNobodyWorks` | three agents that wait on each other are never all asleep unnoticed, and no wait is released over someone at work |
| `goal_waits_replies` | `ReleasedInSilence`, `AnsweredByItsReply` | a reply that lands during an unlocked read is never lost, and an older message never counts as one |
| `goal_waits_progress` | `FinishedTurnReleases` | the one callback of a finished turn reaches the waits on it |

### Bounds

- `goal_attempts`: one goal, two attempts, three grants, three generations, one
  decision, one charge; three callers, two of them in one process. Goals share
  no row, so one goal is enough; two callers in one process and one in another
  distinguish what a process remembers from what is durable; a third generation
  lets a stale grant or permit of the first meet the second.
- `maintenance_barrier`: two installers, one other process, five rewrites: enough
  for one hold to die, be released, and a second one to be taken and retargeted
  while a reader is still inside.
- `restart_queue`: one owner, two requests (a supersession), two watchers (the
  exiting and the new one), one turn, two claim generations, two hosts, and one
  upset: a maintenance window, a death or a failure. Rows of different owners
  meet only in the order of the scan. The progress run has one request, two turns
  and no fault.
- `response_publication`: two routes, although a batch has a single reply route
  today, because the publishing code and its tests handle several; three calls,
  two registry writes by others, two restarts, two faults: a first call, its
  failure, a repeated call and a recovery fit within them. Deadlock is not
  checked there and in the restart runs because those systems may stop: a
  settled execution, or a queue without requests, has nothing left to do.
- `native_cursor`: two calls, two messages, two executions of one attempt, three
  claims (an owner, its stop, its successor): a call of the first owner can meet
  a call of the second at every step. It stops when its bounds are used up or the
  owner stays stopped, so deadlock is not checked.
- `turn_lease`: two turns, two generations, five claims, two hosts, two phases: a
  turn of a dead host's owner meets the turn of its successor, and every edit
  fits before, between and after them. A second thread shares nothing but the
  lock.
- `goal_waits`: three agents (a cycle of three and a chain into a cycle), three
  turns and three waits, no messages and no upsets, so that every order of
  standbys and finishes fits. `goal_waits_replies`: two agents, three turns, one
  message, two waits, one goal change or death: a reply before, during and after
  each read. `goal_waits_progress`: the same with one wait. All stop when the
  turns are used up. Agents are symmetric in the two safety runs.

### Fairness

`restart_queue_progress`: weak fairness of each running watcher's and client's
next step (processes are scheduled), of the end of a turn and of the end of a
maintenance window. Nothing obliges anyone to enqueue, stop, start or fail. With
finitely many turns the owner eventually stays idle, which is what the property
needs: an owner that is always busy is never restarted.

`turn_lease`: weak fairness of the edit that holds the registry lock, and strong
fairness of each runner's release: `TurnRunner.settle_turn` runs in a `finally`
and takes the registry lock, which others take too but give back. A death removes
both obligations.

`goal_waits_progress`: weak fairness of the steps of one agent's callback. It is
a worker task of a live process; nothing obliges anyone to work, reply or wait.

## 4. The findings

1. `RetargetedLedgerStaysExact`: `_write_unlocked` replaces the target file
   before the marker and the state. When a retargeted hold is retargeted again,
   a ledger transaction that reads in between sees a draining hold without a
   target and commits, although `TargetRuntime` says that from the first
   retarget "only the install's holder writes".
2. `HeldRequestResumes`: maintenance that begins during an attempt refuses the
   transaction that records the answer. The row stays attempting; nothing
   selects, cancels or supersedes it any more.

Two more differences are built into `RestartQueue` and stated by no run. A turn
silent for ten minutes counts as restartable (`WedgeTurn`), so the queue may end
it, while `docs/queued-restarts.md` says it never interrupts a turn. A busy
owner's row is written back unchanged, which replaces the change marker that the
watcher itself watches (`Upserted`), so it scans again at once, while the same
document speaks of no polling. The progress property depends on the latter: its
mutant that skips the unchanged write breaks `PendingIsTakenUp`, since the end of
a turn changes nothing the watcher watches.

## 5. The proofs

All theorems hold for every value of the constants allowed by the named
`ASSUME`s (kinds of identity are disjoint from their absent values, bounds are
natural numbers, there is at least one route).

**The goal ledger** (`GoalAttemptsLedger`, `GoalAttemptsProofs`):
`TypeCorrect`, `SettledWorkStaysFinal`, `UnresolvedStaysCurrent`,
`LaunchedAtMostOnce`, `OneTurnAtATime`, `ReservationsAreAuthorized`,
`GenerationsExplained`, and `LedgerImplementsTurns`, that `GoalAttempts`
implements `GoalTurns`.
The inductive invariant is `TypeInv /\ LedgerInv /\ LaunchInv /\ GrantInv`.
`UnresolvedIsCurrent` is not inductive: a fresh reservation must find no older
attempt of the same generation, so `LedgerInv` bounds every recorded attempt by
its goal's row and allows one attempt per generation. `AtMostOneLaunch` needs
`LaunchInv`: who is between reserve and launch is alone with its attempt, that
attempt has not been launched, and a running turn's attempt is still claimed or
its goal cancelled. `ReservedFromAcknowledgedGrant` needs `GrantInv`: what a
process remembers or a caller holds was published after its attestation.
`EveryGenerationExplained` is preserved because a step rewrites only attempts of
current generations, so no earlier explanation is touched. In the refinement,
every step but the return of a permit launches nothing (`FramedStep`) and maps
to a stutter, the opening of a goal, or turns that end while at most one goal
closes; the returned permit is a launch, alone and with a newer generation by
`LedgerInv` and `LaunchInv`.

**Response publication** (`ResponsePublicationProofs`): `TypeCorrect`,
`RepliesSentAtMostOnce`, `RowsStayRecoverable`, `AcknowledgementsHaveRows`,
`SettledAttemptsHoldNoClaim`, `NothingAppendedAfterStop`. The inductive
invariant is `TypeOK /\ Ledger /\ Calls`. `Ledger` relates the rows of the two
stores (an intent exactly while publishing or published, a dispatch only after
all intents, a row only after its dispatch, a receipt only after its row, and no
send without a dispatch). `Calls` records what a process has established where
it stands: the call that inserted the dispatch has not sent; an append about to
happen holds the locks in a running turn; a commit holds a publishing route with
its row. The locks make these facts stable: the type invariant says that they
are held exactly by a process inside such a transaction, so neither another
transaction nor a registry write falls between the check and the append.

**The turn lease** (`TurnLeaseProofs`): `TypeCorrect`,
`NamedGenerationHasItsFile`, `RecordedClaimCurrent`, `RevokedTurnsNeverComplete`,
`PhaseFenced`, `FinishFenced` and `LeaseImplementsGrant`, that `TurnLease`
implements `TurnGrant`. The inductive invariant
adds to the checked ones: owner generations never pass the claims they were taken
with (`ClaimsOrdered`); a file that holds a turn, and a turn that was revoked or
completed, belong to a runner that has begun (`MintedOnce`); a claim recorded in
the named file is the active row's, and its turn was neither revoked nor completed
(`RecordedIsHeld`); and what an edit under way has already done to the files
(`LockedEdit`). The last makes the others inductive: between the withdrawal of a
claim and the save, files and row disagree, and only the holder of the lock may
see that.

**The maintenance barrier** (`MaintenanceBarrierProofs`): `TypeCorrect`,
`InputsAdmittedWhileOpen`, `CapturesExact`, `LiveHoldsKept`. The inductive
invariant says that a rewrite in progress has the registry lock to itself
(`LockExclusive`); that the hold being written is newer than every nonce handed
out and that a live hold on disk is only rewritten by its operator
(`WritesFresh`); that a nonce in force therefore names one operator
(`NoncesNameOperators`), so a child of an earlier hold is never mistaken for one
of the present; that a release concerns a holder that is dead for good
(`ReleasesTheDead`); that a transaction keeps its store's lock until it ends
(`TransactionsLock`); and that a capture belongs to the hold on disk, as does
whoever is about to commit behind it (`CapturesHeld`). The drain of
`capture_file` is what makes the last inductive. `RetargetedLedgerStaysExact` is
violated, so it has no theorem.

**Goal waits** (`GoalWaitsProofs`): `WaitsReleasedInSilence`,
`WaitsAnsweredByTheirReply`, `WaitsReleasedWhenIdle`, `TypeCorrect`,
`ClosedGroupsAreAttended`. The bus only grows, so a silence read up to a cut stays
true of that cut (`ReadWasSilent`) and a reply once seen stays there
(`ReviewHasReply`); wait IDs are minted once (`WaitsMinted`), so the wait a review
names is the wait its release ends. For the types, a goal has one wait
(`OneWaitPerGoal`) and the open IDs are the recorded ones (`OpenIsRecorded`).
`ClosedGroupIsAttended` is not inductive: a release can leave the rest of a group
closed. `LookedAfter` is: while nobody died, an unanswered wait names an agent at
work, or the callback of a named agent's latest turn has the wait still to look
at, or the wait is younger than every wait of the agents it names. In a closed
group every named agent waits too, so the oldest wait of the group is never of the
last kind. That there is an oldest one is carried as an invariant (`Ordered`), as
waits are minted one by one.

**The restart queue** (`RestartQueueProofs`): `TypeCorrect`,
`OneIntentForAnOwner`, `FencedAtMostOnce`, `NoRequestIsOrphaned`,
`FenceHitsTheSelected`. The inductive invariant adds to the checked ones that an
owner has one active row (`OneActive`), that exactly the watcher holding the claim
is past its start (`Claimed`), and what a watcher knows (`Attempts`): what it
listed was pending, the row it attempts is marked attempting, has not been fenced
before its own fence, and after it gets no answer that waits. Every transaction
that others can run in between rewrites absent or pending rows only (`Untouched`),
so those facts survive enqueues, cancellations, supersessions and the
`block_failed` of a watcher that gave up its claim. `PendingIsAttended` is
inductive together with `Claimed`: a watcher leaves only by finding the store
empty under the queue's lock, or by failing, and a failing one still blocks what
is pending; a death leaves it in `abandoned`.

**The native cursor** (`NativeCursorProofs`): `TypeCorrect`, `CoverageIsSettled`,
`InjectedIsTheLatest`, `NoConflict`, `RefreshGoesThrough`, `WritesUnderTheFence`.
What a scan reads outside the locks is stable: messages, sealed cohorts, failures
and inputs in context only grow (`Grows`). So the inductive invariant can state of
every call what it has collected (`CallInv`: its row, its coverage, its proofs, the
message in hand), as it states it of the cursor itself (`RowInv`), and every step
of the sources preserves both at once (`SourcesMove`). Every proof lies above what
the row covers. Hence once the fence finds the row unchanged no check of the
publication can fail (`FencedIsConsistent`), and what is published satisfies
`RowInv` again (`CandidateInv`). `RefreshIsNeverHeldBack` needs that inputs carry
claims and generations no newer than the present ones (`SentWithin`). The least
message of a suffix and the last proof exist because the bus grows message by
message (`Ordered`). The invariant was checked with TLC first, also with two
attempts per execution.

**Only model-checked**: liveness (`PendingIsTakenUp`, `HeldTurnIsReleased`,
`FinishedTurnReleases`), which is out of reach of this prover. The two properties
that are violated (section 4) have no theorem; every other property of a run has
one.

In the proofs a leaf that names no prover is for Zenon; arithmetic, sequences and
record constructors cite SMT.

## 6. What is not modelled

- Power loss: a committed transaction survives a crash of its process. The
  ledger's failing attestation covers an fsync that reports an error.
- Time: a timeout is a choice that may be taken whenever it could expire.
- The order in which SQLite grants its write lock, and its wait budget.
- The double reading of witness revisions in `_current_unlocked`: a read is one
  step, as the code returns only what two equal captures enclose.
- A reply that was frozen or dispatched and never appended keeps the owner's
  pointer for good. The code documents that no retry is authorised, so no
  property is stated.
- Claim, triage, retry and deferral of an execution before it is ready to publish
  (`coordination/tables/`, `attempt_states.py`, `selected_*.py`): a dozen tables
  with the triage model's answers as inputs. `NativeCursor` models what its end
  leaves behind, `ResponsePublication` starts from it.
- The intake of unread rows into a native write (`execution/input_drain.py`,
  `private_send_*.py`): most of it is the parsing of a native transcript, on which
  its guards depend.
- An interrupted rewrite of the barrier's witness keeps it closed for good, and
  `begin` refuses too; the code documents that as intended.
- The wait table's `remove_threads`, and a thread's goals beyond its current one.
- Everything marked not modelled in section 1.
