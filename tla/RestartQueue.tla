----------------------------- MODULE RestartQueue -----------------------------
(***************************************************************************)
(* The durable queue of owner restarts (restart_queue.py) and the restart  *)
(* it performs (owner_restart.py).                                         *)
(*                                                                         *)
(* A client enqueues a restart of one exact owner registration and spawns  *)
(* a watcher process.  At most one watcher holds the claim file.  It scans *)
(* the pending rows, commits a row as attempting, and only then fences,    *)
(* stops and relaunches the owner; the answer is committed by a later      *)
(* transaction.  Owners take and finish turns, are stopped and started by  *)
(* other commands, and lose their host process; maintenance closes the     *)
(* store and the registry to all of them; watchers fail and die anywhere.  *)
(*                                                                         *)
(* One SQLite write transaction, one registry edit and one registry cut    *)
(* are one action each.                                                    *)
(***************************************************************************)
EXTENDS Naturals

CONSTANTS Owner,      \* the thread incarnations (owner_birth)
          Request,    \* the restart identities that can be minted
          Target,     \* the launch runtimes a request can name
          Client,     \* processes that call enqueue
          Watcher,    \* concurrent watcher processes
          NoOne,      \* no watcher, or no row
          MaxTurns,   \* turns an owner takes
          MaxClaim,   \* the claim generation past which no other command acts
          MaxHost,    \* host processes of the root
          MaxHolds,   \* maintenance windows
          MaxFaults,  \* deaths and failures of clients and watchers
          MaxUpsets   \* maintenance windows, deaths and failures together

ASSUME NoOneAssumption == NoOne \notin Watcher \cup Request

ASSUME BoundsAssumption ==
  MaxHost \in Nat \ {0} /\ {MaxTurns, MaxHolds, MaxFaults} \subseteq Nat

VARIABLES
  rows,       \* the queue store: the row of each request
  registry,   \* what the registry says of each owner
  host,       \* the root's worker host: its number, and whether it is alive
  open,       \* whether maintenance leaves the stores open
  claim,      \* the watcher whose open description holds watcher.lock
  watcher,    \* what each watcher process is doing
  client,     \* what each enqueue call is doing
  holds,      \* maintenance windows so far
  faults,     \* deaths and failures so far
  fences,     \* how often each request fenced an owner
  abandoned   \* requests a dead or failed process left behind

vars == <<rows, registry, host, open, claim, watcher, client, holds, faults,
          fences, abandoned>>

-----------------------------------------------------------------------------
(* RestartState: Pending and Attempting are Active, the others are answers. *)
RestartState == {"pending", "attempting", "cancelled", "stale", "blocked",
                 "uncertain", "restarted"}

ActiveState == {"pending", "attempting"}

(* OwnerRestartSelection: the host process and the claim generation that   *)
(* the caller saw.  The owner lease advances together with the claim.      *)
Selection == [process : 1..MaxHost, claim : Nat]

QueuedRestart == [owner : Owner, selection : Selection, target : Target,
                  state : RestartState]

Absent == [state |-> "absent"]

Transition(record, state) == [record EXCEPT !.state = state]

(* An owner's registry entry: its status, process, claim generation, turn  *)
(* generation, and its turn.  A wedged turn wrote nothing for ten minutes. *)
Entry == [status : {"active", "stopping", "stopped"}, process : 0..MaxHost,
          claim : Nat, turns : 0..MaxTurns,
          turn : {"none", "working", "wedged"}]

ProcessAlive(process) == host.alive /\ process = host.number

SelectionOf(o) == [process |-> registry[o].process, claim |-> registry[o].claim]

(* OwnerRestartSelection.require_current: the active registration is still *)
(* the selected one.                                                       *)
SelectionCurrent(o, selection) ==
  registry[o].status = "active" /\ SelectionOf(o) = selection

(* Thread.require_restartable: idle, or wedged.                            *)
Restartable(o) == registry[o].turn # "working"

(* The lines of an attempt: from the committed Attempting row to the       *)
(* transaction that commits its answer.                                    *)
AttemptStep == {"check", "fence", "stop", "launch", "complete"}

WatcherStep == {"none", "spawned", "prepare", "read", "ready", "next",
                "release", "wait", "failing"} \cup AttemptStep

NotRunning == [step |-> "none", todo |-> {}, row |-> NoOne, turns |-> 0,
               claim |-> 0, result |-> "pending", signal |-> FALSE]

NotCalling == [step |-> "none"]

Starting == [step |-> "starting"]

Rows(state) == {r \in Request : rows[r].state = state}

ActiveIn(table, o) ==
  {r \in Request : table[r].state \in ActiveState /\ table[r].owner = o}

ActiveRows(o) == ActiveIn(rows, o)

(* A request nobody answered yet, and that no transaction has attempted.   *)
Pending == Rows("pending")

TypeOK ==
  /\ rows \in [Request -> QueuedRestart \cup {Absent}]
  /\ registry \in [Owner -> Entry]
  /\ host \in [number : 1..MaxHost, alive : BOOLEAN]
  /\ open \in BOOLEAN
  /\ claim \in Watcher \cup {NoOne}
  /\ \A w \in Watcher :
       /\ watcher[w].step \in WatcherStep
       /\ watcher[w].todo \subseteq Request \X QueuedRestart
       /\ watcher[w].row \in Request \cup {NoOne}
       /\ watcher[w].result \in RestartState
       /\ watcher[w].signal \in BOOLEAN
  /\ \A c \in Client : client[c].step \in {"none", "checked", "starting"}
  /\ holds \in 0..MaxHolds /\ faults \in 0..MaxFaults
  /\ fences \in [Request -> Nat]
  /\ abandoned \subseteq Request

Init ==
  /\ rows = [r \in Request |-> Absent]
  /\ registry = [o \in Owner |-> [status |-> "active", process |-> 1,
                                  claim |-> 1, turns |-> 0, turn |-> "none"]]
  /\ host = [number |-> 1, alive |-> TRUE]
  /\ open = TRUE
  /\ claim = NoOne
  /\ watcher = [w \in Watcher |-> NotRunning]
  /\ client = [c \in Client |-> NotCalling]
  /\ holds = 0 /\ faults = 0
  /\ fences = [r \in Request |-> 0]
  /\ abandoned = {}

-----------------------------------------------------------------------------
(* The change marker of a committed store, seen by the watcher whose       *)
(* ChangeSignal is open, the one that wrote included.                      *)
Watching == {w \in Watcher : watcher[w].step \notin
                               {"none", "spawned", "failing"}}

Signalled(ws) ==
  [w \in Watcher |->
     IF w \in Watching THEN [ws[w] EXCEPT !.signal = TRUE] ELSE ws[w]]

(* publishing_changes: a transaction that wrote a row, even to the value   *)
(* it had, replaces the change marker; one that wrote none does not.       *)
Commit(changed, ws) ==
  /\ rows' = changed
  /\ watcher' = IF changed = rows THEN ws ELSE Signalled(ws)

(* RestartQueue._settle: pending requests whose process exited are stale.  *)
Settled ==
  [r \in Request |->
     IF rows[r].state = "pending" /\ ~ProcessAlive(rows[r].selection.process)
       THEN Transition(rows[r], "stale") ELSE rows[r]]

Unminted == {r \in Request : rows[r].state = "absent"}

-----------------------------------------------------------------------------
(* A plausible slip: any declared thread can be selected.                  *)
SelectableAny(o) == TRUE

(* The owner is registered and runs in a live process.                     *)
Selectable(o) ==
  registry[o].status = "active" /\ ProcessAlive(registry[o].process)

(* RestartQueue.enqueue, up to its transaction.                            *)
CheckEnqueue(c, o, t) ==
  /\ client[c].step = "none"
  /\ Selectable(o)
  /\ client' = [client EXCEPT ![c] = [step |-> "checked", owner |-> o,
                                      selection |-> SelectionOf(o), target |-> t]]
  /\ UNCHANGED <<rows, registry, host, open, claim, watcher, holds, faults,
                 fences, abandoned>>

(* A plausible slip: a new request leaves the pending one in place.        *)
SupersededNot(c, table) == table

(* PendingRestart.enqueue: the pending request is repeated by the call, or *)
(* becomes stale and a new row is inserted.                                *)
Superseded(c, table) ==
  [r \in Request |->
     IF r \in ActiveIn(table, client[c].owner)
       THEN Transition(table[r], "stale") ELSE table[r]]

Repeats(c, table) ==
  \E r \in ActiveIn(table, client[c].owner) :
     table[r].selection = client[c].selection /\ table[r].target = client[c].target

Inserted(c, table, r) ==
  [table EXCEPT ![r] = [owner |-> client[c].owner,
                        selection |-> client[c].selection,
                        target |-> client[c].target, state |-> "pending"]]

(* The transaction of RestartQueue.enqueue.  An attempting row refuses the *)
(* call, and so does maintenance; either refusal rolls it back.            *)
Enqueue(c) ==
  /\ client[c].step = "checked"
  /\ LET attempting == \E r \in ActiveRows(client[c].owner) :
                          rows[r].state = "attempting"
     IN \/ /\ ~open \/ attempting
           /\ client' = [client EXCEPT ![c] = NotCalling]
           /\ UNCHANGED <<rows, watcher>>
        \/ /\ open /\ ~attempting
           /\ \/ /\ Repeats(c, Settled)
                 /\ Commit(Settled, watcher)
              \/ /\ ~Repeats(c, Settled) /\ Unminted # {}
                 /\ LET r == CHOOSE x \in Unminted : TRUE
                    IN Commit(Inserted(c, Superseded(c, Settled), r), watcher)
           /\ client' = [client EXCEPT ![c] = Starting]
  /\ UNCHANGED <<registry, host, open, claim, holds, faults, fences, abandoned>>

(* RestartQueue.start_watcher, after enqueue's transaction.                *)
StartWatcher(c, w) ==
  /\ client[c].step = "starting"
  /\ watcher[w].step = "none"
  /\ watcher' = [watcher EXCEPT ![w] = [NotRunning EXCEPT !.step = "spawned"]]
  /\ client' = [client EXCEPT ![c] = NotCalling]
  /\ UNCHANGED <<rows, registry, host, open, claim, holds, faults, fences, abandoned>>

(* RestartQueue.cancel: only a pending request can be withdrawn.           *)
Cancel(o) ==
  /\ open
  /\ LET table == Settled
     IN Commit([r \in Request |->
                  IF r \in ActiveIn(table, o) /\ table[r].state = "pending"
                    THEN Transition(table[r], "cancelled") ELSE table[r]],
               watcher)
  /\ rows' # rows
  /\ UNCHANGED <<registry, host, open, claim, client, holds, faults, fences, abandoned>>

-----------------------------------------------------------------------------
(* RestartQueue.run.                                                       *)
WithStep(w, step) == [watcher EXCEPT ![w] = [@ EXCEPT !.step = step]]

Goto(w, step) ==
  /\ watcher' = WithStep(w, step)
  /\ UNCHANGED <<rows, registry, host, open, claim, client, holds, faults,
                 fences, abandoned>>

(* Back in run's loop: what step had listed and answered is forgotten.     *)
Looping(w, step) ==
  [watcher EXCEPT ![w] = [NotRunning EXCEPT !.step = step, !.signal = watcher[w].signal]]

(* A transaction of the watcher under maintenance raises                   *)
(* MaintenanceHeldError; run catches it and waits for a change.            *)
Held(w, step) ==
  /\ watcher[w].step = step /\ ~open
  /\ watcher' = Looping(w, "wait")
  /\ UNCHANGED <<rows, registry, host, open, claim, client, holds, faults,
                 fences, abandoned>>

(* watcher_claim.claimed: the claim, or exit because another holds it.     *)
ClaimWatcher(w) ==
  /\ watcher[w].step = "spawned"
  /\ claim' = IF claim = NoOne THEN w ELSE claim
  /\ watcher' = IF claim = NoOne THEN WithStep(w, "prepare")
                                 ELSE [watcher EXCEPT ![w] = NotRunning]
  /\ UNCHANGED <<rows, registry, host, open, client, holds, faults, fences, abandoned>>

(* changes.prepare forgets the changes it has already seen.                *)
Prepare(w) ==
  /\ watcher[w].step = "prepare"
  /\ watcher' = [watcher EXCEPT ![w] = [@ EXCEPT !.step = "read", !.signal = FALSE]]
  /\ UNCHANGED <<rows, registry, host, open, claim, client, holds, faults,
                 fences, abandoned>>

(* barrier.read().require_open()                                           *)
ReadBarrier(w) ==
  watcher[w].step = "read" /\ Goto(w, IF open THEN "ready" ELSE "wait")

(* RestartQueue.step goes through what _ready listed and then returns.     *)
NextIn(todo) == IF todo = {} THEN "release" ELSE "next"

(* RestartQueue._ready: settle, then list the pending rows.                *)
Ready(w) ==
  \/ Held(w, "ready")
  \/ /\ watcher[w].step = "ready" /\ open
     /\ LET table == Settled
            todo == {<<r, table[r]>> : r \in {x \in Request :
                                                table[x].state = "pending"}}
        IN Commit(table, [watcher EXCEPT ![w] = [@ EXCEPT !.step = NextIn(todo),
                                                          !.todo = todo]])
     /\ UNCHANGED <<registry, host, open, claim, client, holds, faults,
                    fences, abandoned>>

-----------------------------------------------------------------------------
(* RestartQueue._attempt: the listed row is still its owner's only active  *)
(* one; then the refusal's state, or attempting.  Whether the target's     *)
(* files are available is outside the model.                               *)
Refusal(o, selection) ==
  IF ~SelectionCurrent(o, selection) THEN "stale" ELSE "pending"

AttemptOutcomes(o, selection) ==
  IF SelectionCurrent(o, selection) /\ Restartable(o)
    THEN {"attempting", "blocked"}
    ELSE {Refusal(o, selection)}

Served(w, item) ==
  LET left == watcher[w].todo \ {item}
  IN [watcher EXCEPT ![w] = [@ EXCEPT !.todo = left, !.step = NextIn(left)]]

(* A plausible slip: an upsert that leaves the row as it was does not      *)
(* replace the change marker.                                              *)
UpsertedIfChanged(r, state, ws) ==
  /\ rows' = [rows EXCEPT ![r] = Transition(@, state)]
  /\ watcher' = IF rows[r].state = state THEN ws ELSE Signalled(ws)

(* QueuedRestart.upsert in a transaction of w: SQLite counts the row as    *)
(* changed whatever it held, so the change marker is always replaced.      *)
Upserted(r, state, ws) ==
  /\ rows' = [rows EXCEPT ![r] = Transition(@, state)]
  /\ watcher' = Signalled(ws)

Attempt(w) ==
  \/ Held(w, "next")
  \/ /\ watcher[w].step = "next" /\ open
     /\ \E item \in watcher[w].todo :
          LET r == item[1]
              o == item[2].owner
          IN \/ /\ ActiveRows(o) # {r} \/ rows[r] # item[2]
                /\ watcher' = Served(w, item) /\ UNCHANGED rows
             \/ /\ ActiveRows(o) = {r} /\ rows[r] = item[2]
                /\ \E state \in AttemptOutcomes(o, item[2].selection) :
                     Upserted(r, state,
                       IF state = "attempting"
                         THEN [Served(w, item) EXCEPT
                                 ![w] = [@ EXCEPT !.step = "check", !.row = r]]
                         ELSE Served(w, item))
     /\ UNCHANGED <<registry, host, open, claim, client, holds, faults,
                    fences, abandoned>>

-----------------------------------------------------------------------------
(* AttemptingRestart.restart, by ClaimedOwnerBatch.restart: two looks at   *)
(* the registry before the fence, and no way back after it.                *)
Answer(w, result) ==
  [watcher EXCEPT ![w] = [@ EXCEPT !.step = "complete", !.result = result]]

(* A refusal before the fence answers pending or stale; any other error    *)
(* answers uncertain.                                                      *)
Answered(w, result) ==
  /\ watcher' = Answer(w, result)
  /\ UNCHANGED <<rows, registry, host, open, claim, client, holds, faults,
                 fences, abandoned>>

SelectedBy(w) == rows[watcher[w].row].selection

OwnerOf(w) == rows[watcher[w].row].owner

(* The first look, in current_snapshot: ordinary restarts require READY,   *)
(* the selected registration, a live process, and an owner between turns.  *)
CheckRestart(w) ==
  /\ watcher[w].step = "check"
  /\ LET o == OwnerOf(w)
     IN \/ ~open /\ Answered(w, "pending")
        \/ open /\ ~SelectionCurrent(o, SelectedBy(w)) /\ Answered(w, "stale")
        \/ /\ open /\ SelectionCurrent(o, SelectedBy(w))
           /\ \/ ~Selectable(o) /\ Answered(w, "uncertain")
              \/ Selectable(o) /\ ~Restartable(o) /\ Answered(w, "pending")
              \/ /\ Selectable(o) /\ Restartable(o)
                 /\ watcher' = [watcher EXCEPT ![w] =
                      [@ EXCEPT !.step = "fence", !.turns = registry[o].turns]]
                 /\ UNCHANGED <<rows, registry, host, open, claim, client,
                                holds, faults, fences, abandoned>>

(* RegistryDocument.fence_restart_owner: no new turn, a new claim          *)
(* generation, and a wedged turn is dropped.                               *)
Fenced(o) == [registry[o] EXCEPT !.status = "stopping", !.claim = @ + 1,
                                 !.turn = "none"]

FenceOwner(w) ==
  LET o == OwnerOf(w)
  IN /\ registry' = [registry EXCEPT ![o] = Fenced(o)]
     /\ watcher' = [watcher EXCEPT ![w] = [@ EXCEPT !.step = "stop",
                                                    !.claim = registry[o].claim + 1]]
     /\ fences' = [fences EXCEPT ![watcher[w].row] = @ + 1]
     /\ UNCHANGED <<rows, host, open, claim, client, holds, faults, abandoned>>

(* A plausible slip: the registry edit trusts the first look.              *)
FenceUnchecked(w) ==
  /\ watcher[w].step = "fence"
  /\ \/ ~open /\ Answered(w, "uncertain")
     \/ open /\ FenceOwner(w)

(* The second look, inside the registry edit.  Maintenance refuses the     *)
(* edit itself, and the source launch may be unreadable; neither is a      *)
(* RestartRefusal.  A turn taken since the first look wins.                *)
Fence(w) ==
  /\ watcher[w].step = "fence"
  /\ LET o == OwnerOf(w)
     IN \/ Answered(w, "uncertain")
        \/ /\ open /\ ~SelectionCurrent(o, SelectedBy(w))
           /\ Answered(w, "stale")
        \/ /\ open /\ SelectionCurrent(o, SelectedBy(w))
           /\ IF Restartable(o) /\ registry[o].turns = watcher[w].turns
                THEN FenceOwner(w) ELSE Answered(w, "pending")

(* Session retirement: the stopped row keeps no process and advances its   *)
(* claim; the host is retired once no owner of the root runs in it.        *)
Withdrawn(o) == [registry[o] EXCEPT !.status = "stopped", !.claim = @ + 1,
                                    !.process = 0, !.turn = "none"]

HostAfter(o) ==
  {host} \cup (IF \A other \in Owner \ {o} : registry[other].process # host.number
                 THEN {[host EXCEPT !.alive = FALSE]} ELSE {})

(* A plausible slip: a failure after the fence waits for another try.      *)
RetriedFailure == "pending"

(* The state of a request whose restart failed after the fence.            *)
StoppedOwnerFailure == "uncertain"

(* FencedOwnerBatch.complete: retire the fenced original, or fail with     *)
(* StoppedOwnerFailure, which abandons the batch where it is.              *)
StopFenced(w) ==
  /\ watcher[w].step = "stop"
  /\ LET o == OwnerOf(w)
     IN \/ Answered(w, StoppedOwnerFailure)
        \/ /\ open /\ registry[o].status = "stopping"
           /\ registry[o].claim = watcher[w].claim
           /\ registry' = [registry EXCEPT ![o] = Withdrawn(o)]
           /\ host' \in HostAfter(o)
           /\ watcher' = [watcher EXCEPT ![w] =
                [@ EXCEPT !.step = "launch", !.claim = registry[o].claim + 1]]
           /\ UNCHANGED <<rows, open, claim, client, holds, faults, fences, abandoned>>

(* acquire_host and reserve_owner: the recorded host if it is alive, else  *)
(* a new one; a new claim generation.                                      *)
HostForStart == IF host.alive THEN host
                ELSE [number |-> host.number + 1, alive |-> TRUE]

Started(o, process) ==
  [registry[o] EXCEPT !.status = "active", !.claim = @ + 1,
                      !.process = process, !.turn = "none"]

LaunchOwner(o) ==
  /\ HostForStart.number \in 1..MaxHost
  /\ host' = HostForStart
  /\ registry' = [registry EXCEPT ![o] = Started(o, HostForStart.number)]

(* StoppedOwnerBatch.launch: every retired owner is unchanged, then the    *)
(* replacement is reserved; a failure leaves the owner stopped.            *)
Relaunch(w) ==
  /\ watcher[w].step = "launch"
  /\ LET o == OwnerOf(w)
     IN \/ Answered(w, StoppedOwnerFailure)
        \/ /\ open /\ registry[o].status = "stopped"
           /\ registry[o].claim = watcher[w].claim
           /\ LaunchOwner(o)
           /\ watcher' = Answer(w, "restarted")
           /\ UNCHANGED <<rows, open, claim, client, holds, faults, fences, abandoned>>

(* RestartQueue._complete: the answer of the attempt, in one transaction.  *)
Complete(w) ==
  \/ Held(w, "complete")
  \/ /\ watcher[w].step = "complete" /\ open
     /\ rows[watcher[w].row].state = "attempting"
     /\ Upserted(watcher[w].row, watcher[w].result,
                 [Looping(w, NextIn(watcher[w].todo)) EXCEPT
                    ![w] = [@ EXCEPT !.todo = watcher[w].todo]])
     /\ UNCHANGED <<registry, host, open, claim, client, holds, faults,
                    fences, abandoned>>

-----------------------------------------------------------------------------
(* A plausible slip: the claim is given up on the rows that step listed,   *)
(* without looking for a request enqueued since.                           *)
ReleaseUnasked(w) ==
  /\ watcher[w].step = "release" /\ open
  /\ claim' = NoOne
  /\ watcher' = [watcher EXCEPT ![w] = NotRunning]
  /\ UNCHANGED <<rows, registry, host, open, client, holds, faults, fences, abandoned>>

(* RestartQueue.release_if_empty: the claim is given up inside the         *)
(* transaction that saw no pending row.                                    *)
ReleaseIfEmpty(w) ==
  \/ Held(w, "release")
  \/ watcher[w].step = "release" /\ open /\ Pending # {} /\ Goto(w, "wait")
  \/ /\ watcher[w].step = "release" /\ open /\ Pending = {}
     /\ claim' = NoOne
     /\ watcher' = [watcher EXCEPT ![w] = NotRunning]
     /\ UNCHANGED <<rows, registry, host, open, client, holds, faults, fences, abandoned>>

(* changes.wait()                                                          *)
Wake(w) ==
  watcher[w].step = "wait" /\ watcher[w].signal /\ Goto(w, "prepare")

-----------------------------------------------------------------------------
(* Faults.  Killed processes leave their rows; a watcher that raises gives *)
(* up its claim and then blocks every pending row (main).                  *)
CanFault == faults < MaxFaults /\ holds + faults < MaxUpsets /\ faults' = faults + 1

ClaimWithout(w) == IF claim = w THEN NoOne ELSE claim

(* The rows that end with w: the one it attempts, and those pending.       *)
LeftBy(w) == Pending \cup ({watcher[w].row} \ {NoOne})

WatcherDies(w) ==
  /\ CanFault
  /\ watcher[w].step # "none"
  /\ watcher' = [watcher EXCEPT ![w] = NotRunning]
  /\ claim' = ClaimWithout(w)
  /\ abandoned' = abandoned \cup LeftBy(w)
  /\ UNCHANGED <<rows, registry, host, open, client, holds, fences>>

(* An enqueue call that dies before it starts its watcher.                 *)
ClientDies(c) ==
  /\ CanFault
  /\ client[c].step = "starting"
  /\ client' = [client EXCEPT ![c] = NotCalling]
  /\ abandoned' = abandoned \cup Pending
  /\ UNCHANGED <<rows, registry, host, open, claim, watcher, holds, fences>>

(* Another error leaves run: a busy store, a failed change source, a       *)
(* registry that kept changing.  ExitStack closes the claim file first.    *)
WatcherFails(w) ==
  /\ CanFault
  /\ claim = w
  /\ watcher' = [watcher EXCEPT ![w] = [NotRunning EXCEPT !.step = "failing"]]
  /\ claim' = NoOne
  /\ abandoned' = abandoned \cup ({watcher[w].row} \ {NoOne})
  /\ UNCHANGED <<rows, registry, host, open, client, holds, fences>>

(* RestartQueue.block_failed, which maintenance refuses like every write.  *)
BlockFailed(w) ==
  /\ watcher[w].step = "failing"
  /\ LET ended == [watcher EXCEPT ![w] = NotRunning]
     IN \/ /\ open
           /\ Commit([r \in Request |-> IF rows[r].state = "pending"
                                          THEN Transition(rows[r], "blocked")
                                          ELSE rows[r]], ended)
           /\ UNCHANGED abandoned
        \/ /\ ~open
           /\ watcher' = ended /\ abandoned' = abandoned \cup Pending
           /\ UNCHANGED rows
  /\ UNCHANGED <<registry, host, open, claim, client, holds, faults, fences>>

-----------------------------------------------------------------------------
(* The owner and the other commands.  Their registry edits wake no        *)
(* watcher: its sources are the queue, the bus and the witness files.      *)
SetEntry(o, entry) ==
  /\ registry' = [registry EXCEPT ![o] = entry]
  /\ UNCHANGED <<rows, open, claim, watcher, client, holds, faults, fences, abandoned>>

(* A turn lease on an idle owner (RegistryEdit.lease_turn).                *)
ClaimTurn(o) ==
  /\ open /\ Selectable(o) /\ registry[o].turn = "none"
  /\ registry[o].turns < MaxTurns
  /\ SetEntry(o, [registry[o] EXCEPT !.turn = "working", !.turns = @ + 1])
  /\ UNCHANGED host

FinishTurn(o) ==
  /\ open /\ registry[o].turn # "none" /\ ProcessAlive(registry[o].process)
  /\ SetEntry(o, [registry[o] EXCEPT !.turn = "none"])
  /\ UNCHANGED host

(* The turn wrote nothing to its transcript for wedged_after seconds.      *)
WedgeTurn(o) ==
  /\ registry[o].turn = "working"
  /\ SetEntry(o, [registry[o] EXCEPT !.turn = "wedged"])
  /\ UNCHANGED host

(* OwnerLifecycle.stop and start_many, called by another command.          *)
StopOwner(o) ==
  /\ open /\ registry[o].status # "stopped" /\ registry[o].claim < MaxClaim
  /\ SetEntry(o, Withdrawn(o))
  /\ host' \in HostAfter(o)

StartOwner(o) ==
  /\ open /\ registry[o].claim <= MaxClaim
  /\ \/ registry[o].status = "stopped"
     \/ registry[o].status = "active" /\ ~ProcessAlive(registry[o].process)
  /\ LaunchOwner(o)
  /\ UNCHANGED <<rows, open, claim, watcher, client, holds, faults, fences, abandoned>>

(* The host exits; nothing records it.                                     *)
HostDies ==
  /\ host.alive /\ host.number < MaxHost
  /\ host' = [host EXCEPT !.alive = FALSE]
  /\ UNCHANGED <<rows, registry, open, claim, watcher, client, holds, faults,
                 fences, abandoned>>

(* A maintenance holder closes and reopens the root; the witness files are *)
(* among the watcher's sources.                                            *)
HoldMaintenance ==
  /\ open /\ holds < MaxHolds /\ holds + faults < MaxUpsets
  /\ open' = FALSE /\ holds' = holds + 1
  /\ watcher' = Signalled(watcher)
  /\ UNCHANGED <<rows, registry, host, claim, client, faults, fences, abandoned>>

ReleaseMaintenance ==
  /\ ~open /\ open' = TRUE
  /\ watcher' = Signalled(watcher)
  /\ UNCHANGED <<rows, registry, host, claim, client, holds, faults, fences, abandoned>>

(* Somebody publishes on the bus.  A signal is only looked at in wait, so  *)
(* the earlier moments at which it may arrive are left out.                *)
BusCommits(w) ==
  /\ watcher[w].step = "wait" /\ ~watcher[w].signal
  /\ watcher' = [watcher EXCEPT ![w] = [@ EXCEPT !.signal = TRUE]]
  /\ UNCHANGED <<rows, registry, host, open, claim, client, holds, faults,
                 fences, abandoned>>

-----------------------------------------------------------------------------
Restarting(w) ==
  CheckRestart(w) \/ Fence(w) \/ StopFenced(w) \/ Relaunch(w) \/ Complete(w)

Running(w) ==
  \/ ClaimWatcher(w) \/ Prepare(w) \/ ReadBarrier(w) \/ Ready(w) \/ Attempt(w)
  \/ Restarting(w) \/ ReleaseIfEmpty(w) \/ Wake(w) \/ BlockFailed(w)

Calling(c) == Enqueue(c) \/ \E w \in Watcher : StartWatcher(c, w)

Next ==
  \/ \E c \in Client : \/ Calling(c) \/ ClientDies(c)
                       \/ \E o \in Owner, t \in Target : CheckEnqueue(c, o, t)
  \/ \E w \in Watcher : \/ Running(w) \/ WatcherDies(w) \/ WatcherFails(w)
                        \/ BusCommits(w)
  \/ \E o \in Owner : \/ Cancel(o) \/ ClaimTurn(o) \/ FinishTurn(o)
                      \/ WedgeTurn(o) \/ StopOwner(o) \/ StartOwner(o)
  \/ HostDies \/ HoldMaintenance \/ ReleaseMaintenance

Spec == Init /\ [][Next]_vars

(* A running process keeps running, a maintenance window ends, and a turn  *)
(* ends; nothing makes anyone enqueue, cancel, stop, start, or fail.       *)
FairSpec ==
  /\ Spec
  /\ \A w \in Watcher : WF_vars(Running(w))
  /\ \A c \in Client : WF_vars(Calling(c))
  /\ \A o \in Owner : WF_vars(FinishTurn(o))
  /\ WF_vars(ReleaseMaintenance)

-----------------------------------------------------------------------------
(* The unique index on active owners is never tripped, and the watcher     *)
(* that attempts a row is the one holding the claim, on a row still        *)
(* marked attempting: enqueue, cancel, _settle and block_failed leave      *)
(* attempting rows alone, whoever fails or dies in between.                *)
OneIntentPerOwner ==
  /\ \A o \in Owner : \A q, r \in ActiveRows(o) : q = r
  /\ \A w \in Watcher : watcher[w].step \in AttemptStep =>
       claim = w /\ rows[watcher[w].row].state = "attempting"

(* A request fences its owner at most once, and a request that fenced is   *)
(* never again one that could wait, be withdrawn or be superseded: its     *)
(* answer is restarted or uncertain, or it stays attempting (the class     *)
(* comment of RestartQueue, restart_queue.py:237).                         *)
FencedOnce ==
  \A r \in Request :
     /\ fences[r] <= 1
     /\ fences[r] = 1 => rows[r].state \in {"attempting", "uncertain", "restarted"}

FenceIsCurrent ==
  \A w \in Watcher :
    (watcher[w].step = "fence" /\ watcher'[w].step = "stop") =>
       LET o == OwnerOf(w)
       IN SelectionOf(o) = SelectedBy(w) /\ registry[o].turn # "working"

(* The queue fences only the very registration the request selected, and   *)
(* never one that a turn was working in at the fence: whoever stopped,     *)
(* started or gave a turn to the owner since then wins.                    *)
FencesTheSelected == [][FenceIsCurrent]_vars

(* Somebody who will still scan the store or block what is in it.          *)
Attended ==
  \/ claim # NoOne
  \/ \E w \in Watcher : watcher[w].step \in {"spawned", "failing"}
  \/ \E c \in Client : client[c].step = "starting"

(* "So no request is orphaned" (restart_queue.py:364): while a request is  *)
(* pending somebody attends to it, whichever way enqueue, the losing       *)
(* watcher and the exiting watcher interleave, unless a process died or    *)
(* its block_failed was refused.                                           *)
PendingIsAttended == Pending \subseteq abandoned \/ Attended

(* Without deaths and failures every pending request gets its answer, or   *)
(* stays attempting because maintenance refused the answer: refusals that  *)
(* put it back to pending end, and the watcher always looks again, though  *)
(* the end of a turn writes no file that it watches.                       *)
PendingIsTakenUp == \A r \in Request :
  rows[r].state = "pending" ~>
     rows[r].state # "pending" /\ \A w \in Watcher : watcher[w].row # r

(* restart_queue.py:401 says of a request that met maintenance "The same   *)
(* request resumes after the maintenance witness changes": no row stays    *)
(* attempting unless its watcher is still at it, died or failed.           *)
HeldRequestResumes ==
  \A r \in Rows("attempting") :
     r \in abandoned \/ \E w \in Watcher : watcher[w].row = r
=============================================================================
