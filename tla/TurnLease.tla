---------------------------- MODULE TurnLease ----------------------------
(***************************************************************************)
(* The turn lease of one agent thread: who may publish as its running      *)
(* turn.  The answer is spread over two kinds of file.  The registry names *)
(* the thread's turn generation, its input claim and its owner process.    *)
(* One file per turn generation holds the turn: its ID, the claim it was   *)
(* leased under (absent once revoked) and its phase.                       *)
(*                                                                         *)
(* A registry edit holds the registry's exclusive lock, writes turn files  *)
(* on the way and saves the registry last; its process may die between the *)
(* two.  A phase change holds only the shared registry lock and the turn   *)
(* file's own lock.  Leases are remembered by runners, which act on them   *)
(* later, whatever happened to the thread in between.                      *)
(***************************************************************************)
EXTENDS Integers

CONSTANTS
    MaxTurns,   \* turn IDs minted
    MaxGen,     \* the last turn generation (2^63 - 1 in the code)
    MaxClaim,   \* bound on the input claims allocated
    MaxHosts,   \* bound on the worker host processes spawned
    Phases,     \* turn phases
    FirstPhase  \* PreparingPhase

ASSUME BoundsAssumption ==
    /\ MaxTurns \in Nat
    /\ MaxGen \in Nat
    /\ MaxClaim \in Nat \ {0}
    /\ MaxHosts \in Nat \ {0}
    /\ FirstPhase \in Phases

VARIABLES
    registry,   \* the saved row of the thread
    files,      \* one turn file per generation
    edit,       \* the registry edit in progress: who, what it will save
    host,       \* the worker host process: its number, and whether it runs
    runners,    \* per turn ID, the task that runs it and the lease it holds
    stop,       \* the owner a stop has fenced and waits for
    completed,  \* the turns whose release returned a FinishedTurnFence
    revoked     \* the turns whose recorded claim an edit withdrew

vars == <<registry, files, edit, host, runners, stop, completed, revoked>>

Turns == 1..MaxTurns
NoTurn == 0
Gens == 0..MaxGen
Claims == 0..MaxClaim
Hosts == 1..MaxHosts
NoProcess == 0
Unrecorded == 0

-----------------------------------------------------------------------------
(* The two files and the lease.                                            *)

Rows == [status : {"active", "stopped", "archived"}, process : Hosts \cup {NoProcess},
         claim : Claims, owner : Claims, gen : Gens,
         record : {"none", "stored", "finished"}, turn : Turns \cup {NoTurn}]

TurnFiles == [id : Turns \cup {NoTurn}, claim : Claims, phase : Phases]

NoFile == [id |-> NoTurn, claim |-> Unrecorded, phase |-> FirstPhase]

Runners == [state : {"new", "leasing", "leased", "holding", "ending", "over"},
            gen : Gens, claim : Claims]

Edits == [op : {"lease", "retire", "release", "client", "owner"}, doc : Rows,
          turn : Turns \cup {NoTurn}, attested : BOOLEAN]

Free == [op |-> "free"]
Unlocked == edit = Free

\* ActiveTurn.held_by: the file still records this exact turn, claim and generation.
HeldBy(file, t) ==
    /\ file.id = t
    /\ file.claim = runners[t].claim
    /\ file.claim # Unrecorded

\* Mutant: only a turn that still records the lease's claim may be released.
MayReleaseHeld(file, t) == HeldBy(file, t)

\* ActiveTurn.may_release: a file whose claim was withdrawn is released under the lease's.
MayRelease(file, t) ==
    /\ file.id = t
    /\ file.claim \in {Unrecorded, runners[t].claim}

\* RegistrySnapshot.holds_turn: the row names this turn generation.
HoldsTurn(g) == registry.gen = g

\* Thread.executing: the row references a stored turn.
Executing(row) == row.record = "stored"

\* TurnRecord.released: a live reference is dropped, a finished turn stays.
Released(record) == IF record = "stored" THEN "none" ELSE record

\* The observed status: a row is active while the process it names runs.
Alive(row) == host.up /\ row.process = host.n
Active(row) == row.status = "active" /\ Alive(row)

\* Mutant: an edit leaves the turn file to the registry's own claim.
WithoutClaimKept == files

\* StoredTurnRecord.without_claim, when the row references a turn.
WithoutClaim ==
    IF Executing(registry)
    THEN [files EXCEPT ![registry.gen].claim = Unrecorded]
    ELSE files

\* The turns that lose their claim when the referenced file is stripped.
Stripped ==
    IF Executing(registry) /\ files[registry.gen].claim # Unrecorded
    THEN {files[registry.gen].id} ELSE {}

-----------------------------------------------------------------------------
(* The rows that the edits save.                                           *)

\* RegistryDocument.advance_claim, with owners.advance when the owner changes.
Advanced(row, ownerChanges) ==
    [row EXCEPT !.claim = @ + 1, !.owner = IF ownerChanges THEN @ + 1 ELSE @]

\* RegistryDocument._withdraw: fence_owner, and fence_restart_owner once it may proceed.
Fenced(row) ==
    [Advanced(row, Active(row)) EXCEPT !.status = "stopped", !.record = Released(@)]

\* RegistryDocument.unregister: the process binding goes with the session.
Unregistered(row) == [Fenced(row) EXCEPT !.process = NoProcess]

Archived(row) == [Advanced(row, FALSE) EXCEPT !.status = "archived"]

Resumed(row) == [Advanced(row, TRUE) EXCEPT !.status = "active"]

\* Registration.reserve_owner: a new process, and no turn of the previous one.
Reserved(row, p) ==
    [Resumed(row) EXCEPT !.process = p, !.record = Released(@)]

-----------------------------------------------------------------------------
Init ==
    /\ registry = [status |-> "active", process |-> 1, claim |-> 1, owner |-> 1,
                   gen |-> 0, record |-> "none", turn |-> NoTurn]
    /\ files = [g \in Gens |-> NoFile]
    /\ edit = Free
    /\ host = [n |-> 1, up |-> TRUE]
    /\ runners = [t \in Turns |-> [state |-> "new", gen |-> 0, claim |-> Unrecorded]]
    /\ stop = [owner |-> 0, claim |-> 0]
    /\ completed = {}
    /\ revoked = {}

(* A turn begins: lease_local_turn, lease_live_turn_with_claim.            *)

\* RegistryEdit.lease_turn: the new generation's file is written first.
WriteLease(t) ==
    /\ Unlocked
    /\ runners[t].state = "new"
    /\ \A u \in Turns : u < t => runners[u].state # "new"
    /\ registry.gen < MaxGen
    /\ files' = [files EXCEPT ![registry.gen + 1] =
                    [id |-> t, claim |-> registry.claim, phase |-> FirstPhase]]
    /\ edit' = [op |-> "lease", turn |-> t, attested |-> FALSE,
                doc |-> [registry EXCEPT !.gen = @ + 1, !.record = "stored", !.turn = NoTurn]]
    /\ runners' = [runners EXCEPT ![t] =
                      [state |-> "leasing", gen |-> registry.gen + 1, claim |-> Unrecorded]]
    /\ UNCHANGED <<registry, host, stop, completed, revoked>>

\* Mutant: a running turn does not refuse the next one.
LeaseTurnBusy(t) == Active(registry) /\ WriteLease(t)

\* RegistryOwner.capture_local and require_idle: a live owner with no running turn.
LeaseTurn(t) == Active(registry) /\ ~Executing(registry) /\ WriteLease(t)

\* RegistryEdit.commit of a lease: the row first, then the superseded file goes.
SaveLease ==
    /\ edit.op = "lease"
    /\ registry' = edit.doc
    /\ IF registry.gen = 0
       THEN /\ edit' = Free
            /\ runners' = [runners EXCEPT ![edit.turn].state = "leased"]
       ELSE /\ edit' = [edit EXCEPT !.op = "retire"]
            /\ UNCHANGED runners
    /\ UNCHANGED <<files, host, stop, completed, revoked>>

\* Mutant: the file of the generation just leased goes.
RetireNamed ==
    /\ edit.op = "retire"
    /\ files' = [files EXCEPT ![registry.gen] = NoFile]
    /\ runners' = [runners EXCEPT ![edit.turn].state = "leased"]
    /\ edit' = Free
    /\ UNCHANGED <<registry, host, stop, completed, revoked>>

\* StoredTurnRecord.retire of the superseded generation's file.
RetireSuperseded ==
    /\ edit.op = "retire"
    /\ files' = [files EXCEPT ![registry.gen - 1] = NoFile]
    /\ runners' = [runners EXCEPT ![edit.turn].state = "leased"]
    /\ edit' = Free
    /\ UNCHANGED <<registry, host, stop, completed, revoked>>

\* Thread.require_turn_lease after the edit: the file is read under no registry lock.
\* A file that is gone, or has lost its claim, raises and ends the turn there.
ReadLease(t) ==
    /\ runners[t].state = "leased"
    /\ LET file == files[runners[t].gen] IN
       runners' = [runners EXCEPT ![t] =
          [state |-> IF file.id = t /\ file.claim # Unrecorded THEN "holding" ELSE "over",
           gen |-> runners[t].gen,
           claim |-> IF file.id = t THEN file.claim ELSE Unrecorded]]
    /\ UNCHANGED <<registry, files, edit, host, stop, completed, revoked>>

-----------------------------------------------------------------------------
(* A running turn: AgentActivity.transition_turn and finish_turn.          *)

\* Mutant: the file's turn ID alone lets a phase change through.
TransitionById(t, p) ==
    /\ Unlocked
    /\ runners[t].state = "holding"
    /\ HoldsTurn(runners[t].gen)
    /\ files[runners[t].gen].id = t
    /\ files[runners[t].gen].phase # p
    /\ files' = [files EXCEPT ![runners[t].gen].phase = p]
    /\ UNCHANGED <<registry, edit, host, runners, stop, completed, revoked>>

\* RegistryStore.change_turn with NamedTurn.effects: the shared registry lock keeps
\* the generation named while the turn file's own transaction changes it.
Transition(t, p) ==
    /\ Unlocked
    /\ runners[t].state = "holding"
    /\ HoldsTurn(runners[t].gen)
    /\ HeldBy(files[runners[t].gen], t)
    /\ files[runners[t].gen].phase # p
    /\ files' = [files EXCEPT ![runners[t].gen].phase = p]
    /\ UNCHANGED <<registry, edit, host, runners, stop, completed, revoked>>

\* RegistryDocument.release_turn's last part: the claim goes before the row.
WriteRelease(t, attested) ==
    /\ Unlocked
    /\ runners[t].state = "holding"
    /\ Executing(registry)
    /\ edit' = [op |-> "release", turn |-> t, attested |-> attested,
                doc |-> [registry EXCEPT !.record = "finished", !.turn = t]]
    /\ files' = WithoutClaim
    /\ runners' = [runners EXCEPT ![t].state = "ending"]
    /\ UNCHANGED <<registry, host, stop, completed, revoked>>

\* Mutant: a release completes the turn without asking whether it was still held.
ReleaseAttesting(t) ==
    /\ HoldsTurn(runners[t].gen)
    /\ MayRelease(files[registry.gen], t)
    /\ WriteRelease(t, TRUE)

\* Mutant: whatever turn the row references is released.
ReleaseAny(t) == WriteRelease(t, FALSE)

\* RegistryDocument.release_turn of the lease that the row still names.
ReleaseTurn(t) ==
    /\ HoldsTurn(runners[t].gen)
    /\ MayRelease(files[registry.gen], t)
    /\ WriteRelease(t, /\ runners[t].claim = registry.claim
                       /\ HeldBy(files[registry.gen], t)
                       /\ Active(registry))

SaveRelease ==
    /\ edit.op = "release"
    /\ registry' = edit.doc
    /\ completed' = completed \cup (IF edit.attested THEN {edit.turn} ELSE {})
    /\ runners' = [runners EXCEPT ![edit.turn].state = "over"]
    /\ edit' = Free
    /\ UNCHANGED <<files, host, stop, revoked>>

\* release_turn of a lease the row no longer names, or a file that is another turn's.
ReleaseRefused(t) ==
    /\ Unlocked
    /\ runners[t].state = "holding"
    /\ ~ (/\ Executing(registry)
          /\ HoldsTurn(runners[t].gen)
          /\ MayRelease(files[registry.gen], t))
    /\ runners' = [runners EXCEPT ![t].state = "over"]
    /\ UNCHANGED <<registry, files, edit, host, stop, completed, revoked>>

-----------------------------------------------------------------------------
(* The owner around the turn: stop, session completion, start, archive and *)
(* heartbeat.  Each strips the referenced turn's claim, then saves the row.*)

Withdraw(op, row) ==
    /\ Unlocked
    /\ registry.claim < MaxClaim
    /\ edit' = [op |-> op, turn |-> NoTurn, attested |-> FALSE, doc |-> row]
    /\ files' = WithoutClaim
    /\ revoked' = revoked \cup Stripped
    /\ UNCHANGED <<registry, host, runners, completed>>

\* OwnerLifecycle.fence_stop, release and fence_restart_owners (an idle or wedged owner).
FenceStop ==
    /\ registry.process # NoProcess
    /\ Withdraw("client", Fenced(registry))
    /\ stop' = [owner |-> Fenced(registry).owner, claim |-> Fenced(registry).claim]

\* OwnerLifecycle.fence_stop of a row with no process: a present one (its heartbeat is
\* recent) is unregistered at once and its owner withdrawn.
StopUnbound ==
    /\ registry.process = NoProcess
    /\ registry.status = "active"
    /\ Withdraw("client", [Unregistered(registry) EXCEPT !.owner = registry.owner + 1])
    /\ UNCHANGED stop

\* OwnerLifecycle.complete_session: the host has joined the session's turn, and the
\* owner is still the one the stop fenced.
CompleteSession ==
    /\ Alive(registry)
    /\ stop.owner = registry.owner
    /\ ~Executing(registry)
    /\ \A t \in Turns : runners[t].state \in {"new", "over"}
    /\ Withdraw("owner", Unregistered(registry))
    /\ UNCHANGED stop

\* OwnerLifecycle._finish_stopped_owners: the fenced process is gone.
FinishStopped ==
    /\ registry.process # NoProcess
    /\ ~Alive(registry)
    /\ stop.claim = registry.claim
    /\ Withdraw("client", Unregistered(registry))
    /\ UNCHANGED stop

\* Threads.archive: a row that is stopped, or whose process (or heartbeat) is gone.
Archive ==
    /\ registry.status # "archived"
    /\ ~Active(registry)
    /\ Withdraw("client", Archived(registry))
    /\ UNCHANGED stop

\* RegistryDocument.heartbeat of a row that is not active: it resumes.
Heartbeat ==
    /\ ~Active(registry)
    /\ Withdraw("client", Resumed(registry))
    /\ UNCHANGED stop

\* OwnerLifecycle.launching_owner: a live host, then the reservation.
StartOwner ==
    /\ host.up
    /\ ~Alive(registry)
    /\ registry.status # "archived"
    /\ Withdraw("client", Reserved(registry, host.n))
    /\ UNCHANGED stop

Save ==
    /\ edit.op \in {"client", "owner"}
    /\ registry' = edit.doc
    /\ edit' = Free
    /\ UNCHANGED <<files, host, runners, stop, completed, revoked>>

-----------------------------------------------------------------------------
(* Processes.                                                              *)

\* A client process dies inside its edit: the lock goes, the row is not saved.
ClientDies ==
    /\ edit.op = "client"
    /\ edit' = Free
    /\ UNCHANGED <<registry, files, host, runners, stop, completed, revoked>>

\* The worker host dies with its runners, and with an edit of its own.
HostDies ==
    /\ host.up
    /\ host' = [host EXCEPT !.up = FALSE]
    /\ runners' = [t \in Turns |-> [runners[t] EXCEPT
                      !.state = IF @ = "new" THEN "new" ELSE "over"]]
    /\ edit' = IF edit.op = "client" THEN edit ELSE Free
    /\ UNCHANGED <<registry, files, stop, completed, revoked>>

\* RootRuntimeStore.acquire_host with no live host.
SpawnHost ==
    /\ ~host.up
    /\ host.n < MaxHosts
    /\ host' = [n |-> host.n + 1, up |-> TRUE]
    /\ UNCHANGED <<registry, files, edit, runners, stop, completed, revoked>>

-----------------------------------------------------------------------------
TurnStep(t) ==
    \/ LeaseTurn(t)
    \/ ReadLease(t)
    \/ \E p \in Phases : Transition(t, p)
    \/ ReleaseTurn(t)
    \/ ReleaseRefused(t)

EditStep == SaveLease \/ RetireSuperseded \/ SaveRelease \/ Save

OwnerStep ==
    \/ FenceStop
    \/ StopUnbound
    \/ CompleteSession
    \/ FinishStopped
    \/ Archive
    \/ Heartbeat
    \/ StartOwner

ProcessStep == ClientDies \/ HostDies \/ SpawnHost

Next == (\E t \in Turns : TurnStep(t)) \/ EditStep \/ OwnerStep \/ ProcessStep

Spec == Init /\ [][Next]_vars

(* An edit under way goes on unless its process dies; a runner that holds a *)
(* lease settles its turn (TurnRunner.settle_turn runs in a finally).       *)
Fairness ==
    /\ WF_vars(EditStep)
    /\ \A t \in Turns : SF_vars(ReleaseTurn(t) \/ ReleaseRefused(t))

FairSpec == Spec /\ Fairness

-----------------------------------------------------------------------------
(* Properties.                                                             *)

\* The types of the row, the files, the edit and the runners.
TypeOK ==
    /\ registry \in Rows
    /\ files \in [Gens -> TurnFiles]
    /\ edit \in Edits \cup {Free}
    /\ host \in [n : Hosts, up : BOOLEAN]
    /\ runners \in [Turns -> Runners]
    /\ stop \in [owner : Claims, claim : Claims]
    /\ completed \subseteq Turns
    /\ revoked \subseteq Turns

\* The generation that the registry names always has its file, wherever a process
\* died: commit saves the row between writing the new file and retiring the old one,
\* so read_turn, change_turn and retire never meet a missing turn file.
GenerationHasItsFile == registry.gen > 0 => files[registry.gen].id # NoTurn

\* A claim recorded in the named generation's file is the row's own claim, and the row
\* references the turn: an edit withdraws the file's claim before it saves a new one,
\* so NamedTurn.effects may trust the file without reading the row's claim.
RecordedClaimIsCurrent ==
    files[registry.gen].claim # Unrecorded =>
        Executing(registry) /\ files[registry.gen].claim = registry.claim

\* A turn whose claim an edit withdrew is never reported as completed by release_turn,
\* even when that edit died before it saved the row and the row still names the turn.
RevokedNeverCompletes == revoked \cap completed = {}

\* Every file whose phase moves is the named generation's, under the row's claim.
PhasesMoveUnderTheClaim ==
    \A g \in Gens :
        files'[g].phase # files[g].phase /\ files'[g].id = files[g].id =>
            /\ registry.gen = g
            /\ registry.status = "active"
            /\ \E t \in Turns : /\ files[g].id = t
                                /\ runners[t].state = "holding"
                                /\ runners[t].claim = registry.claim

\* A phase reaches the file of a turn only while the row names that turn and still
\* carries the claim it was leased under: AgentActivity.transition_turn by a runner
\* that was stopped, restarted or superseded changes nothing.
PhaseNeedsTheClaim == [][PhasesMoveUnderTheClaim]_vars

\* A turn the row finishes is the one in the named generation's file.
FinishesTheNamed ==
    registry.record = "stored" /\ registry'.record = "finished" =>
        registry'.turn = files[registry.gen].id

\* A row finishes the turn its generation holds, never a successor's: release_turn by a
\* late runner cannot end the turn that replaced its own.
FinishesItsOwnTurn == [][FinishesTheNamed]_vars

\* A turn whose runner holds its lease does not stay referenced: it is released even
\* when an edit that died half-way has withdrawn its claim (ActiveTurn.may_release),
\* unless the host dies with the runner.
HeldTurnIsReleased ==
    \A t \in Turns :
        runners[t].state = "holding" ~>
            ~ (Executing(registry) /\ files[registry.gen].id = t) \/ ~Alive(registry)

-----------------------------------------------------------------------------
(* The lease implements TurnGrant: the holder is the referenced turn while  *)
(* its file records a claim.                                                *)

Holder == IF Executing(registry) /\ files[registry.gen].claim # Unrecorded
          THEN files[registry.gen].id ELSE NoTurn

HolderPhase == IF Holder # NoTurn THEN files[registry.gen].phase ELSE FirstPhase

Ending == IF edit.op = "release" /\ edit.attested THEN edit.turn ELSE NoTurn

Grants == INSTANCE TurnGrant WITH
    holder <- Holder, phase <- HolderPhase, ending <- Ending, completed <- completed

\* The registry and the turn files together behave as one grant: one holder at most,
\* only the holder's phase moves, a revoked turn never acts again, and a turn is
\* reported as completed only when it gave up a grant it still held.
ImplementsGrant == Grants!Spec
==========================================================================
