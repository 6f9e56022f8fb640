------------------------- MODULE MaintenanceBarrier -------------------------
(***************************************************************************)
(* The maintenance barrier of one bus root: three witness files (target,   *)
(* marker, state) that record who holds maintenance, the install processes *)
(* that rewrite them under the registry lock, and the processes that ask   *)
(* them before they admit an input or commit to a file every installation  *)
(* carries.                                                                *)
(*                                                                         *)
(* A rewrite replaces the files one at a time.  Inputs are checked under   *)
(* the registry lock, store transactions under the lock of their store     *)
(* only, so a transaction may read the witness between two replacements.   *)
(* A read is one step: _current_unlocked decodes the files between two     *)
(* equal captures of their revisions and refuses when the captures differ, *)
(* so what it returns was on disk at one moment.                           *)
(***************************************************************************)
EXTENDS Naturals

CONSTANTS Operator,   \* incarnations of installing processes
          Process,    \* every other process: owners, connectors, children
          NoOperator,
          MaxWrites   \* bound on witness rewrites

ASSUME OperatorAssumption == Operator \cap Process = {} /\ NoOperator \notin Operator \cup Process
ASSUME MaxWritesAssumption == MaxWrites \in Nat

VARIABLES
    marker,       \* .maintenance-enabled: its generation, 0 when absent
    state,        \* .maintenance-state
    target,       \* .maintenance-target: the write that stamped it and its runtime
    registryLock, \* the process holding the registry lock exclusively
    storeLock,    \* the process holding each store's write lock
    alive,        \* operators whose process still runs
    call,         \* what each process is in the middle of
    held,         \* the hold each operator last got back
    claim,        \* the maintenance claim each process inherited
    minted,       \* witness rewrites started: the source of fresh nonces
    captured,     \* the operator that captured each store under its hold
    changed       \* stores changed by a non-holder since that capture

witness == <<marker, state, target>>
locks == <<registryLock, storeLock>>
capture == <<captured, changed>>
vars == <<witness, locks, alive, call, held, claim, minted, capture>>

-----------------------------------------------------------------------------
(* Phases, holds and what the three files say together. *)

Successors ==
    [draining   |-> {"paused", "ready"},
     paused     |-> {"installing"},
     installing |-> {"ready"}]

HeldPhase == DOMAIN Successors
OpenPhase == {"ready", "dead_holder_released"}

\* The two carried kinds: only the holder writes the first during a hold;
\* draining owners still settle their turns in the second.
Store == {"holder_written", "drain_settled"}
Input == {"new_turn", "running_turn"}
NoUse == "none"

Hold(generation, operator, nonce, phase, runtime) ==
    [generation |-> generation, operator |-> operator, nonce |-> nonce, phase |-> phase,
     target |-> runtime]

\* A root that never enabled maintenance, and a witness that decodes to no hold.
NeverHeld == Hold(0, NoOperator, 0, "ready", "no_target")
Incomplete == Hold(0, NoOperator, 0, "incomplete", "no_target")

Stamp(hold) == [generation |-> hold.generation, nonce |-> hold.nonce, target |-> hold.target]

\* Mutation: the state file carries the target too.
WithTarget(hold) == hold

\* The state file never carries the target.
WithoutTarget(hold) == [hold EXCEPT !.target = "no_target"]

\* The target applies only to the write that stamped it.
AppliedTarget ==
    IF target.generation = state.generation /\ target.nonce = state.nonce
    THEN [state EXCEPT !.target = target.target]
    ELSE state

Current ==
    IF marker # state.generation THEN Incomplete
    ELSE IF marker = 0 THEN NeverHeld
    ELSE AppliedTarget

HolderDead(hold) == hold.phase \in HeldPhase /\ hold.operator \notin alive

HoldsClaim(process, hold) == claim[process].nonce = hold.nonce /\ hold.nonce # 0

RequireOpenTo(process, hold) == hold.phase \in OpenPhase \/
                                (hold.phase \in HeldPhase /\ HoldsClaim(process, hold))

RequireDrainedWritesOpenTo(process, hold) ==
    IF hold.target = "no_target"
    THEN hold.phase # "incomplete"
    ELSE RequireOpenTo(process, hold)

\* What a carried file of this kind, or an input of this kind, asks of the witness.
Permits(use, process, hold) ==
    CASE use = "holder_written" -> RequireOpenTo(process, hold)
      [] use = "drain_settled"  -> RequireDrainedWritesOpenTo(process, hold)
      [] use = "new_turn"       -> RequireOpenTo(process, hold)
      [] use = "running_turn"   -> hold.phase \in OpenPhase \cup {"draining"}

-----------------------------------------------------------------------------
(* Calls in progress.  "target", "marker" and "state" name the file a      *)
(* rewrite replaces next; the caller holds the registry lock exclusively.  *)

Steps == {"idle", "target", "marker", "state",            \* _write_unlocked
          "releasing",                                    \* release_dead, before its lock
          "checking", "committing",                       \* a store transaction
          "admitting", "borrowing"}                       \* an input

Writing == {"target", "marker", "state"}

Call(step, hold, use) == [step |-> step, hold |-> hold, use |-> use]
Idle == Call("idle", NeverHeld, NoUse)
NoClaim == [nonce |-> 0, from |-> NoOperator]

Borrowers == {p \in Process : call[p].step = "borrowing"}
RegistryFree == registryLock = NoOperator /\ Borrowers = {}

Goto(p, step) == call' = [call EXCEPT ![p].step = step]

\* A raise or a return ends the call; a store transaction rolls back or has committed.
EndCall(p) == /\ call' = [call EXCEPT ![p] = Idle]
              /\ storeLock' = [s \in Store |-> IF storeLock[s] = p THEN NoOperator
                                               ELSE storeLock[s]]

TypeOK ==
    LET Holds == [generation : 0 .. MaxWrites, operator : Operator \cup {NoOperator},
                  nonce : 0 .. MaxWrites, phase : HeldPhase \cup OpenPhase,
                  target : {"no_target", "target_runtime"}]
    IN /\ marker \in 0 .. MaxWrites
       /\ state \in {h \in Holds : h.target = "no_target"}
       /\ target \in [generation : 0 .. MaxWrites, nonce : 0 .. MaxWrites,
                      target : {"no_target", "target_runtime"}]
       /\ registryLock \in Operator \cup Process \cup {NoOperator}
       /\ storeLock \in [Store -> Process \cup {NoOperator}]
       /\ alive \subseteq Operator
       /\ call \in [Operator \cup Process ->
                      [step : Steps, hold : Holds, use : Store \cup Input \cup {NoUse}]]
       /\ held \in [Operator -> Holds]
       /\ claim \in [Process -> [nonce : 0 .. MaxWrites, from : Operator \cup {NoOperator}]]
       /\ minted \in 0 .. MaxWrites
       /\ captured \in [Store -> Operator \cup {NoOperator}]
       /\ changed \in [Store -> BOOLEAN]

Init ==
    /\ marker = 0
    /\ state = NeverHeld
    /\ target = Stamp(NeverHeld)
    /\ registryLock = NoOperator
    /\ storeLock = [s \in Store |-> NoOperator]
    /\ alive = Operator
    /\ call = [p \in Operator \cup Process |-> Idle]
    /\ held = [o \in Operator |-> NeverHeld]
    /\ claim = [p \in Process |-> NoClaim]
    /\ minted = 0
    /\ captured = [s \in Store |-> NoOperator]
    /\ changed = [s \in Store |-> FALSE]

-----------------------------------------------------------------------------
(* Rewriting the witness under the exclusive registry lock. *)

\* Under the lock the caller computed the next hold; it still has to replace the files.
Rewrite(p, generation, operator, phase, runtime) ==
    /\ RegistryFree
    /\ minted < MaxWrites
    /\ minted' = minted + 1
    /\ registryLock' = p
    /\ call' = [call EXCEPT ![p].step = "target",
                            ![p].hold = Hold(generation, operator, minted', phase, runtime)]
    /\ UNCHANGED <<witness, storeLock, alive, held, claim>>

Operating(o) == o \in alive /\ call[o].step = "idle"

\* A hold over an open root, or over one whose holder died.
Begin(o) ==
    /\ Operating(o)
    /\ Current.phase \in OpenPhase \/ HolderDead(Current)
    /\ Rewrite(o, Current.generation + 1, o, "draining", "no_target")
    /\ UNCHANGED capture

\* The hold its operator last got back is still what the root records.
Expected(o) == held[o].phase \in HeldPhase /\ Current = held[o]

Retarget(o) ==
    /\ Operating(o)
    /\ Expected(o)
    /\ held[o].phase = "draining"
    /\ Rewrite(o, held[o].generation + 1, held[o].operator, "draining", "target_runtime")
    /\ UNCHANGED capture

\* advance, and clear, which is advance from draining to ready.  An install compares
\* what it captured before it asks for ready.
AdvancePhase(o, phase) ==
    /\ Operating(o)
    /\ Expected(o)
    /\ phase \in Successors[held[o].phase]
    /\ Rewrite(o, held[o].generation + 1, held[o].operator, phase,
               IF phase = "ready" THEN "no_target" ELSE held[o].target)
    /\ captured' = [s \in Store |-> IF phase = "ready" /\ captured[s] = o THEN NoOperator
                                    ELSE captured[s]]
    /\ changed' = [s \in Store |-> changed[s] /\ captured'[s] # NoOperator]

\* held_by: the hold as the root records it now.
HeldBy(o) ==
    /\ Operating(o)
    /\ Current.phase = "draining" /\ Current.operator = o
    /\ held' = [held EXCEPT ![o] = Current]
    /\ UNCHANGED <<witness, locks, alive, call, claim, minted, capture>>

\* Replacing one witness file; the target leads and the state comes last.
WriteTarget(p) ==
    /\ call[p].step = "target"
    /\ target' = Stamp(call[p].hold)
    /\ Goto(p, "marker")
    /\ UNCHANGED <<marker, state, locks, alive, held, claim, minted, capture>>

WriteMarker(p) ==
    /\ call[p].step = "marker"
    /\ marker' = call[p].hold.generation
    /\ Goto(p, "state")
    /\ UNCHANGED <<state, target, locks, alive, held, claim, minted, capture>>

\* The last replacement ends the call.  It raises after releasing a dead holder, and
\* when the directory sync after the replacement fails.
WriteState(p) ==
    /\ call[p].step = "state"
    /\ state' = WithoutTarget(call[p].hold)
    /\ EndCall(p)
    /\ registryLock' = NoOperator
    /\ \/ held' = held
       \/ p \in Operator /\ call[p].hold.phase # "dead_holder_released"
          /\ held' = [held EXCEPT ![p] = call[p].hold]
    /\ captured' = [s \in Store |-> IF captured[s] = state'.operator
                                       /\ state'.phase \in HeldPhase
                                    THEN captured[s] ELSE NoOperator]
    /\ changed' = [s \in Store |-> changed[s] /\ captured'[s] # NoOperator]
    /\ UNCHANGED <<marker, target, alive, claim, minted>>

\* A replacement raises: the files keep what was replaced so far.
WriteRaises(p) ==
    /\ call[p].step \in Writing
    /\ EndCall(p)
    /\ registryLock' = NoOperator
    /\ UNCHANGED <<witness, alive, held, claim, minted, capture>>

-----------------------------------------------------------------------------
(* Releasing a dead holder. *)

\* current_unlocked outside the registry lock finds the recorded holder dead.
ObserveDead(p) ==
    /\ \/ p \in alive /\ call[p].step = "idle"
       \/ call[p].step = "checking"
    /\ HolderDead(Current)
    /\ call' = [call EXCEPT ![p].step = "releasing", ![p].hold = Current]
    /\ UNCHANGED <<witness, locks, alive, held, claim, minted, capture>>

\* Mutation: the record is not compared again under the lock.
ReleaseUncompared(p) ==
    /\ call[p].step = "releasing"
    /\ Rewrite(p, Current.generation + 1, call[p].hold.operator, "dead_holder_released",
               "no_target")
    /\ UNCHANGED capture

\* _release_dead_unlocked, when the record is still the observed one.
ReleaseDead(p) ==
    /\ call[p].step = "releasing"
    /\ Current = call[p].hold
    /\ Rewrite(p, Current.generation + 1, Current.operator, "dead_holder_released", "no_target")
    /\ UNCHANGED capture

\* _release_dead_unlocked, when somebody else moved it: the caller goes on with the
\* new record, or is refused by an incomplete one.
ReleaseOvertaken(p) ==
    /\ call[p].step = "releasing"
    /\ RegistryFree
    /\ Current # call[p].hold
    /\ \/ /\ call[p].use \in Store
          /\ Permits(call[p].use, p, Current)
          /\ Goto(p, "committing")
          /\ UNCHANGED storeLock
       \/ /\ call[p].use \in Input
          /\ Current # Incomplete
          /\ Goto(p, "admitting")
          /\ UNCHANGED storeLock
       \/ /\ call[p].use \in Store => ~ Permits(call[p].use, p, Current)
          /\ call[p].use \in Input => Current = Incomplete
          /\ EndCall(p)
    /\ UNCHANGED <<witness, registryLock, alive, held, claim, minted, capture>>

-----------------------------------------------------------------------------
(* Carried stores: StoreWriter.transaction, and an install's capture. *)

BeginTransaction(p, s) ==
    /\ call[p].step = "idle"
    /\ storeLock[s] = NoOperator
    /\ storeLock' = [storeLock EXCEPT ![s] = p]
    /\ call' = [call EXCEPT ![p] = Call("checking", NeverHeld, s)]
    /\ UNCHANGED <<witness, registryLock, alive, held, claim, minted, capture>>

\* require_maintenance_open, under the store's write lock only.
CheckTransaction(p) ==
    /\ call[p].step = "checking"
    /\ ~ HolderDead(Current)
    /\ \/ Permits(call[p].use, p, Current) /\ Goto(p, "committing") /\ UNCHANGED storeLock
       \/ ~ Permits(call[p].use, p, Current) /\ EndCall(p)
    /\ UNCHANGED <<witness, registryLock, alive, held, claim, minted, capture>>

CommitTransaction(p) ==
    /\ call[p].step = "committing"
    /\ LET s == call[p].use
       IN changed' = [changed EXCEPT ![s] =
                         @ \/ captured[s] \notin {NoOperator, claim[p].from}]
    /\ EndCall(p)
    /\ UNCHANGED <<witness, registryLock, alive, held, claim, minted, captured>>

\* Mutation: the capture does not wait out the transaction in flight.
CaptureUndrained(o, s) ==
    /\ Operating(o)
    /\ Expected(o)
    /\ held[o].target = "target_runtime"
    /\ captured' = [captured EXCEPT ![s] = o]
    /\ changed' = [changed EXCEPT ![s] = FALSE]
    /\ UNCHANGED <<witness, locks, alive, call, held, claim, minted>>

\* capture_file, under writers_drained, by an install that read back its retargeted hold.
CaptureFile(o, s) ==
    /\ Operating(o)
    /\ Expected(o)
    /\ held[o].target = "target_runtime"
    /\ storeLock[s] = NoOperator
    /\ captured' = [captured EXCEPT ![s] = o]
    /\ changed' = [changed EXCEPT ![s] = FALSE]
    /\ UNCHANGED <<witness, locks, alive, call, held, claim, minted>>

-----------------------------------------------------------------------------
(* Inputs: allow_input for a new turn, ingress_async for a running one. *)

BeginInput(p, use) ==
    /\ call[p].step = "idle"
    /\ Current # Incomplete
    /\ call' = [call EXCEPT ![p] = IF HolderDead(Current)
                                   THEN Call("releasing", Current, use)
                                   ELSE Call("admitting", NeverHeld, use)]
    /\ UNCHANGED <<witness, locks, alive, held, claim, minted, capture>>

\* Mutation: the permission seen before the registry lock is not asked again under it.
AdmitUnasked(p) ==
    /\ call[p].step = "admitting"
    /\ registryLock = NoOperator
    /\ Goto(p, "borrowing")
    /\ UNCHANGED <<witness, locks, alive, held, claim, minted, capture>>

\* The shared registry lock is taken, then the witness is asked.
Admit(p) ==
    /\ call[p].step = "admitting"
    /\ registryLock = NoOperator
    /\ \/ Permits(call[p].use, p, Current) /\ Goto(p, "borrowing") /\ UNCHANGED storeLock
       \/ ~ Permits(call[p].use, p, Current) /\ EndCall(p)
    /\ UNCHANGED <<witness, registryLock, alive, held, claim, minted, capture>>

EndInput(p) ==
    /\ call[p].step = "borrowing"
    /\ EndCall(p)
    /\ UNCHANGED <<witness, registryLock, alive, held, claim, minted, capture>>

-----------------------------------------------------------------------------
(* Processes: children that inherit a claim, and deaths. *)

\* A child started inside holding() carries the nonce of that hold.
Inherit(p, o) ==
    /\ call[p].step = "idle"
    /\ claim[p] = NoClaim
    /\ o \in alive
    /\ held[o].phase \in HeldPhase
    /\ claim' = [claim EXCEPT ![p] = [nonce |-> held[o].nonce, from |-> o]]
    /\ UNCHANGED <<witness, locks, alive, call, held, minted, capture>>

\* A death releases every lock of the process and leaves the files as they are.
Die(p) ==
    /\ p \in alive \/ (p \in Process /\ (call[p] # Idle \/ claim[p] # NoClaim))
    /\ alive' = alive \ {p}
    /\ EndCall(p)
    /\ registryLock' = IF registryLock = p THEN NoOperator ELSE registryLock
    /\ held' = [o \in Operator |-> IF o = p THEN NeverHeld ELSE held[o]]
    /\ claim' = [q \in Process |-> IF q = p THEN NoClaim ELSE claim[q]]
    /\ UNCHANGED <<witness, minted, capture>>

Next ==
    \/ \E o \in Operator :
          \/ Begin(o) \/ Retarget(o) \/ HeldBy(o)
          \/ \E phase \in {"paused", "installing", "ready"} : AdvancePhase(o, phase)
          \/ \E s \in Store : CaptureFile(o, s)
    \/ \E p \in Operator \cup Process :
          \/ WriteTarget(p) \/ WriteMarker(p) \/ WriteState(p) \/ WriteRaises(p)
          \/ ObserveDead(p) \/ ReleaseDead(p) \/ ReleaseOvertaken(p) \/ Die(p)
    \/ \E p \in Process :
          \/ CheckTransaction(p) \/ CommitTransaction(p) \/ Admit(p) \/ EndInput(p)
          \/ \E s \in Store : BeginTransaction(p, s)
          \/ \E use \in Input : BeginInput(p, use)
          \/ \E o \in Operator : Inherit(p, o)

Spec == Init /\ [][Next]_vars

-----------------------------------------------------------------------------
(* Properties. *)

(***************************************************************************)
(* While a process borrows permission for a new turn (allow_input), the    *)
(* witness on disk is complete and open, or it is the hold whose nonce the *)
(* process carries; for a running turn (ingress_async, send_running) it    *)
(* may also be draining.  A rewrite that is in progress, or that a crash   *)
(* or an error interrupted, admits nobody.                                 *)
(***************************************************************************)
InputOnlyWhileOpen ==
    \A p \in Borrowers :
        /\ marker = state.generation
        /\ \/ state.phase \in OpenPhase
           \/ call[p].use = "running_turn" /\ state.phase = "draining"
           \/ call[p].use = "new_turn" /\ claim[p].nonce = state.nonce

\* One step leaves a live operator's hold to that operator.
KeepsLiveHold ==
    state.phase \in HeldPhase /\ state.operator \in alive
       => /\ state' = state \/ registryLock = state.operator
          /\ state' = state => Current'.phase \notin OpenPhase

(***************************************************************************)
(* A hold whose operator is alive is replaced only by that operator: no    *)
(* begin takes it, no late release_dead that observed an earlier, dead     *)
(* holder releases it, and ingress does not reopen before the operator     *)
(* itself replaced the state file.                                         *)
(***************************************************************************)
LiveHoldIsKept == [][KeepsLiveHold]_vars

(***************************************************************************)
(* What an install captured of a file that only the holder writes (capture *)
(* under writers_drained) is not changed by any other process before the   *)
(* install asks for ready or its hold is released: every transaction that  *)
(* passed the check earlier was waited out, every later one is refused,    *)
(* children of an earlier hold included.                                   *)
(***************************************************************************)
CapturesStayExact == ~ changed["holder_written"]

(***************************************************************************)
(* "Retargeted once the outgoing runtime has stopped its owners: from then *)
(* on only the install's holder writes" (TargetRuntime): a goal ledger     *)
(* captured under a retargeted hold is not changed by a non-holder.        *)
(***************************************************************************)
RetargetedLedgerStaysExact == ~ changed["drain_settled"]
=============================================================================
